SPECIFICATION FairSpec
CONSTANTS
  None = None
  Ids <- MCIds
  Retries <- MCRetries
  Events <- DriverEvents
  Trails <- StopTrails
  MaxReconnects = 2
  MaxEvents = 2
  MaxDuration = 3
  IdleLimit = 2
  MaxChunks = 2
  MaxBatch = 2
INVARIANTS EventCountExact NoBodyLeft BackoffFollowsHint
PROPERTIES ImplementsStream StopIsNotAFailure StopSettles NoDispatchPastCap
