SPECIFICATION Spec
CONSTANTS
  Inputs <- MCInputs
  MaxChunk = 2
INVARIANTS SameEventsForAnySplit
