SPECIFICATION MCSpec
CONSTANTS
  None = None
  root = root
  w1 = w1
  w2 = w2
  dir = dir
  http = http
  grpc = grpc
  Root = root
  Workspaces = {w1, w2}
  Dirs = {dir}
  Files = {http, grpc}
  GrpcFiles = {grpc}
  Parent <- MCParent
  Texts <- MCTexts
  Queries <- MCQueries
  Earlier <- MCEarlier
  Capacity = 2
  MaxMoves = 2
  MaxListings = 2
INVARIANTS RowsObeyFilters TreeIsCurrent RecentsAreLatest
PROPERTIES OlderPromptNeverWins
