SPECIFICATION Spec
CONSTANTS
  None = None
  Entries <- MCEntries
  Requests <- MCRequests
INVARIANTS LatestDefinitionServes RefreshedLikeFresh
