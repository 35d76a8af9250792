SPECIFICATION RedactionSpec
CONSTANTS
  Atoms <- MCAtoms
  Names <- MCNames
  Indices = {"0"}
  Reserved = {"proto"}
  MaxRefs = 5
  MaxDepth = 2
  Builtins <- MCBuiltins
  Requests <- MCRequests
  Stores <- MCStores
  Environments <- MCEnvironments
  Generations <- MCGenerations
  Marker <- MCMarker
  CurlMarker <- MCCurlMarker
  Fallbacks <- MCFallbacks
  Digits <- MCDigits
  Words <- MCWords
  Unicode <- MCUnicode
  CodeUnits <- MCCodeUnits
  MaxInjected = 3
  Budget = 6
INVARIANTS ReferencesResolveInPlace SecretsStayHidden ClosuresAreFair
  OneMarkerPerSecret RecordedBodyServes

