SPECIFICATION SessionsSpec
CONSTANTS
  Nobody = Nobody
  Sessions = {r1, r2, r3}
  MaxPreviews = 1
  MaxDelivered = 1
SYMMETRY Interchangeable
INVARIANTS RegistryIsExact OneLiveListener ScriptsMatchPage PromptSavesItsOwn
PROPERTIES NewestViewPaints ClickStopsItsSession
