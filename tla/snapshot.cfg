SPECIFICATION FairSpec
CONSTANTS
  Conns = {c1}
  FilterLocalhost = TRUE
  MaxClears = 1
  MaxToggles = 2
  MaxQuiets = 2
INVARIANTS ListSound LoggedOnceSoFar RemovedIsLogged SweepAfterClear
PROPERTY ListCatchesUp
