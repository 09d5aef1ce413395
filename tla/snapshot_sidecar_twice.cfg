SPECIFICATION Spec
CONSTANTS
  Conns = {c1}
  FilterLocalhost = TRUE
  MaxClears = 0
  MaxToggles = 0
  MaxQuiets = 0
INVARIANTS SidecarOnce
