SPECIFICATION Spec
CONSTANTS
  Openings = {{"local"}, {"remote"}, {"local", "remote"}}
  MaxData = 2
  MaxQueue = 4
INVARIANTS CloseObserved NoEarlyEstablished
PROPERTY ObservedProgress
CHECK_DEADLOCK FALSE
