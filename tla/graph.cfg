SPECIFICATION Spec
CONSTANTS
  Keys = {k1}
  MaxPendingAge = 2
  MaxRecentRtts = 2
  NoTime = NoTime
  Processors = {p1}
  BatchMax = 2
  MaxSamples = 2
  Window = 1
  Pause = 2
  MaxPackets = 2
  MaxSyns = 1
  MaxTime = 6
  MaxClears = 1
INVARIANTS TypeOK ShownOnce OneStaleSample SamplesConsumed
CHECK_DEADLOCK FALSE
