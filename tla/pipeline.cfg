SPECIFICATION FairSpec
CONSTANTS
  Processors = {p1, p2}
  BatchMax = 2
  QueueMax = 2
  SetupOutcomes = {"ok", "err"}
  MaxPackets = 3
  MaxKernelDrops = 1
  MaxClears = 1
INVARIANTS NotBlind DropsReal
PROPERTIES ImplementsFeed QueuedSurvives PacketsDecided StopEndsThreads
