SPECIFICATION FairSpec
CONSTANTS
  k1 = k1
  k2 = k2
  k3 = k3
  c1 = c1
  c2 = c2
  NoConn = NoConn
  NoKey = NoKey
  NoCid = NoCid
  NoTime = NoTime
  UsizeModulus = 16
  MaxPendingAge = 2
  MaxRecentRtts = 2
  Threads = {t1, t2}
  Keys = {k1, k2, k3}
  Cids = {c1, c2}
  Packets <- RacingPackets
  MaxConnections = 1
  MaxHistoric = 1
  MaxQuicMappings = 1
  KeepHistoric = FALSE
  IdleTimeout = 0
  ClosedTimeout = 0
  LastPacketTime = 0
  MaxTime = 1
  MaxClears = 0
INVARIANTS CapacityBound MappingsOwned
PROPERTIES MappingStable TableDrains
