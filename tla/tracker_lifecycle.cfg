SPECIFICATION FairSpec
CONSTANTS
  k1 = k1
  k2 = k2
  k3 = k3
  c1 = c1
  c2 = c2
  NoConn = NoConn
  NoKey = NoKey
  NoCid = NoCid
  NoTime = NoTime
  UsizeModulus = 16
  MaxPendingAge = 1
  MaxRecentRtts = 1
  Threads = {t1}
  Keys = {k1, k2}
  Cids = {c1}
  Packets <- MixedPackets
  MaxConnections = 2
  MaxHistoric = 1
  MaxQuicMappings = 1
  KeepHistoric = TRUE
  IdleTimeout = 1
  ClosedTimeout = 0
  LastPacketTime = 0
  MaxTime = 2
  MaxClears = 1
INVARIANTS HistoricBound ClearedTable
PROPERTIES TableDrains ImplementsTable
