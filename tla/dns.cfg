SPECIFICATION FairSpec
CONSTANTS
  Ips = {a1, a2}
  Threads = {t1, t2}
  Callers = {u1}
  CacheTtl = 1
  NegativeCacheTtl = 1
  PendingTimeout = 1
  MaxCacheSize = 1
  NoEntry = NoEntry
  NoIp = NoIp
  MaxQueue = 1
INVARIANT PendingHasWorker
PROPERTIES CacheBound RequestAnswered DropEndsThreads
