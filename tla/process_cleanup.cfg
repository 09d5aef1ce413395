SPECIFICATION Spec
CONSTANTS
  Pids = {p1, p2}
  Attached = TRUE
  ThreadName = ThreadName
  NoName = NoName
  NoInfo = NoInfo
  Zero4 <- Unspecified4
  Zero6 <- Unspecified6
  Junk4 <- Placeholder4
  LittleEndian = TRUE
  MaxEntries = 1
  StaleThreshold = 1
  BootTime = 10
  MaxTime = 3
  Conns <- OneOfEach
  Inbound <- Server
  Style <- Styles
  Unknown = Unknown
  NoConn = NoConn
  MaxSpawns = 2
INVARIANT FreshEntryKept
