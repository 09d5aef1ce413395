SPECIFICATION Spec
CONSTANTS
  Packets <- SomePackets
  MaxCoalesced = 2
  HelloLen = 7
  SniAt = 3
  NameAt = 4
  SniEnd = 6
  AlpnEnd = 3
  Enough = 3
  EnoughPartial = 2
  NearStart = 1
  AtStart = 0
  MaxBufferSize = 7
  NoReassembler = NoReassembler
  NoClose = NoClose
  NoInfo = NoInfo
INVARIANTS ReassemblyExact HelloRead CloseHastens
PROPERTY NameFinal
