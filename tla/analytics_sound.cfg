SPECIFICATION AnalyticsSpec
CONSTANTS
  Modulus = 16
  LocalIsn = 3
  RemoteIsn = 1
  MaxOut = 4
  MaxIn = 3
  MaxLen = 2
  MaxEvents = 3
INVARIANTS RetransmitSound OutOfOrderSound FastRetransmitEarned
CHECK_DEADLOCK FALSE
