SPECIFICATION TransportSpec
CONSTANTS
  Messages = {m1, m2}
  Conns = {k1, k2}
  None = None
  SendBufSize = 1
  SendOnly = FALSE
  Clients = {c1, c2}
  MaxSize = 1
  RetryCount = 1
  Rounds = 1
  MaxConnections = 1
  SendQueue = 1
  MaxSends = 1
  ReadTimeout = FALSE
CHECK_DEADLOCK FALSE
INVARIANTS
  TotalExact
  StopIsClean
PROPERTIES
  MessageIsSettled
  
