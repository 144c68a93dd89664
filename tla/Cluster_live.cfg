SPECIFICATION FairClusterSpec
CONSTANTS
  None = None
  Notifications = {n1, n2}
  Calls = {c1}
  SendQueue = 1
  Callers = {g1, g2}
  Endpoints = {e1}
  SlotIds = {s1}
  Dials = {d1, d2}
  MaxReloads = 0
  Overlap = FALSE
  Requests = {r1}
  Sends = {m1}
  Barriers = {b1}
  Shards = {h1, h2}
  InboundQueue = 2
  MaxInboundCalls = 1
  Conns = {c3, c4}
CHECK_DEADLOCK FALSE
PROPERTIES
  CloseCompletes
  
  
