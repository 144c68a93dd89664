SPECIFICATION ClusterSpec
CONSTANTS
  None = None
  Notifications = {n1, n2}
  Calls = {c1, c2}
  SendQueue = 1
  Callers = {g1, g2}
  Endpoints = {e1, e2}
  SlotIds = {s1, s2}
  Dials = {d1, d2}
  MaxReloads = 1
  Overlap = FALSE
  Requests = {r1, r2}
  Sends = {m1}
  Barriers = {b1}
  Shards = {h1, h2}
  InboundQueue = 2
  MaxInboundCalls = 1
  Conns = {c3, c4}
SYMMETRY Symmetry
CHECK_DEADLOCK FALSE
INVARIANTS
  NotificationAccounted
  OneResponse
  
  BarrierWaits
PROPERTIES
  AdmittedInOrder
