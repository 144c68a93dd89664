SPECIFICATION ClusterSpec
CONSTANTS
  None = None
  Notifications = {n1}
  Calls = {c1}
  SendQueue = 1
  Callers = {g1, g2}
  Endpoints = {e1, e2}
  SlotIds = {s1, s2, s3}
  Dials = {d1, d2, d3}
  MaxReloads = 2
  Overlap = TRUE
  Requests = {r1}
  Sends = {m1}
  Barriers = {b1}
  Shards = {h1, h2}
  InboundQueue = 1
  MaxInboundCalls = 1
  Conns = {c3, c4}
SYMMETRY Symmetry
CHECK_DEADLOCK FALSE
INVARIANTS
  SendersAreCurrent
