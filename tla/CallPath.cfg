SPECIFICATION PathsSpec
CONSTANTS
  Services = {s1, s2, s3}
  Serial = {s1, s2}
  None = None
  MaxActs = 4
  Sends = FALSE
  Timeouts = FALSE
  Actors = {a1, a2, a3, a4}
  Zero = Zero
CHECK_DEADLOCK FALSE
INVARIANTS
  NoSelfDeadlock
  WaitsStayAcyclic
PROPERTIES
  ChainCycleIsReal
  RequestsServed
