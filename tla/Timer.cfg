SPECIFICATION TimerSpec
CONSTANTS
  Tasks = {k1}
  Owners = {o1, o2}
  MaxIds = 2
  Reuse = FALSE
  None = None
  Ids = {i1}
  WheelSlots = 3
  Unit = 2
  Windows = {0, 2}
  MaxTime = 8
  FewIds = {q1, q2}
  ManyIds = {q1, q2, q3, q4, q5, q6}
  Nodes = {n1, n2}
  Clock = {0, 1, 2, 3, 4}
  nodeID <- DistinctIDs
  NodeCount = 2
  SeqCount = 2
  MaxBack = 1
  EpochMs = 1
INVARIANTS
  OnTime
PROPERTIES
  
  HeapIsASchedule
  IdsIncrease
