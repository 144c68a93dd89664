SPECIFICATION SystemSpec
CONSTANTS
  Names = {n1}
  None = None
  MaxServices = 1
  Reservers = {g1}
  Protocols = {p1}
  StartAfterStop = FALSE
  Components = {c1}
  Starters = {a1}
  Stoppers = {b1}
  Overlap = FALSE
  Work = {w1}
  Drainers = {d1}
  Tasks = {t1}
CHECK_DEADLOCK FALSE
INVARIANTS
  SystemStopStopsEveryService
