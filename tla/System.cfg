SPECIFICATION SystemSpec
CONSTANTS
  Names = {n1, n2}
  None = None
  MaxServices = 2
  Reservers = {g1, g2}
  Protocols = {p1}
  StartAfterStop = FALSE
  Components = {c1, c2, c3}
  Starters = {a1, a2}
  Stoppers = {b1, b2}
  Overlap = FALSE
  Work = {w1, w2}
  Drainers = {d1, d2}
  Tasks = {t1, t2, t3}
CHECK_DEADLOCK FALSE
INVARIANTS
  
  DrainIsHonest
  TaskConserved
PROPERTIES
  NothingLeftRunning
  SystemStopTerminates
  DrainedStaysQuiet
  DrainTerminates
  TaskEnds
