SPECIFICATION Spec
CONSTANTS
  Requests = {r1, r2, r3}
  None = None
  MailboxSize = 2
  MaxSuspended = 1
  NoInterleave = FALSE
  Kinds = {"call", "trySend"}
  Draining = FALSE
  MaxYields = 1
SYMMETRY Symmetry
INVARIANTS
  SingleSegment
  SlotAccounting
  InterleavedSinceExact
  CallIsAnswered
  ResultIsTruthful
