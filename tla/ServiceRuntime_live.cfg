SPECIFICATION ModesSpec
CONSTANTS
  Requests = {r1, r2}
  None = None
  MailboxSize = 1
  MaxSuspended = 1
  NoInterleave = FALSE
  Kinds = {"call"}
  Draining = TRUE
  MaxYields = 1
INVARIANTS
  SerialService
PROPERTIES
  StopCompletes
  QueuedIsServed
  CallerReturns
  MailboxImplemented
