SPECIFICATION Spec
CONSTANTS
  NumberOfAps = 2
  LoopMode <- MCLoopMode
  Overlap = FALSE
  Requests <- MCRequests
  MaxCalls = 2
INVARIANTS IdleApWaits
CHECK_DEADLOCK FALSE
