SPECIFICATION FairSpec
CONSTANTS
  NumberOfAps = 2
  LoopMode <- MCLoopMode
  Overlap = FALSE
  Requests <- MCRequests
  MaxCalls = 2
INVARIANTS TypeOK SuccessMeansDone Terminated InOrder
PROPERTIES OncePerCall CallsEnd
CHECK_DEADLOCK FALSE
CONSTRAINT NotRaced
