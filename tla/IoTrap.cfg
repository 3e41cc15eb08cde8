SPECIFICATION FairSpec
CONSTANTS
  None = None
  Child = {c1, c2}
  NumTraps = 2
  PoolSize = 8
  PoolBases <- MCPoolBases
  Requests <- MCRequests
  Cycles <- MCCycles
  CallbackOps = {"unregister", "register"}
  MayRunOut = TRUE
INVARIANTS PoolDisjoint Covered NoStorm AcpiReportsPools
PROPERTIES RightChild Answered
CHECK_DEADLOCK FALSE
