SPECIFICATION FairSpec
CONSTANTS
  Commands <- MCCommands
  ReqLength <- MCReqLength
  AckLength <- MCAckLength
  RecLengths <- MCRecLengths
  Services = {"retry", "plain"}
  RetryEnabled = TRUE
  TimeoutsEnabled = TRUE
  HECI_MAX_RETRY = 2
  Depth = 3
  PtrMod = 8
  MaxCalls = 2
  MaxResets = 1
INVARIANTS TypeOK NoOverrun CommandIntact AnswerWhole
CHECK_DEADLOCK FALSE
PROPERTIES ImplementsService
