SPECIFICATION Spec
CONSTANTS
  Commands <- MCAckCommands
  ReqLength <- MCAckReqLength
  AckLength <- MCShortAck
  RecLengths <- MCAckRecLengths
  Services = {"retry", "plain"}
  RetryEnabled = TRUE
  TimeoutsEnabled = TRUE
  HECI_MAX_RETRY = 2
  Depth = 3
  PtrMod = 8
  MaxCalls = 2
  MaxResets = 0
INVARIANT CorrespondingAck
CHECK_DEADLOCK FALSE

