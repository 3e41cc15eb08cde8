SPECIFICATION Spec
CONSTANTS
  Rec = {r0, r1, r2}
  SwRec = r0
  End = End
  NoSource = NoSource
  Source = {"sw", "sx", "timeout", "intruder"}
  SwSource = "sw"
  SxSource = "sx"
  Registrable = {"sx", "timeout", "intruder"}
  EnBit <- MCEnBit
  StsBit = {"sw", "sx", "timeout", "intruder"}
  TopBit <- MCTopBit
  En <- MCEn
  Sts <- MCSts
  Top <- MCTop
  SciDependent <- MCSciDependent
  Contextual <- MCContextual
  CustomClear <- MCCustomClear
  CpuRaised <- MCCpuRaised
  House <- MCHouse
  CallbackOps = {"register", "unregisterSelf", "unregisterOther"}
  AllocMayFail = TRUE
  MaxRaise = 3
SYMMETRY Symmetry
INVARIANTS EveryChildEnabled NotMute
PROPERTIES SleepNotTrapped
