SPECIFICATION Spec
CONSTANTS
  Rec = {r0, r1, r2}
  SwRec = r0
  End = End
  NoSource = NoSource
  Source = {"sw", "sx", "mc", "button"}
  SwSource = "sw"
  SxSource = "sx"
  Registrable = {"sx", "mc", "button"}
  EnBit <- MCEnBit
  StsBit = {"sw", "sx", "mc", "button"}
  TopBit <- MCTopBit
  En <- MCEn
  Sts <- MCSts
  Top <- MCTop
  SciDependent <- MCSciDependent
  Contextual <- MCContextual
  CustomClear <- MCCustomClear
  CpuRaised <- MCCpuRaised
  House <- MCHouse
  CallbackOps = {"register", "unregisterSelf"}
  AllocMayFail = FALSE
  MaxRaise = 3
SYMMETRY Symmetry
INVARIANTS NoOrphanEnable
PROPERTIES ServedBeforeCleared CallsRegistered
