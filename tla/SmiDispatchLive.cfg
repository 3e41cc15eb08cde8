SPECIFICATION FairSpec
CONSTANTS
  Rec = {r0, r1, r2}
  SwRec = r0
  End = End
  NoSource = NoSource
  Source = {"sw", "sx", "timeout", "dmi", "century", "wadt"}
  SwSource = "sw"
  SxSource = "sx"
  Registrable = {"timeout"}
  EnBit <- MCEnBit
  StsBit = {"sw", "sx", "timeout", "dmi", "century", "wadt"}
  TopBit <- MCTopBit
  En <- MCEn
  Sts <- MCSts
  Top <- MCTop
  SciDependent <- MCSciDependent
  Contextual <- MCContextual
  CustomClear <- MCCustomClear
  CpuRaised <- MCCpuRaised
  House <- MCHouse
  CallbackOps = {"unregisterSelf"}
  AllocMayFail = FALSE
  MaxRaise = 3
PROPERTIES DispatcherReturns EventServed SmisEnd
