SPECIFICATION FairSpec
CONSTANTS
  NumberOfCpus = 2
  Rec = {r1, r2}
  End = End
  NoIo = NoIo
  OtherIo = OtherIo
  MAXIMUM_SWI_VALUE = 2
  Activator = {0}
  ChildEn = ChildEn
  CallbackOps = {"register", "unregisterOther"}
  MaxChanges = 3
INVARIANTS ValuesUnique CalledOnce NoneMissed
PROPERTIES EnablesKept Activates
