SPECIFICATION FairSpec
CONSTANTS
  NumberOfCpus = 3
  Perf <- MCPerf
  Pool <- MCPool
  ApsMayBeAbsent = FALSE
  MaxChanges = 3
INVARIANTS AllChecked
PROPERTIES OwnEntry CallbackReturns ChangeTold
