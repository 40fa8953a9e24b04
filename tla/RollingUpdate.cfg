SPECIFICATION Spec
CONSTANTS
  NoObject = NoObject
  Specs <- MCKeepOne
  FinalizerSets <- MCOurs
  Faults = {}
  Period = 1
  SlowCalls = FALSE
  MaxTime = 4
  MaxEntries = 3
  MaxBackups = 0
  MaxFaults = 0
  MaxEdits = 1
INVARIANTS NothingUntrackedAfterwards
CHECK_DEADLOCK FALSE
