SPECIFICATION Spec
CONSTANTS
  NoObject = NoObject
  Specs <- MCKeepOne
  FinalizerSets <- MCNone
  Faults = {}
  Period = 1
  SlowCalls = FALSE
  MaxTime = 6
  MaxEntries = 4
  MaxBackups = 0
  MaxFaults = 0
  MaxEdits = 1
INVARIANTS NoUntrackedSchedule
CHECK_DEADLOCK FALSE
