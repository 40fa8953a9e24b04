SPECIFICATION Spec
CONSTANTS
  NoObject = NoObject
  Specs <- MCKeepOne
  FinalizerSets <- MCOurs
  Faults = {"deleteFails"}
  Period = 1
  SlowCalls = FALSE
  MaxTime = 6
  MaxEntries = 4
  MaxBackups = 0
  MaxFaults = 1
  MaxEdits = 1
PROPERTIES HandOverLeavesOne
CHECK_DEADLOCK FALSE
