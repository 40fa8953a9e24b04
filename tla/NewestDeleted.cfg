SPECIFICATION Spec
CONSTANTS
  NoObject = NoObject
  Specs <- MCKeepOne
  FinalizerSets <- MCOurs
  Faults = {"crash"}
  Period = 1
  SlowCalls = FALSE
  MaxTime = 6
  MaxEntries = 4
  MaxBackups = 0
  MaxFaults = 1
  MaxEdits = 1
PROPERTIES OldScheduleRetired
CHECK_DEADLOCK FALSE
