SPECIFICATION Spec
CONSTANTS
  NoObject = NoObject
  Specs <- MCKeepOne
  FinalizerSets <- MCOurs
  Faults = {}
  Period = 1
  SlowCalls = FALSE
  MaxTime = 6
  MaxEntries = 3
  MaxBackups = 3
  MaxFaults = 0
  MaxEdits = 1
INVARIANTS OneLiveSchedule ErasedMeansNoBackups
PROPERTIES RetentionWindow SuccessfulBackupKept RotationImplemented
CHECK_DEADLOCK FALSE
