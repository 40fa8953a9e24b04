SPECIFICATION Spec
CONSTANTS
  NoObject = NoObject
  Specs <- MCNoFullBackup
  FinalizerSets <- MCOurs
  Faults = {"crash", "createFails", "createLost", "patchFails", "requestFails"}
  Period = 1
  SlowCalls = TRUE
  MaxTime = 3
  MaxEntries = 3
  MaxBackups = 3
  MaxFaults = 1
  MaxEdits = 2
INVARIANTS SingleSchedule CompletedMeansBackedUp
PROPERTIES FinishedBackupsKept SuccessfulBackupKept
CHECK_DEADLOCK FALSE
