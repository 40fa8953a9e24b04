SPECIFICATION LiveSpec
CONSTANTS
  NoObject = NoObject
  Specs <- MCEveryMode
  FinalizerSets <- MCOursOrBoth
  Faults = {"crash", "createFails", "createLost", "deleteFails", "deleteLost", "patchFails"}
  Period = 1
  SlowCalls = TRUE
  MaxTime = 5
  MaxEntries = 4
  MaxBackups = 0
  MaxFaults = 2
  MaxEdits = 2
INVARIANTS TypeOK NoUntrackedSchedule SliceInBounds
PROPERTIES QueueImplemented DeletionCompletes
CHECK_DEADLOCK FALSE
