SPECIFICATION Spec
CONSTANTS
  NoObject = NoObject
  Specs <- MCPaused
  FinalizerSets <- MCOurs
  Faults = {}
  Period = 1
  SlowCalls = FALSE
  MaxTime = 6
  MaxEntries = 4
  MaxBackups = 0
  MaxFaults = 0
  MaxEdits = 1
PROPERTIES PausedCreatesNothing
CHECK_DEADLOCK FALSE
