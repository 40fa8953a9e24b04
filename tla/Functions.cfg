SPECIFICATION FunctionsSpec
CONSTANTS
  MaxLen = 5
  MaxName = 2
  MaxStamp = 2
  MaxReferences = 4
INVARIANTS SortsAsGo SurplusAsLoop CopyIsolated DeepCopyDetached
CHECK_DEADLOCK FALSE
