SPECIFICATION LiveSpec
CONSTANTS
  NoObject = NoObject
  Specs <- MCKeepOneUnchecked
  FinalizerSets <- MCOurs
  Faults = {"createFails", "deleteFails", "deleteLost"}
  Period = 1
  SlowCalls = FALSE
  MaxTime = 6
  MaxEntries = 4
  MaxBackups = 1
  MaxFaults = 1
  MaxEdits = 1
INVARIANTS DeletedMeansGone NamesDistinct
PROPERTIES NeverUncovered OldScheduleRetired ReservedGetsCreated DueGetsDone ExpiredGetsErased
CHECK_DEADLOCK FALSE
