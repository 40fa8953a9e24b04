SPECIFICATION LiveSpec
CONSTANTS
  backup = backup
  NoKey = NoKey
  Key <- MCKey
  Controllers <- MCControllers
  Owner <- MCOwner
  NumWorker <- MCNumWorker
  MaxVersion <- MCMaxVersion
  MaxFaults = 1
  Options <- MCOptions
PROPERTIES EveryChangeRead ShutdownEnds
INVARIANTS
  ServerTypeOK OneWorkerPerKey QueuesWellFormed NoLostTrigger BackoffForgotten
  RequeueHonoured NoWorkBeforeSync WatchesOneNamespace
CHECK_DEADLOCK FALSE
