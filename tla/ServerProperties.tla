--------------------------- MODULE ServerProperties ---------------------------
(***************************************************************************)
(* What the controllers' machinery and the process around it promise.       *)
(***************************************************************************)
EXTENDS Server

\* Types of all variables.
BaseTypeOK ==
  /\ hist \in [Key -> Seq({"absent", "settled", "active"})]
  /\ read \in [Key -> Nat] /\ cached \in [Key -> Nat] /\ pending \subseteq Key
  /\ informer \in [Informer -> {"none", "requested", "running", "synced"}]
  /\ wq \in [Controllers -> Queue]
  /\ run \in [Controllers -> {"new", "running", "stopping", "stopped", "failed"}]
  /\ worker \in [Worker -> [pc : {"none", "until", "get", "call", "execute", "return",
                                  "done", "ended"},
                            key : Key \union {NoKey}, wants : BOOLEAN]]
  /\ left \in [Controllers -> SUBSET Key]
  /\ syncer \in [Controllers -> {"none", "on", "ended"}]
  /\ shouldRequeue \in BOOLEAN /\ cancelled \in BOOLEAN /\ faults \in Nat

ServerTypeOK ==
  /\ BaseTypeOK
  /\ phase \in Phase /\ opts \in OptionType /\ limits \in [qps : Int, burst : Int]

\* Handling: from Get to Done.
Handles(w, k) == worker[w].pc \in {"call", "execute", "return", "done"} /\ worker[w].key = k

\* Two workers of a controller never reconcile one object at the same time,
\* however often it changes and is re-added meanwhile: a reconciliation works
\* on a copy and patches without a resource version, so two would overwrite
\* each other's status (base_controller.go 145-165).
OneWorkerPerKey ==
  \A k \in Key, v, w \in Worker : Handles(v, k) /\ Handles(w, k) => v = w

\* A queue and the workers agree on what is being processed: a key that is in
\* work is not in line as well, and none is left behind as being processed, for
\* then it would never be handed out again (base_controller.go 155).
QueuesWellFormed ==
  \A c \in Controllers :
    /\ Consistent(wq[c])
    /\ wq[c].processing = {k \in Key : \E w \in Worker : w[1] = c /\ Handles(w, k)}

\* k will be reconciled again: somewhere between the API server and a worker
\* that has not read the object yet, something still stands for it.
OnItsWay(k) ==
  \/ cached[k] < Version(k) \/ k \in pending
  \/ k \in wq[Owner[k]].dirty \/ k \in wq[Owner[k]].delayed
  \/ \E w \in Worker : worker[w].pc = "call" /\ worker[w].key = k

\* No change of an object is forgotten on its way through informer, handler,
\* queue and worker, whichever of them coalesce it or fail meanwhile: as long as
\* the latest state has not been read by a reconciliation, one is on its way
\* (base_controller.go 162-188).
NoLostTrigger ==
  \A k \in Key :
    \/ informer[Owner[k]] # "synced" \/ wq[Owner[k]].down
    \/ Current(k) = "absent" \/ read[k] = Version(k)
    \/ OnItsWay(k)

\* A key's failures are remembered only while its retry is outstanding: the
\* next error of an object that was reconciled since starts at the shortest
\* delay (base_controller.go 168, 175).
BackoffForgotten ==
  \A k \in Key :
    LET q == wq[Owner[k]]
    IN  k \in q.backoff => q.down \/ k \in q.delayed \union q.dirty \union q.processing

\* shouldRequeue is one field that all reconciliations share: what Execute
\* returns is what its own reconciliation asked for and not a left-over, and what
\* it asked for is queued by the time the key is given back (dmaasbackup.go
\* 54, 87; base_controller.go 164).
RequeueHonoured ==
  \A w \in Worker :
    /\ worker[w].pc = "execute" => (worker[w].wants <=> shouldRequeue)
    /\ worker[w].pc = "done" /\ worker[w].wants =>
         wq[w[1]].down \/ worker[w].key \in wq[w[1]].dirty

\* No reconciliation runs before every cache is filled, Velero's included: the
\* clean-up takes an empty list of backups for "all deleted" and makes the
\* schedule Erased (server.go 283-299).
NoWorkBeforeSync ==
  (\E w \in Worker, k \in Key : Handles(w, k)) =>
    \A i \in Informer : informer[i] = "synced"

\* The informers look at one namespace: to client-go the empty one is all of
\* them, and the operator would work on every tenant's objects (server.go
\* 139-155, 219-220).
WatchesOneNamespace ==
  (\E i \in Informer : informer[i] # "none") => opts.namespace # "" /\ opts.velero # ""

-----------------------------------------------------------------------------
WorkerFairness(w) ==
  /\ WF_allVars((UntilRound(w) \/ Take(w) \/ GetShutDown(w)) /\ UNCHANGED serverVars)
  /\ WF_allVars(Read(w) /\ UNCHANGED serverVars)
  /\ WF_allVars((Return(w) \/ GiveBack(w)) /\ UNCHANGED serverVars)

\* The goroutines run, the watches deliver, the delays end, and a read that is
\* tried again and again gets an answer.
LiveSpec ==
  /\ ServerSpec
  /\ WF_allVars(StartUp) /\ WF_allVars(ServerStops)
  /\ \A i \in Informer : WF_allVars(ListInitial(i) /\ UNCHANGED serverVars)
  /\ \A k \in Key :
       /\ WF_allVars((Watch(k) \/ Relist(k)) /\ UNCHANGED serverVars)
       /\ WF_allVars(Enqueue(k) /\ UNCHANGED serverVars)
       /\ WF_allVars(BackoffOver(k) /\ UNCHANGED serverVars)
  /\ \A c \in Controllers :
       /\ WF_allVars(StartController(c))
       /\ WF_allVars((SyncEnqueue(c) \/ SyncEnds(c)) /\ UNCHANGED serverVars)
       /\ WF_allVars((CloseQueue(c) \/ RunReturns(c)) /\ UNCHANGED serverVars)
  /\ \A w \in Worker : WorkerFairness(w)

\* Each state of an object that lasts is read by a reconciliation, across
\* failed reads and crashes, unless the process was told to stop or refused
\* its options (base_controller.go 134-188).
EveryChangeRead ==
  \A k \in Key :
    []<>(read[k] = Version(k) \/ Current(k) = "absent" \/ cancelled \/ phase = "exited")

\* Once the context is cancelled the process ends, whatever it was doing:
\* every worker and the sync goroutine get to their end and every Run
\* returns (base_controller.go 103-112, server.go 318-323).
ShutdownEnds == cancelled ~> (phase \in {"exited", "start"})
=============================================================================
