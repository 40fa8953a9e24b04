---------------------------- MODULE BaseController ----------------------------
(***************************************************************************)
(* The controllers' common machinery (pkg/controller/base_controller.go):   *)
(* informers deliver the changes of objects to event handlers, the handlers *)
(* put keys into a work queue, workers take keys out and call reconcile,    *)
(* a sync goroutine enqueues everything that still needs work, and Run       *)
(* starts all that and stops it when its context is cancelled.              *)
(*                                                                         *)
(* What a reconciliation does to its object is module DMaaSBackup.  Here an *)
(* object is the history of its states, and what matters is which of them   *)
(* a reconciliation has read.                                              *)
(***************************************************************************)
EXTENDS WorkQueue, FiniteSets

CONSTANTS
  Controllers,  \* the controllers that run: a subset of ControllerName
  NoKey,        \* the key of an idle worker
  Owner,        \* Owner[k] is the controller whose resource k is an object of
  NumWorker,    \* NumWorker[c], the argument numWorker of c's constructor
  MaxVersion,   \* MaxVersion[k] bounds the changes of k
  MaxFaults     \* bounds the failed reads and the crashes

ControllerName == {"prebackupaction", "dmaasBackup", "dmaasRestore"}
VeleroInformer == {"backups", "podVolumeBackups"}
Informer == Controllers \union VeleroInformer

ASSUME ControllersAssumption ==
  /\ Controllers \subseteq ControllerName /\ NoKey \notin Key
  /\ Owner \in [Key -> Controllers]
  /\ NumWorker \in [Controllers -> Nat \ {0}]
  /\ MaxVersion \in [Key -> Nat] /\ MaxFaults \in Nat

\* What the constructors set up.  A period of 0 is an unset one.
NewPreBackupActionController ==
  [reconcile |-> "log", sync |-> FALSE, syncPeriod |-> 30, informers |-> {"prebackupaction"}]
NewDMaaSRestoreController ==
  [reconcile |-> "log", sync |-> FALSE, syncPeriod |-> 30, informers |-> {"dmaasRestore"}]
NewDMaaSBackupController ==
  [reconcile |-> "processBackup", sync |-> TRUE, syncPeriod |-> 30,
   informers |-> {"dmaasBackup"}]

New(c) ==
  CASE c = "prebackupaction" -> NewPreBackupActionController
    [] c = "dmaasRestore"    -> NewDMaaSRestoreController
    [] c = "dmaasBackup"     -> NewDMaaSBackupController

Worker == UNION {{c} \X (1 .. NumWorker[c]) : c \in Controllers}

VARIABLES
  hist,      \* hist[k]: the states k has had in the API server, oldest first
  read,      \* read[k]: how many of them the latest reconciliation of k knew of
  informer,  \* how far each informer is: none, requested, running, synced
  cached,    \* cached[k]: how many of k's states its informer has got
  pending,   \* the keys whose event handler is about to be called
  wq,        \* the controllers' work queues
  run,       \* the goroutine that executes Run
  worker,    \* the worker goroutines
  left,      \* what the sync goroutine has listed and not enqueued yet
  syncer,    \* the sync goroutines: none, on, ended
  shouldRequeue,  \* the field of the one dmaasBackup all workers share
  cancelled, \* the context is done
  faults

informerVars == <<informer, cached, pending>>
runVars == <<run, left, syncer, cancelled>>
vars == <<hist, read, informerVars, wq, runVars, worker, shouldRequeue, faults>>

Idle(state) == [pc |-> state, key |-> NoKey, wants |-> FALSE]

\* The process before it has done anything ...
NoInformer == [i \in Informer |-> "none"]
NothingCached == [k \in Key |-> 0]
EmptyQueues == [c \in Controllers |-> Empty]
NotRun == [c \in Controllers |-> "new"]
NoWorker == [w \in Worker |-> Idle("none")]
NothingLeft == [c \in Controllers |-> {}]
NoSyncer == [c \in Controllers |-> "none"]

Fresh ==
  /\ informer = NoInformer /\ cached = NothingCached /\ pending = {}
  /\ wq = EmptyQueues /\ run = NotRun /\ worker = NoWorker
  /\ left = NothingLeft /\ syncer = NoSyncer
  /\ shouldRequeue = FALSE /\ cancelled = FALSE

\* ... and what is left of it when it ends.
Forgets ==
  /\ informer' = NoInformer /\ cached' = NothingCached /\ pending' = {}
  /\ wq' = EmptyQueues /\ run' = NotRun /\ worker' = NoWorker
  /\ left' = NothingLeft /\ syncer' = NoSyncer
  /\ shouldRequeue' = FALSE /\ cancelled' = FALSE

Init ==
  /\ hist = [k \in Key |-> <<>>] /\ read = [k \in Key |-> 0] /\ faults = 0
  /\ Fresh

-----------------------------------------------------------------------------
(* Objects and informers.                                                  *)

\* An object is absent, settled (shouldProcessDMaaSBackup says no) or active.
StateAt(k, v) == IF v = 0 THEN "absent" ELSE hist[k][v]
Version(k) == Len(hist[k])
Current(k) == StateAt(k, Version(k))

\* Users, other controllers and the reconciliations themselves change objects.
Change(k) ==
  /\ Version(k) < MaxVersion[k]
  /\ \E s \in IF Current(k) = "absent" THEN {"active"} ELSE {"active", "settled", "absent"} :
       hist' = [hist EXCEPT ![k] = Append(@, s)]
  /\ UNCHANGED <<read, informerVars, wq, runVars, worker, shouldRequeue, faults>>

\* The informer's first list fills its cache and makes an Add event for each
\* object; after that HasSynced is true.
ListInitial(i) ==
  /\ informer[i] = "running"
  /\ informer' = [informer EXCEPT ![i] = "synced"]
  /\ cached' = [k \in Key |-> IF Owner[k] = i THEN Version(k) ELSE cached[k]]
  /\ pending' = pending \union {k \in Key : Owner[k] = i /\ Current(k) # "absent"}
  /\ UNCHANGED <<hist, read, wq, runVars, worker, shouldRequeue, faults>>

\* The watch brings the next event.
Watch(k) ==
  /\ informer[Owner[k]] = "synced" /\ cached[k] < Version(k)
  /\ cached' = [cached EXCEPT ![k] = @ + 1]
  /\ pending' = pending \union {k}
  /\ UNCHANGED <<hist, read, informer, wq, runVars, worker, shouldRequeue, faults>>

\* Seeded fault: enqueue goes on after the error, with an empty key.
RelistWithoutKey(k) ==
  /\ informer[Owner[k]] = "synced" /\ cached[k] < Version(k)
  /\ cached' = [cached EXCEPT ![k] = Version(k)]
  /\ pending' = pending \union {IF Current(k) = "absent" THEN NoKey ELSE k}
  /\ UNCHANGED <<hist, read, informer, wq, runVars, worker, shouldRequeue, faults>>

(***************************************************************************)
(* The watch was lost: the informer lists again and skips what happened     *)
(* between.  An object that is gone then comes to the handler as a          *)
(* DeletedFinalStateUnknown, for which MetaNamespaceKeyFunc, and so enqueue, *)
(* fails: its key is not enqueued.                                         *)
(***************************************************************************)
Relist(k) ==
  /\ informer[Owner[k]] = "synced" /\ cached[k] < Version(k)
  /\ cached' = [cached EXCEPT ![k] = Version(k)]
  /\ pending' = IF Current(k) = "absent" THEN pending ELSE pending \union {k}
  /\ UNCHANGED <<hist, read, informer, wq, runVars, worker, shouldRequeue, faults>>

Queues(c, q) == wq' = [wq EXCEPT ![c] = q]

\* An event handler calls enqueue.
Enqueue(k) ==
  /\ k \in pending
  /\ pending' = pending \ {k}
  /\ Queues(Owner[k], Add(wq[Owner[k]], k))
  /\ UNCHANGED <<hist, read, informer, cached, runVars, worker, shouldRequeue, faults>>

\* A key that AddRateLimited held back comes into the queue.
BackoffOver(k) ==
  /\ k \in wq[Owner[k]].delayed
  /\ Queues(Owner[k], Ready(wq[Owner[k]], k))
  /\ UNCHANGED <<hist, read, informerVars, runVars, worker, shouldRequeue, faults>>

-----------------------------------------------------------------------------
(* Run.                                                                    *)

\* Seeded fault: sync is called before the workers are started, and not in a
\* goroutine of its own.
RunSyncFirst(c) ==
  /\ run[c] = "new"
  /\ run' = [run EXCEPT ![c] = "running"]
  /\ syncer' = [syncer EXCEPT ![c] = "on"]
  /\ UNCHANGED <<hist, read, informerVars, wq, left, cancelled, worker, shouldRequeue, faults>>

\* Run refuses a controller without reconcile, or with sync and no period.
\* No controller has an init function, and none waits for caches here.
Run(c) ==
  /\ run[c] = "new"
  /\ IF New(c).reconcile = "none" \/ (New(c).sync /\ New(c).syncPeriod = 0)
     THEN run' = [run EXCEPT ![c] = "failed"] /\ UNCHANGED <<worker, syncer>>
     ELSE /\ run' = [run EXCEPT ![c] = "running"]
          /\ worker' = [w \in Worker |-> IF w[1] = c THEN Idle("until") ELSE worker[w]]
          /\ syncer' = IF New(c).sync THEN [syncer EXCEPT ![c] = "on"] ELSE syncer
  /\ UNCHANGED <<hist, read, informerVars, wq, left, cancelled, shouldRequeue, faults>>

\* syncAll lists the informer's cache ...
SyncList(c) ==
  /\ syncer[c] = "on" /\ left[c] = {} /\ ~cancelled
  /\ left' = [left EXCEPT ![c] =
                {k \in Key : Owner[k] = c /\ StateAt(k, cached[k]) = "active"}]
  /\ UNCHANGED <<hist, read, informerVars, wq, run, syncer, cancelled, worker,
                 shouldRequeue, faults>>

\* ... and enqueues what it found, one by one.
SyncEnqueue(c) ==
  /\ \E k \in left[c] :
       /\ left' = [left EXCEPT ![c] = @ \ {k}]
       /\ Queues(c, Add(wq[c], k))
  /\ UNCHANGED <<hist, read, informerVars, run, syncer, cancelled, worker,
                 shouldRequeue, faults>>

SyncEnds(c) ==
  /\ syncer[c] = "on" /\ left[c] = {} /\ cancelled
  /\ syncer' = [syncer EXCEPT ![c] = "ended"]
  /\ UNCHANGED <<hist, read, informerVars, wq, run, left, cancelled, worker,
                 shouldRequeue, faults>>

\* The holder of the context cancels it.
Cancel ==
  /\ ~cancelled
  /\ cancelled' = TRUE
  /\ UNCHANGED <<hist, read, informerVars, wq, run, left, syncer, worker,
                 shouldRequeue, faults>>

\* Seeded fault: wait for the workers without shutting the queue down.
CloseQueueNot(c) ==
  /\ run[c] = "running" /\ cancelled
  /\ run' = [run EXCEPT ![c] = "stopping"]
  /\ UNCHANGED <<hist, read, informerVars, wq, left, syncer, cancelled, worker,
                 shouldRequeue, faults>>

\* The deferred function of Run.
CloseQueue(c) ==
  /\ run[c] = "running" /\ cancelled
  /\ Queues(c, ShutDown(wq[c]))
  /\ run' = [run EXCEPT ![c] = "stopping"]
  /\ UNCHANGED <<hist, read, informerVars, left, syncer, cancelled, worker,
                 shouldRequeue, faults>>

RunReturns(c) ==
  /\ run[c] = "stopping" /\ syncer[c] # "on"
  /\ \A w \in Worker : w[1] = c => worker[w].pc = "ended"
  /\ run' = [run EXCEPT ![c] = "stopped"]
  /\ UNCHANGED <<hist, read, informerVars, wq, left, syncer, cancelled, worker,
                 shouldRequeue, faults>>

-----------------------------------------------------------------------------
(* A worker: wait.Until calls runWorker, which calls processNextWorkItem as *)
(* long as the queue is not shut down.                                     *)

Becomes(w, st) == worker' = [worker EXCEPT ![w] = st]

\* wait.Until looks at the context before each round.
UntilRound(w) ==
  /\ worker[w].pc = "until"
  /\ Becomes(w, Idle(IF cancelled THEN "ended" ELSE "get"))
  /\ UNCHANGED <<hist, read, informerVars, wq, runVars, shouldRequeue, faults>>

\* Seeded fault: Done right after Get.
TakeDone(w) ==
  /\ worker[w].pc = "get" /\ wq[w[1]].items # <<>>
  /\ Becomes(w, [pc |-> "call", key |-> Head(wq[w[1]].items), wants |-> FALSE])
  /\ Queues(w[1], Done(Get(wq[w[1]]), Head(wq[w[1]].items)))
  /\ UNCHANGED <<hist, read, informerVars, runVars, shouldRequeue, faults>>

Take(w) ==
  /\ worker[w].pc = "get" /\ wq[w[1]].items # <<>>
  /\ Becomes(w, [pc |-> "call", key |-> Head(wq[w[1]].items), wants |-> FALSE])
  /\ Queues(w[1], Get(wq[w[1]]))
  /\ UNCHANGED <<hist, read, informerVars, runVars, shouldRequeue, faults>>

GetShutDown(w) ==
  /\ worker[w].pc = "get" /\ wq[w[1]].items = <<>> /\ wq[w[1]].down
  /\ Becomes(w, Idle("until"))
  /\ UNCHANGED <<hist, read, informerVars, wq, runVars, shouldRequeue, faults>>

Executes(w) ==
  New(w[1]).reconcile = "processBackup" /\ Current(worker[w].key) = "active"

\* Seeded fault: Execute does not reset the flag.
ReadKeepsFlag(w) ==
  /\ worker[w].pc = "call"
  /\ read' = [read EXCEPT ![worker[w].key] = Version(worker[w].key)]
  /\ \/ Executes(w) /\ Becomes(w, [worker[w] EXCEPT !.pc = "execute"]) /\ UNCHANGED shouldRequeue
     \/ Becomes(w, [worker[w] EXCEPT !.pc = "return"]) /\ UNCHANGED shouldRequeue
  /\ UNCHANGED <<hist, informerVars, wq, runVars, faults>>

\* The reconciliation reads the object.  processBackup goes on to Execute,
\* which resets shouldRequeue, unless there is nothing to do or the object is
\* being deleted; the other controllers only log.
Read(w) ==
  /\ worker[w].pc = "call"
  /\ read' = [read EXCEPT ![worker[w].key] = Version(worker[w].key)]
  /\ \/ /\ Executes(w)
        /\ Becomes(w, [worker[w] EXCEPT !.pc = "execute"])
        /\ shouldRequeue' = FALSE
     \/ Becomes(w, [worker[w] EXCEPT !.pc = "return"]) /\ UNCHANGED shouldRequeue
  /\ UNCHANGED <<hist, informerVars, wq, runVars, faults>>

\* Seeded fault: the error is logged and the key forgotten.
ReadFailsForgets(w) ==
  /\ worker[w].pc = "call" /\ New(w[1]).reconcile = "processBackup"
  /\ faults < MaxFaults /\ faults' = faults + 1
  /\ Queues(w[1], Forget(wq[w[1]], worker[w].key))
  /\ Becomes(w, [worker[w] EXCEPT !.pc = "done"])
  /\ UNCHANGED <<hist, read, informerVars, runVars, shouldRequeue>>

\* The read fails: the only error reconcile returns, and the only key that is
\* re-added after a delay.
ReadFails(w) ==
  /\ worker[w].pc = "call" /\ New(w[1]).reconcile = "processBackup"
  /\ faults < MaxFaults /\ faults' = faults + 1
  /\ Queues(w[1], AddRateLimited(wq[w[1]], worker[w].key))
  /\ Becomes(w, [worker[w] EXCEPT !.pc = "done"])
  /\ UNCHANGED <<hist, read, informerVars, runVars, shouldRequeue>>

\* Execute reserves a schedule's name and asks for another reconciliation.
Reserve(w) ==
  /\ worker[w].pc = "execute" /\ ~worker[w].wants
  /\ Becomes(w, [worker[w] EXCEPT !.wants = TRUE])
  /\ shouldRequeue' = TRUE
  /\ UNCHANGED <<hist, read, informerVars, wq, runVars, faults>>

\* Seeded fault: no Forget.
ReturnRemembers(w) ==
  /\ worker[w].pc \in {"execute", "return"}
  /\ Queues(w[1], IF worker[w].pc = "execute" /\ shouldRequeue
                  THEN Add(wq[w[1]], worker[w].key) ELSE wq[w[1]])
  /\ Becomes(w, [worker[w] EXCEPT !.pc = "done"])
  /\ UNCHANGED <<hist, read, informerVars, runVars, shouldRequeue, faults>>

\* reconcile returns shouldRequeue and no error.
Return(w) ==
  /\ worker[w].pc \in {"execute", "return"}
  /\ Queues(w[1], IF worker[w].pc = "execute" /\ shouldRequeue
                  THEN Add(wq[w[1]], worker[w].key)
                  ELSE Forget(wq[w[1]], worker[w].key))
  /\ Becomes(w, [worker[w] EXCEPT !.pc = "done"])
  /\ UNCHANGED <<hist, read, informerVars, runVars, shouldRequeue, faults>>

\* Seeded fault: Done is not called.
GiveBackNot(w) ==
  /\ worker[w].pc = "done"
  /\ Becomes(w, Idle("get"))
  /\ UNCHANGED <<hist, read, informerVars, wq, runVars, shouldRequeue, faults>>

\* The deferred Done.
GiveBack(w) ==
  /\ worker[w].pc = "done"
  /\ Queues(w[1], Done(wq[w[1]], worker[w].key))
  /\ Becomes(w, Idle("get"))
  /\ UNCHANGED <<hist, read, informerVars, runVars, shouldRequeue, faults>>

-----------------------------------------------------------------------------
InformerStep ==
  \/ \E i \in Informer : ListInitial(i)
  \/ \E k \in Key : Watch(k) \/ Relist(k) \/ Enqueue(k) \/ BackoffOver(k)

RunStep(c) ==
  \/ SyncList(c) \/ SyncEnqueue(c) \/ SyncEnds(c)
  \/ CloseQueue(c) \/ RunReturns(c)

WorkerStep(w) ==
  \/ UntilRound(w) \/ Take(w) \/ GetShutDown(w) \/ Read(w) \/ ReadFails(w)
  \/ Reserve(w) \/ Return(w) \/ GiveBack(w)

=============================================================================
