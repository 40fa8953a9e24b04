# A TLA+ model of dmaas-operator

dmaas-operator is a Kubernetes operator that backs volumes up through Velero. A
user writes a `DMaaSBackup` object; the operator makes Velero `Schedule`s (or one
`Backup`) for it, replaces the schedule by a new one each *full backup period*,
because a new schedule starts with a full backup, and asks Velero to delete the
backups that the retention threshold no longer covers. All that it remembers is in
the object's status, above all the list `status.veleroSchedules`.

This directory holds TLA+ modules translated from the Go code, the TLC
configurations that check them, and TLAPS proofs. `PROJECT.json` maps every
definition to the lines it models.

## The system

| Component | State | Operations | Interacts with |
|---|---|---|---|
| Schedule list (`pkg/dmaasbackup/veleroschedules.go`) | the sequence `status.veleroSchedules` | reserve a name, find the reserved one, record its creation, find the previous one, count the deleted ones; each re-sorts the list | called by the reconciliation |
| Retention (`periodic_backup.go`, `nonperiodic_backup.go`, `schedule.go`) | none of its own; reads the informer's cache of backups | choose the schedules to erase and the backups to request the deletion of | Velero `DeleteBackupRequest`s |
| Reconciliation (`pkg/controller/dmaas_backup_controller.go`, `pkg/dmaasbackup/`) | an in-memory copy of the object between reading it and patching it; `shouldRequeue` | `processBackup`, `Execute`, `Delete`, `patchBackup`, `syncAll`, informer handlers | live reads and a merge patch of the object; create, delete and list of Velero objects |
| Base controller (`base_controller.go`) | work queue, worker and sync goroutines | enqueue, take, forget, retry, shut down | called by informers' handlers; calls `reconcile` and `sync` |
| Copies (`zz_generated.deepcopy.go`) | none | `DeepCopy` of every API type | the reconciliation, before it changes anything |
| Object type (`pkg/apis/.../backup_schedule.go`) | spec, status, finalizers | written by users and by the patch | everything |
| Velero (external) | `Schedule`, `Backup`, `DeleteBackupRequest` | makes backups, finishes them, carries out requests | observed through an informer |
| Pausing (`pause.go`) | | `pauseSchedule`, which nothing calls | |
| PreBackupAction, DMaaSRestore controllers | none | `reconcile` only logs | base controller |
| Server (`pkg/cmd`) | options, clients, informer factories, context | check options, make clients and controllers, start informers, wait for the caches, run the controllers, stop | everything |
| Generated clients, informers, listers | the informers' caches | API calls; list and watch | Kubernetes API |
| Test builder, fake clients, embedded CRDs | none | | |

What is hard here: the object is read at the start of a reconciliation and written at
its end, with up to several remote calls between; nothing those calls did is recorded
before that one patch, which may fail, be rejected or never be sent; a call may be
carried out although its answer is an error; `AlreadyExists` and `NotFound` count as
success; errors are logged rather than retried by the queue; the clean-up trusts a
cache; the user, other finalizers' owners and Velero act at any moment; the process
may die between any two steps. Below that, changes reach a worker through an informer
that coalesces them or loses its watch, a queue that keeps a key once, and retries after
delays, while the process is being stopped or a second one is started. `PROJECT.json` lists each hazard at its line with the
properties that would catch it.

What makes each part correct:

- *Schedule list*: the sort leaves what Go's sort leaves, undated entries included; no
  operation loses a name (`SortsAsGo`; the lemmas of `ScheduleListProofs`).
- *Retention*: nothing within the threshold is requested, a successful backup
  survives, the slice is inside the list, `Erased` is true, and what expired is erased
  in the end.
- *Reconciliation*: no live schedule without a record of it, one live schedule (two only
  while handing over), the volume never uncovered, the old one deleted and not the new
  one, reserved names get created, due backups get made, deletions complete; taken
  together, a rotation as `ScheduleRotation` describes it.
- *Base controller*: no change of an object is missed, none is reconciled by two workers at
  once, queue and workers agree, failures are counted no longer than they matter,
  shutdown ends.
- *Server*: nothing is reconciled before all caches are filled, and the informers look at one
  namespace.
- *Copies*: a copy says what the original says and shares no memory with it.

## Modules

| Module | Models |
|---|---|
| `ScheduleList` | the functions of `veleroschedules.go` as operators on a sequence of entries |
| `Retention` (extends it) | `cleanupPeriodicSchedule` and `cleanupNonPeriodicSchedule` as functions of list and cache |
| `DMaaSBackup` (extends it) | the object, user, queue, operator, Velero, clock: the state machine |
| `DMaaSBackupProperties` | type invariant, invariants, action properties, liveness, `LiveSpec` |
| `ScheduleRotation` | abstract specification of a periodic backup: names, live, retired, erased schedules |
| `RollingUpdate` | two instances of `DMaaSBackup`'s operator over one object |
| `WorkQueue` | client-go's rate-limited queue, from its use |
| `BaseController` (extends it) | informers, handlers, queue, `Run`, workers, sync goroutine: for any controllers |
| `Server` (extends it) | options, clients, factories, start-up, shutdown, crash |
| `ServerProperties` | their type invariant, invariants, liveness, `LiveSpec` |
| `ObjectCopy` (extends `Retention`) | a reconciliation's copy in memory, and what changing it in place reaches |
| `APITypes` | the references in each API type, and what each `DeepCopyInto` does with them |
| `MCDMaaSBackup`, `MCServer`, `MCRollingUpdate` | constants for TLC |
| `MCScheduleList`, `MCFunctions` | inputs for the functions; insertion sort and the loop of `getBackupCleanupIdx`, against the closed forms |
| `ScheduleListProofs` | lemmas: what the list operators return and preserve, the order they keep, and where the clean-up slices, for lists of any length |
| `FunctionProofs` (extends `MCFunctions`) | the closed forms are the Go loops, and copies are isolated, for lists and histories of any length; `DeepCopy` shares nothing, for objects with any number of references |
| `DMaaSBackupProofs` | type correctness; no schedule is lost track of; the clean-up does not panic; completed means backed up, and named; one schedule without a full backup period; lists stay sorted; the queue is client-go's |
| `RotationProofs` (extends it) | names, hand-over and coverage, as long as no result is lost |
| `RefinementProofs` (extends `RotationProofs`) | `DMaaSBackup` implements `ScheduleRotation` |
| `RetentionProofs` (extends `RotationProofs`) | the retention window, the successful backup, the threshold, erased schedules |
| `RollingUpdateProofs` | what two operators at work on one object cannot break |
| `ServerProofs` | lemmas about the queue's operations; all safety invariants of `ServerProperties` |

A definition whose comment begins with *Seeded fault* is no part of the model: it is
the definition above or below it with a plausible mistake (a dropped check, an
off-by-one, a wrong order). Putting it in the place of the right one must break the
property `PROJECT.json` names under "mutants", which shows that the property can fail.

### State and actions of `DMaaSBackup`

`obj` is the stored object, `queued` says whether its key is in the work queue
(`workqueue` keeps a key once), `op` is the reconciliation in progress: `orig` as read,
`dbkp` the copy, `requeue` for `shouldRequeue`, and `pc` for the next call:

    idle -> create -> deleteOld -> cleanup -> patch -> idle     periodic, a name is reserved
    idle -> cleanup -> patch                                    reserving, not due, or made
    idle -> createBackup -> cleanup -> patch                    the single backup
    idle -> finalize -> patch                                   deletion with our finalizer

An error goes straight to `patch` (`GiveUp`): `processBackup` writes it into
`status.reason` and patches all the same. `velero`, `oneShot`, `backups`, `requests` are
the objects in the Velero API, `cache` the informer's copy of `backups`.

- `UserCreate`, `UserEdit`, `UserDelete`, `OtherFinalizerRemoved` change the object and
  enqueue it, as the informer handlers do.
- `Sync` is `syncAll`. It lists from a cache in the code; reading the stored object
  instead only adds or delays an enqueueing that `Skip` undoes.
- The `Reconcile...` actions are the branches of `processBackup` and `Execute` up to
  the first call to Velero, with the live `Get` (its failure changes nothing, and
  the rate-limited retry it causes leaves the key queued: it needs no action).
- `CreateSchedule`, `CreateScheduleExists`, `CreateScheduleFails`, `DeleteOld`, ... are
  the calls. `"createLost"` and `"deleteLost"` are calls that were carried out though
  their answer was an error. When `Create` returns `AlreadyExists` the code uses the
  object beside the error, which a generated client leaves zero: a creation time of 0.
- `Cleanup` makes all delete requests of one reconciliation at once; only Velero's own
  steps could come between them. `CleanupSomeFail` makes any part of them.
- `Patch` merges the fields that differ between `orig` and `dbkp` into whatever the object
  is now, by name, without a resource version. The API server rejects it when the
  object is gone, or when it would give a finalizer back to an object being deleted.
  A patch that succeeds though its answer is lost is `Patch`: the code only logs it.
- `Crash` drops `op`; at start the server waits for its caches, and `Add` events enqueue.

### State and actions of `BaseController` and `Server`

An object is the history of its states, `hist[k]`, each absent, settled (nothing to do) or
active. `cached[k]` is how many of them the informer has got, `read[k]` how many there were
when a reconciliation last read it. So "a change is missed" is `read[k] < Version(k)` with
nothing under way, and no content is needed. What a reconciliation does is `DMaaSBackup`.

- `ListInitial`, `Watch`, `Relist` are the reflector's list, watch event and list after a
  lost watch, which skips states and hands an object that is gone to the handler as a
  `DeletedFinalStateUnknown`; `enqueue` cannot take a key from that and logs. `Enqueue` is
  the handler's call.
- `wq[c]` is the queue: `items`, `dirty`, `processing` as in client-go, `delayed` the keys in
  `AddRateLimited`'s delay, `backoff` those with counted failures.
- A worker goes `until -> get -> call -> (execute ->) return -> done -> get`: `wait.Until`'s look at
  the context (`UntilRound`), `Get` (`Take`, `GetShutDown`), the live `Get` of the object
  (`Read`, `ReadFails`), `Execute`'s reservation, which sets the shared `shouldRequeue`
  (`Reserve`), what `processNextWorkItem` does with the result (`Return`), and its deferred `Done`
  (`GiveBack`).
- `Run`, `SyncList`, `SyncEnqueue`, `SyncEnds`, `CloseQueue`, `RunReturns` are `Run` with its sync
  goroutine and deferred function. The three constructors are records that say
  what each sets; `init` and `cacheSyncWaiters` are set by none.
- `Server`'s `phase` follows `NewCmdServer` and `startController`; every failure is `Exit`. `opts` holds
  the namespaces, limits and whether the kubeconfig loads. `ProcessDies` starts over with
  the same options and an empty memory.
- `CancelContext` can happen any time after `newServer`. In the code nothing calls `cancelFunc` yet and
  no signal is handled, so `ShutdownEnds` says that the way down works once it is used.

### `ScheduleRotation` and its refinement

The abstract rotation has four sets: `reserved` names, `live`, `retired` and `erased` schedules. In
`RotationImplemented` the live ones are `velero`; the others are the names in the
*stored* list, by status, less the live ones: an entry still called `Active` whose schedule is gone
is retired. So creating (`Start`) and deleting (`Retire`, `StopAll`) a schedule are the calls'
steps, while the patch is `Record`, or a stutter. It may record a name and
erasures in one write. `Forget` is the removal of the finalizer.

### `DMaaSBackup` and `WorkQueue`

`queued` and `op` stand for a queue with one key (`QueueOf`): dirty when `queued`, with the worker when `op` is not
idle, in line when dirty and not with the worker. `QueueImplemented` says that each step is one of the calls that informers,
sync and worker make of `WorkQueue`: so this half of the model assumes of the queue no more than the other half shows of it.

### `RollingUpdate`

`Old` and `New` are instances of the operator with their own `queued`, `op` and `cache` and the
same object, Velero and clock; of `DMaaSBackupProofs`, which extends it, so that its lemmas hold of both. `StartNew` lists everything, as a start-up does; `KillOld` comes at any
point of a reconciliation, since no signal is handled; before that either process may crash and be started again. No fault is
needed for the run's finding, and the theorems allow all of them.

### `ObjectCopy` and `APITypes`

`ObjectCopy` has a heap of arrays; slices are a place and a length, `append` uses spare
capacity, and the sort, `lastSchedule` and `removeDMaaSFinalizer` write in place. `APITypes` has, for
every struct, the fields that are or lead to references, from the types' files, and what
`DeepCopyInto` does with each, from the generated file. An object in memory is what its references that
are not nil lead to, each named by the way to it, a sequence of steps from a struct to a field. `Copied` is
the object `DeepCopy` makes: a reference leads to new memory if the copying functions along its way call each
other down to the one that makes it (`Renewed`).

### Abstractions

- One `DMaaSBackup`, one worker (`defaultControllerWorker` is 1), one operator process.
- The clock counts units in which names differ; a name is the clock value at
  which it was reserved, so two names reserved in one unit are the same, as in the code
  (`<object>-<timestamp in seconds>`). A model tick is both that unit and the cron's
  resolution.
- There is one clock. The names and what is due go by the operator's clock in the code, creation timestamps by
  the API server's: skew between the two is not modelled.
- `SlowCalls` says whether a reconciliation may outlast a tick. The informer lags behind by
  less than a tick (`Tick` waits for `cache = backups`).
- Backup ids grow with creation time. `"InProgress"` also stands for the empty phase and
  `New`, `"Failed"` for `PartiallyFailed` and `FailedValidation`. Delete requests are a
  set: the duplicates that each sync makes collapse.
- `keep` (`FullBackupRetentionThreshold`) is a natural number; negative ones are left out.
- The closed form of the sort is Go's for up to 6 entries of insertion sort; the list is
  bounded by `MaxEntries`, below that.
- The listers' `List` reads an in-memory store and does not fail, so the error
  branches after it are unreachable and left out.
- In `Server`: the length of delays and periods, and the resync (its period is 0). `Read` of an
  active object may also end at once, for a deletion; `Reserve` may or may not happen.
- In `APITypes`: fields without references, and more than one reference in types of Kubernetes and
  Velero; `Time`'s location counts as none, being immutable.
- Left out: backups that Velero deletes by their TTL, messages, snapshot details.

## Runs

| Run | Shows | Instance |
|---|---|---|
| `Functions` | `SortsAsGo`, `SurplusAsLoop`: the closed forms are the Go loops; `CopyIsolated`, `DeepCopyDetached`: changes of a copy do not reach the original | all lists the operations build with 5 entries, 2 names and 2 timestamps; all histories of 5 backups; arrays with up to 2 places to spare; objects of each kind with 4 references set to one or two things (or to an empty slice), which reaches every type from its object |
| `Rotation` | `OneLiveSchedule`, `ErasedMeansNoBackups`, `RetentionWindow`, `SuccessfulBackupKept`, and `RotationImplemented`, without faults | 3 entries and 3 backups, keep 1: enough for a schedule to expire and to be erased while another has the only success |
| `Faults` | `TypeOK`, `NoUntrackedSchedule`, `SliceInBounds`, `QueueImplemented`, and liveness: `DeletionCompletes`, under crashes, failed and lost calls and patches, edits between all modes, re-creation | two faults, two creations or edits, 4 entries, slow calls; objects with our finalizer alone or with another's |
| `NonPeriodic` | `SingleSchedule`, `CompletedMeansBackedUp`, `FinishedBackupsKept`, `SuccessfulBackupKept` | three backups and keep 2: one more than is kept |
| `Progress` | `DeletedMeansGone`, `NamesDistinct`, `NeverUncovered`, `OldScheduleRetired`, and liveness: `ReservedGetsCreated`, `DueGetsDone`, `ExpiredGetsErased` | one failed call, 4 entries, keep 1 |
| `Operator` | `ServerTypeOK`, `OneWorkerPerKey`, `QueuesWellFormed`, `NoLostTrigger`, `BackoffForgotten`, `RequeueHonoured`, `NoWorkBeforeSync`, `WatchesOneNamespace`; liveness: `EveryChangeRead`, `ShutdownEnds` | the backup controller, one object that changes twice, two workers, one failed read or crash, five kinds of options |
| `NewestDeleted`, `OldLeaked`, `PausedRuns`, `Orphaned`, `NameLost`, `RollingUpdate` | the findings below | one fault at most; none for `RollingUpdate` |

Bounds: `MaxTime`, `MaxEntries` (`ReconcileReserve` stops there), `MaxBackups`,
`MaxFaults`, `MaxEdits` (creations and edits together). The full period is one
tick and the clock starts at 2, when the first one is due: with `MaxTime` 6 `Rotation` makes three schedules, at 2, 4 and 6, so two
hand-overs, which is what a schedule takes to expire with keep 1. `MaxVersion` 2 lets an object be created and then change while its key is in work,
and `MaxFaults` 1 a retry or a restart come between. The code's `defaultControllerWorker` is 1; two
workers give `OneWorkerPerKey` something to exclude. The invariants of `Operator` are proved for any
number of objects, controllers and workers (below), so one of each is enough for TLC; so are the safety properties of `Faults` for lists of any
length. Deadlock is not checked: a model that has used up its bounds stops.

Which assumptions the properties need is part of what they say:

- `ErasedMeansNoBackups` needs reconciliations shorter than a tick and a cache that
  lags by less: an operator that is held up for a full period reads a cache in which a
  new backup is missing, and erases the entry for good.
- `NeverUncovered`, `DeletedMeansGone`, `NamesDistinct` and `OldScheduleRetired` hold when calls fail and
  take long, also when a deletion fails after it was carried out. They do not after a crash, a lost
  patch or a lost creation: see the finding `NewestDeleted` and its variant with equal names.
- `RotationImplemented` and `OneLiveSchedule` need deletions to succeed besides: the finding
  `OldLeaked` is a second live schedule. Its property `HandOverLeavesOne` follows from `OneLiveSchedule`, so no passing run repeats it.
- `RequeueHonoured` needs one worker for each controller as soon as there are two objects: the
  flag is shared. The theorem `FlagHonoured` assumes that; the run has one object instead.
- `FinishedBackupsKept` needs `keep` to stay the same: requests made under a smaller
  threshold stay when it is raised.

### Fairness

`LiveSpec` has weak fairness of what the code schedules for ever: the worker
(`Skip \/ Reconcile`, `Call`: a worker that runs gets answers), the sync goroutine (`Sync`,
every 30 s), the informer (`SyncCache`), Velero's controllers, and the clock. Users and
faults have none. No strong fairness is needed: faults are bounded by `MaxFaults`, so a
call that is retried at each sync gets through in the end.

`Server`'s `LiveSpec` has weak fairness of each goroutine: start-up, the informers (initial list, and
watch or relist), each key's handler and delay, `Run` of each controller, its sync
goroutine once it has listed, its shutdown, and each worker. A worker that has called is sure to read, since
failed reads are bounded by `MaxFaults`. Changes, `Cancel`, crashes, `SyncList` and `Reserve` have
none: `EveryChangeRead` does not rest on the 30 second sync.

## Findings

Each has a run in which TLC finds the counterexample; `PROJECT.json` quotes the lines.

1. `NewestDeleted`: after a crash, or a lost patch, between creating a schedule and
   recording it, the retry gets `AlreadyExists` and records the zero time. The new
   entry sorts behind the old one, is taken for the previous one, and is deleted; the
   old schedule stays. When both names are equal (a crash within the same second, the
   zero time making the object due at once) the only live schedule is deleted.
2. `OldLeaked`: when deleting the old schedule fails, no later hand-over deletes it.
3. `PausedRuns`: `spec.state: Paused` stops nothing, as `pauseSchedule` has no caller.
4. `Orphaned`: the operator relies on a finalizer that it never adds.
5. `NameLost`: a single backup recorded after `AlreadyExists` has an empty name.

6. `RollingUpdate`: during a rolling update the patches of two processes overwrite each other's
   list. A schedule the old process was creating when the new one's patch dropped its name
   runs on, in no list, until the object is deleted: `Delete` finds schedules by their label and so ends this one too. Until then no hand-over
   retires it and no clean-up looks at its backups, for both go by the list. Neither a leader election nor a resource version in the
   patch prevents it.

Observed besides: `SetClientQPS` lets 0 through though its message says "must be greater than 0.0";
0 then means the client's default.

## Proofs

TLAPS proves for every value of the constants that satisfies `ConstantsAssumption`
(any number of entries, backups, faults and edits, any period and threshold):

- `TypeCorrect`: `Spec => []TypeOK`. `TypeOK` is not inductive: `CreateSchedule` takes the
  last entry of the copy's list and `DeleteOld` the second. `TypeInv` adds that those
  entries are there when the `pc` says so, and that a busy operator holds objects.
- `NothingUntracked`: if every object is created with the operator's finalizer,
  `Spec => []NoUntrackedSchedule`, under all faults. The inductive invariant `TrackInv` has
  four more parts. `FinalizerHolds`: the finalizer is there unless all
  schedules are gone. `ListHeld`: while a reconciliation may call Velero, or is going to write
  the list, the object exists, has the finalizer, and its list is the one that was
  read; the copy's list has all its names. `CreatesWhatIsStored`: a name that is being
  created was read, hence stored, which is why the code reserves it one reconciliation earlier.
  `FinalizerHeld`: a copy lacks the finalizer only when the deletion is done. From these
  the merge of a stale copy in `Patch` loses neither a name nor the finalizer. The
  finding `Orphaned` shows that the assumption is needed.

- `NoSlicePanic`: `Spec => []SliceInBounds`, from `ConstantsAssumption` alone. The clean-up
  slices `VeleroSchedules[requiredSchedule+1:]` when as many entries are `Deleted` as the
  threshold says; were all of them, Go would panic. `SliceInv` says that the
  stored list and the copy's are empty, or hold one reserved name, or have an active
  entry (`Listed`), and that the list of a hand-over about to mark an entry has two active
  ones. `UpdateEmptyListed` shows the second from the first; `SortLastPlaces` shows that
  sorting gives every entry a place of its own; `ListedSlice` draws the conclusion,
  with the least-number principle for the first successful schedule.

- `CompletedBackedUp`: `Spec => []CompletedMeansBackedUp`, from `ConstantsAssumption` alone. `DoneInv` adds that a
  copy says `Completed` only once the backup is there: the patch merges `phase` by itself, possibly
  into an object that was deleted and created again.
- `NameRecorded` (no passing run checks it): `Spec /\ CreatedOnce => []CompletedMeansNamed`, if no result is lost (`NoResultLost`: no crash, no lost patch, no
  creation that is carried out and answered with an error) and no object takes the name of a deleted one. `NamedInv`
  follows the name from the call to the object: the backup exists only when the object names it or the copy in hand is
  about to, so that `Create` is never called for one that exists. Both assumptions are needed: without the first there is the finding
  `NameLost`, and without `CreatedOnce` an object that is created again finds the backup of the one before it, gets
  `AlreadyExists` too, and completes with an empty name.
- `OneScheduleOnly`: `Spec => []SingleSchedule` if no spec has a full backup period and every object is created with the
  operator's finalizer, under all faults. `SingleInv` says that all lists, stored or copied, have one
  entry at most; with `NoUntrackedSchedule` there is then one schedule at most.

`RotationProofs` assumes besides that no result is lost (`NoResultLost`; the finding `NewestDeleted` shows that this
is needed). Its invariant `RotInv` says of the stored list and of the copy's that they are `Ordered`: newest
first, each name reserved *after* the schedule below it was created, and a name that waits at
the very end; that what is `Deleted` or `Erased` is not live (`Gone`); that a name that waits is not live yet (`Unmade`, and
`Recorded` for the stored list); and that the new schedule is live when the old one is about to be deleted (`HandsOver`).
The order is what makes `getEmptyQueuedVeleroSchedule` (the last entry) and `getPreviousVeleroSchedule`
(the second one) find the right entries. It is kept because a name is reserved when the newest schedule is over
due (`NextSyncLater`), and created no earlier than it was reserved.

- `NamesStayDistinct`: `Spec => []NamesDistinct`; `DeletedStaysGone`: `Spec => []DeletedMeansGone`.
- `OldRetired`: `Spec => OldScheduleRetired`; `AlwaysCovered`: `Spec => NeverUncovered`. Both from `Retires`: a step
  that ends a live schedule is a deletion of the object, or leaves a newer schedule live.

`RefinementProofs` assumes also that every spec has a full backup period (`EveryPeriodic`) and that deletions
succeed (`DeletionsSucceed`).

- `RotatesAsSpecified`: `Spec => RotationImplemented`, that is `Rotation!Spec`. The initial states map to the
  initial state (`InitSim`), and each step to a step or a stutter (`NextSim`): `CreateSchedule` to `Start`, `DeleteOld` to
  `Retire`, `Finalize` to `StopAll`, `Patch` to `Record`, the end of the object to `Forget`. That a single late write is a `Record` needs an invariant
  on what a copy may differ in from the list that was read: `RefInv` has `MadeOf` (one more name at
  most, later than all; statuses that advanced as the schedules did; from this `RecordedNames` computes the
  abstract sets), `Shifted` for the hand-over, where the list has been re-sorted, and `LiveHeads` (only the first entry's
  schedule is live, in a hand-over the first two).
- `OneLive`: `Spec => []OneLiveSchedule`, from `LiveHeads`.
  `HandOverComplete` is a corollary: `Spec => HandOverLeavesOne`, which the finding `OldLeaked` violates with one deletion that fails.

- `QueuesAsClientGo`: `Spec => QueueImplemented`, under all faults. `QueueCalls` says what `Add`, `Get` and `Done` do to
  `QueueOf`; `NextQueue` finds the call of each step. What comes in during a reconciliation is an `Add` of a key that is with
  the worker, and `Done` puts that key in line again.

- `SortedThroughout`: `Spec => []ListsSorted`, under all faults: the stored list and the copy's are `Sorted`,
  the dated entries in front and newest first. `StoredSteps` and `CopySteps` say which list operation
  each step applies, and `ScheduleListProofs` that each of them keeps the order.

`RetentionProofs` is about what a clean-up leaves, given that it decides on a cache and that Velero carries
its requests out later, or not at all. Calls may fail, requests may be made in part, and the cache lags behind by up to a
tick (`Tick` waits for it). `BackupSteps` says what a step does to backups, cache and requests: Velero's, `Cleanup`'s, the informer's,
or nothing. `BackupInv` says that an id tells its schedule in the cache as at the server: an old cache has
backups in an old phase, or backups that are gone, but none under another schedule.

- `WindowKept`: `Spec => RetentionWindow`, if no result is lost. `Cleanup` and `CleanupSomeFail` alone make requests
  (`RequestsMade`), for backups of entries beyond `Required`, which is `keep` at least (`RequiredAtLeast`). The list is `Ordered`,
  so that position tells age, and the more than `keep` entries above such an entry have newer names, which
  none of them waits for (`ExpiredNewer`).
- `SuccessKept`: `Spec => SuccessfulBackupKept`, if no result is lost and a spec that cleans up checks for success
  (`AlwaysChecked`: an edit that turns the check off for a while may delete what a later clean-up looks for). `SuccessInv`: for each
  backup, at the server or in the cache, that was successful or has been asked to be deleted, there is one of the same
  age or newer (by schedule, then by id: `AtLeast`) that is successful and that nobody has asked to delete. This covers the stale cache: the backup
  it still shows as successful may be going, but the one a newer request relied on is there. The order of the list is needed here
  too, for it decides which schedule's success counts as newer. TLC finds the property violated with a lost patch or a
  crash, for the reason of the finding `NewestDeleted`.
- `SuccessKeptWithoutPeriod`: the same under all faults, if no spec has a full backup period (`NeverPeriodic`), where there is no order to lose.
- `FinishedKept`: `Spec => FinishedBackupsKept`, under all faults, without full backup periods and with one threshold
  (`OneThreshold`; the run `NonPeriodic` says why). `ThresholdInv`: a backup that has finished, or that somebody asked
  to delete, is kept, or `keep` newer finished ones of its schedule are.
- `ErasedForGood`: `Spec => []ErasedMeansNoBackups`, if no result is lost and a reconciliation is shorter than a tick
  (`QuickCalls`). `ErasedInv`: the backups of a `Deleted` schedule are all in the cache as soon as the tick
  in which its successor was created is over. An entry that is erased has two above it, and the
  upper one was reserved after the other, its successor, had been created: in an earlier tick, then. With `SlowCalls`
  the deletion may come ticks after that creation, and TLC finds the property violated.

`FunctionProofs` proves what the run `Functions` checks on short lists, for any length, any names and any timestamps:

- `SortedAsGo`: `Spec => []SortsAsGo`. A fold of the community modules is a choice among functions on sets of positions;
  `FoldExists` makes one by induction on the number of positions, and `FoldRounds` reads the rounds of
  the loop off it. After k rounds over a sorted list the dated entries stand as they were and the undated ones in reverse
  (`BackwardsStep`), and the last round puts the new entry where `SortLast` does (`SortIsInsertion`). Together with
  `SortedThroughout` this covers every list that the state machine sorts.
- `SurplusFoundByLoop`: `Spec => []SurplusAsLoop`. The invariant of the loop (`Located`) counts the finished backups it has passed:
  `done` is the place of the keep-th, `good` that of the first successful one; "`keep` finished and one
  successful backup are newer", as `SurplusBackups` says it, means a place beyond both (`SurplusIsLoop`).
- `CopiesApart`: `Spec => []CopyIsolated`. `DeepCopy` makes the third and fourth array of the memory (`CopiedArrays`); writes
  in place go to these (`WrittenApart`), and an append to the copy, which has no capacity to spare, to a fifth
  (`AddIsolated`), so that the first two, the original's, are as they were (`AsRead`).

- `CopiesDetached`: `FunctionsSpec => []DeepCopyDetached`, for any number of references and whatever they lead to.
  `GeneratedFromTypes` compares the two files: for each type, the generated function detaches every field that is or
  leads to a reference, and descends into every struct or element that has one within. `ObjectInv` says of the object at hand that each
  way is one through the types, a step beginning where the one before it leads; it is kept as a reference is
  set (`NilsAreReferences`). So every way is `Renewed` (`EveryWayRenewed`), whatever its length.

The induction theorems of the library take an operator and cannot be used, so `ScheduleListProofs` has `Induction`, for
a set of numbers instead of a property, from the least element of its complement; the loops above are unrolled with it. `SelectSeq` is
opaque to the provers, which is why `Others`, the finalizers that stay, is a fold.

The lemmas about the list (`SortLastNames`, `AddEmptyNames`, `UpdateEmptyNames`, `MarkNames`,
`EraseNames`) show that each operation returns a list of entries and loses no name.

`ServerProofs` proves the safety invariants of `ServerProperties` from `ControllersAssumption` and
`OptionsAssumption`, for any controllers, objects, workers, options, changes and faults:

- `ServerTypes`, `ExclusiveReconcile`, `QueuesAgree`, `CachesFirst`, `OneNamespace` follow from `BaseInv`, which
  has three parts. `TypeInv` adds to the types that the keys in a queue, with a worker or listed
  by sync are those of its controller; without it a worker's `Done` could hit the wrong queue.
  `HandleInv` says that the keys being processed are exactly those that workers hold, each by one:
  `OneWorkerPerKey` alone is not inductive, for `Take` preserves it only because a key in line is not
  being processed (`Consistent`). `PhaseInv` says what start-up has done at each `phase`:
  which informers run or are synced, that nothing runs before `serving`, and that the
  namespaces are set.
- `TriggersKept`: `NoLostTrigger`, strengthened by `cached[k] <= Version(k)`: a listing or a watch brings
  what there is, so that a key is on its way until the cache has caught up.
- `FailuresForgotten`: `BackoffForgotten`, where each step but `Return` keeps a key with counted failures in
  the queue, in a delay or in work, and `Return` forgets or re-adds it.
- `FlagHonoured`: `RequeueHonoured` under `SingleWorkers` (one worker for each controller, as
  `defaultControllerWorker` says). `FlagInv` adds that only the backup controller executes, so that one worker
  writes the flag, and that what it wants is what the flag says.

They rest on lemmas about what each operation of the queue does to line, dirty and processing keys, and that
it keeps `Consistent`.

`RollingUpdateProofs` takes the lemmas of `DMaaSBackupProofs` twice, once for each process, whose own steps then keep its own
`TypeInv`, `SliceInv` and `DoneInv`. What is left to show is that they keep the other's (`NewKeptByOld`, `OldKeptByNew`): the
copy that the other has in memory is out of date, but these invariants say of it only what time does not change (it lists an active
entry; a backup that was made stays, `BackupStays`), and the object it will be patched into satisfies the same invariants. So they
hold whatever the two write over each other:

- `NoSlicePanicWhileRolling`: `Spec => [](Old!SliceInBounds /\ New!SliceInBounds)`;
- `CompletedBackedUpWhileRolling`: `Spec => []Old!CompletedMeansBackedUp`.

No run repeats them. `NamesDistinct`, `DeletedMeansGone` and `SingleSchedule`, and tracking (the finding `RollingUpdate`), are broken by
two operators, for these do rest on a copy's list being the stored one.

Only model-checked: liveness (`ReservedGetsCreated`, `DeletionCompletes`, `DueGetsDone`, `ExpiredGetsErased`,
`EveryChangeRead`, `ShutdownEnds`), since fairness and ENABLED are out of TLAPS's reach. The invariants and action
properties of the passing runs are all theorems.

## Not modelled, and what comes next

Not modelled: the logger and the version command, the verbs of the typed clients (pure I/O: the
models hold what their callers see), test builder and fake clients, the embedded
CRDs; `pauseSchedule`, which is never called; negative thresholds.

What is left is a decision, not a model: what a completed object should do when its spec is edited to
another mode is said nowhere, so there is no property of it. Liveness stays with TLC.
