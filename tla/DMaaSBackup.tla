----------------------------- MODULE DMaaSBackup -----------------------------
(***************************************************************************)
(* One DMaaSBackup object, the controller that reconciles it               *)
(* (pkg/controller/dmaas_backup_controller.go, pkg/dmaasbackup/), the user  *)
(* who writes it, and the Velero API objects the controller makes for it.   *)
(*                                                                         *)
(* A reconciliation reads the object, works on a copy, calls Velero, and    *)
(* writes the copy back with one merge patch.  Nothing it has done is on    *)
(* record before that patch, each of its calls may fail or be answered too  *)
(* late, and the process may die between any two of them.  So each call is  *)
(* an action, and op holds what the process has in memory between them.     *)
(***************************************************************************)
EXTENDS Retention

CONSTANTS
  NoObject,       \* obj when there is none
  Specs,          \* the specs a user may write: a subset of SpecType
  FinalizerSets,  \* the finalizers a user may give a new object
  Faults,         \* the kinds of fault that may happen: a subset of FaultKind
  Period,         \* the full backup period, in ticks of the clock
  SlowCalls,      \* a reconciliation may last longer than a tick
  MaxTime, MaxEntries, MaxBackups, MaxFaults, MaxEdits  \* bounds, see README

Finalizer == {"dmaas", "other"}
FaultKind == {"crash", "createFails", "createLost", "deleteFails", "deleteLost",
              "patchFails", "requestFails"}

\* cron is spec.periodicFullBackupCfg.cronTime ("none" when empty), schedule
\* whether spec.veleroScheduleSpec.schedule is set.
SpecType == [cron : {"none", "valid", "invalid"}, schedule : BOOLEAN, keep : Nat,
             check : BOOLEAN, state : {"Active", "Paused"}]

\* phase and below are the status; reason says whether status.reason is set.
\* backupName is status.veleroBackupName: nil, the backup's name, or "".
Object == [spec : SpecType, deleting : BOOLEAN, finalizers : SUBSET Finalizer,
           phase : {"", "InProgress", "Completed", "Paused"}, reason : BOOLEAN,
           schedules : Seq(Entry), backupName : {"nil", "named", "empty"}]

ASSUME ConstantsAssumption ==
  /\ NoObject \notin Object
  /\ Specs \subseteq SpecType
  /\ FinalizerSets \subseteq SUBSET Finalizer
  /\ Faults \subseteq FaultKind
  /\ Period \in Nat \ {0} /\ SlowCalls \in BOOLEAN
  /\ {MaxTime, MaxEntries, MaxBackups, MaxFaults, MaxEdits} \subseteq Nat

VARIABLES
  obj,       \* the stored DMaaSBackup, or NoObject
  queued,    \* its key waits in the controller's work queue
  op,        \* the reconciliation in progress, in the operator's memory
  velero,    \* names of the live Velero Schedules that carry its label
  oneShot,   \* the Velero Backup with the object's own name exists
  backups,   \* the Backups Velero made for the schedules
  taken,     \* how many of those there have been: the newest one's id
  requests,  \* ids of backups with a DeleteBackupRequest
  cache,     \* the operator's informer copy of backups
  now,       \* the clock
  faults,    \* how many faults there have been
  edits      \* how many creations and edits by the user

server == <<velero, oneShot, backups, taken, requests>>
vars == <<obj, queued, op, server, cache, now, faults, edits>>

IdleOp == [pc |-> "idle", orig |-> NoObject, dbkp |-> NoObject, requeue |-> FALSE]

NewObject(sp, f) ==
  [spec |-> sp, deleting |-> FALSE, finalizers |-> f, phase |-> "", reason |-> FALSE,
   schedules |-> <<>>, backupName |-> "nil"]

\* A first full backup is due when the model starts, as it is in a real year.
Init ==
  /\ obj = NoObject /\ queued = FALSE /\ op = IdleOp
  /\ velero = {} /\ oneShot = FALSE /\ backups = {} /\ taken = 0 /\ requests = {}
  /\ cache = {} /\ now = Period + 1 /\ faults = 0 /\ edits = 0

Fault(kind) == kind \in Faults /\ faults < MaxFaults /\ faults' = faults + 1

Stored == obj # NoObject

-----------------------------------------------------------------------------
(* The user and other controllers.  Every change of the object is an       *)
(* informer event, and the event handlers enqueue its key.                 *)

UserCreate ==
  /\ ~Stored /\ edits < MaxEdits
  /\ \E sp \in Specs, f \in FinalizerSets : obj' = NewObject(sp, f)
  /\ queued' = TRUE /\ edits' = edits + 1
  /\ UNCHANGED <<op, server, cache, now, faults>>

UserEdit ==
  /\ Stored /\ edits < MaxEdits
  /\ \E sp \in Specs \ {obj.spec} : obj' = [obj EXCEPT !.spec = sp]
  /\ queued' = TRUE /\ edits' = edits + 1
  /\ UNCHANGED <<op, server, cache, now, faults>>

\* The API server keeps a deleted object until it has no finalizer left.
Settle(o) == IF o.deleting /\ o.finalizers = {} THEN NoObject ELSE o

UserDelete ==
  /\ Stored /\ ~obj.deleting
  /\ obj' = Settle([obj EXCEPT !.deleting = TRUE])
  /\ queued' = TRUE
  /\ UNCHANGED <<op, server, cache, now, faults, edits>>

OtherFinalizerRemoved ==
  /\ Stored /\ obj.deleting /\ "other" \in obj.finalizers
  /\ obj' = Settle([obj EXCEPT !.finalizers = @ \ {"other"}])
  /\ queued' = TRUE
  /\ UNCHANGED <<op, server, cache, now, faults, edits>>

-----------------------------------------------------------------------------
(* A reconciliation, up to its first call to Velero.                       *)

\* Seeded fault: an object in progress is left alone.
ShouldProcessNotBusy(o) == o.deleting \/ o.phase = ""

\* shouldProcessDMaaSBackup
ShouldProcess(o) ==
  \/ o.deleting
  \/ o.spec.state = "Active" /\ o.phase # "Completed"
  \/ o.spec.state = "Paused" /\ o.phase # "Paused"

\* syncAll, every 30 seconds.
Sync ==
  /\ Stored /\ ShouldProcess(obj) /\ ~queued
  /\ queued' = TRUE
  /\ UNCHANGED <<obj, op, server, cache, now, faults, edits>>

\* The key is taken off the queue and there is nothing to do for it.
Skip ==
  /\ op.pc = "idle" /\ queued
  /\ Stored => ~ShouldProcess(obj)
  /\ queued' = FALSE
  /\ UNCHANGED <<obj, op, server, cache, now, faults, edits>>

Periodic(o) == o.spec.cron # "none"

\* initializeDMaaSBackup, on the copy.
Started(o) == [o EXCEPT !.phase = "InProgress", !.reason = FALSE]

\* cron.Schedule.Next, for a schedule that fires every Period.
NextSync(t) == ((t \div Period) + 1) * Period

\* getNextDue, from the entry getLatestVeleroSchedule returns.
Due(o) == now > NextSync(IF o.schedules = <<>> THEN 0 ELSE o.schedules[1].created)

Begin(pc, o, requeue) ==
  /\ op.pc = "idle" /\ queued
  /\ queued' = FALSE
  /\ op' = [pc |-> pc, orig |-> obj, dbkp |-> o, requeue |-> requeue]
  /\ UNCHANGED <<obj, server, cache, now, faults, edits>>

Executes == Stored /\ ~obj.deleting /\ ShouldProcess(obj)

\* A name reserved by an earlier reconciliation waits to be created.
ReconcileQueued ==
  /\ Executes /\ HasQueued(obj.schedules)
  /\ Periodic(obj) \/ obj.spec.schedule
  /\ Begin("create", Started(obj), FALSE)

ReconcileInvalidCron ==
  /\ Executes /\ obj.spec.cron = "invalid" /\ ~HasQueued(obj.schedules)
  /\ Begin("patch", [Started(obj) EXCEPT !.reason = TRUE], FALSE)

ReconcileNotDue ==
  /\ Executes /\ obj.spec.cron = "valid" /\ ~HasQueued(obj.schedules) /\ ~Due(obj)
  /\ Begin("cleanup", Started(obj), FALSE)

\* Seeded fault: create the schedule without storing its name first.
ReserveAndCreate ==
  /\ Executes /\ Len(obj.schedules) < MaxEntries
  /\ \/ obj.spec.cron = "valid" /\ ~HasQueued(obj.schedules) /\ Due(obj)
     \/ ~Periodic(obj) /\ obj.spec.schedule /\ obj.schedules = <<>>
  /\ Begin("create", [Started(obj) EXCEPT !.schedules = AddEmpty(@, now)], FALSE)

\* Reserve the name for a new schedule; MaxEntries bounds the list.
ReconcileReserve ==
  /\ Executes /\ Len(obj.schedules) < MaxEntries
  /\ \/ obj.spec.cron = "valid" /\ ~HasQueued(obj.schedules) /\ Due(obj)
     \/ ~Periodic(obj) /\ obj.spec.schedule /\ obj.schedules = <<>>
  /\ Begin("cleanup", [Started(obj) EXCEPT !.schedules = AddEmpty(@, now)], TRUE)

ReconcileOnce ==
  /\ Executes /\ ~Periodic(obj) /\ ~obj.spec.schedule /\ obj.backupName = "nil"
  /\ Begin("createBackup", Started(obj), FALSE)

\* Not periodic, and the schedule or the one backup has been made.
ReconcileMade ==
  /\ Executes /\ ~Periodic(obj)
  /\ IF obj.spec.schedule THEN obj.schedules # <<>> /\ ~HasQueued(obj.schedules)
                          ELSE obj.backupName # "nil"
  /\ Begin("cleanup", Started(obj), FALSE)

\* Seeded fault: never get to the clean-up.
ReconcileDeletingNothing == Stored /\ obj.deleting /\ Begin("patch", Started(obj), FALSE)

ReconcileDeleting ==
  /\ Stored /\ obj.deleting
  /\ Begin(IF "dmaas" \in obj.finalizers THEN "finalize" ELSE "patch", Started(obj), FALSE)

Reconcile ==
  \/ ReconcileQueued \/ ReconcileInvalidCron \/ ReconcileNotDue \/ ReconcileReserve
  \/ ReconcileOnce \/ ReconcileMade \/ ReconcileDeleting

-----------------------------------------------------------------------------
(* The calls of a reconciliation.                                          *)

\* Go on at pc with the copy o.
Continue(pc, o) == op' = [op EXCEPT !.pc = pc, !.dbkp = o]

\* Give up with an error: it goes into status.reason and is patched.
GiveUp == Continue("patch", [op.dbkp EXCEPT !.reason = TRUE])

QueuedName == Last(op.dbkp.schedules).name

\* Record the schedule whose Create call returned timestamp t; a periodic
\* backup then deletes the schedule before it.
Created(t) ==
  LET s == UpdateEmpty(op.dbkp.schedules, t)
  IN  Continue(IF Periodic(op.dbkp) /\ HasPrevious(s) THEN "deleteOld" ELSE "cleanup",
               [op.dbkp EXCEPT !.schedules = s])

\* Seeded fault: the time is taken from an object the client did not fill in.
CreateScheduleUndated ==
  /\ op.pc = "create" /\ QueuedName \notin velero
  /\ velero' = velero \union {QueuedName}
  /\ Created(0)
  /\ UNCHANGED <<obj, queued, oneShot, backups, taken, requests, cache, now, faults, edits>>

CreateSchedule ==
  /\ op.pc = "create" /\ QueuedName \notin velero
  /\ velero' = velero \union {QueuedName}
  /\ Created(now)
  /\ UNCHANGED <<obj, queued, oneShot, backups, taken, requests, cache, now, faults, edits>>

\* AlreadyExists is no error.  The client then returns a zero Schedule, so
\* the timestamp that is recorded is the zero time.
CreateScheduleExists ==
  /\ op.pc = "create" /\ QueuedName \in velero
  /\ Created(0)
  /\ UNCHANGED <<obj, queued, server, cache, now, faults, edits>>

\* Seeded fault: every error is taken for AlreadyExists.
CreateScheduleFailsIgnored ==
  /\ op.pc = "create"
  /\ \/ Fault("createFails") /\ velero' = velero
     \/ Fault("createLost") /\ velero' = velero \union {QueuedName}
  /\ Created(now)
  /\ UNCHANGED <<obj, queued, oneShot, backups, taken, requests, cache, now, edits>>

\* Another error: "createLost" when the server did create the schedule.
CreateScheduleFails ==
  /\ op.pc = "create"
  /\ \/ Fault("createFails") /\ velero' = velero
     \/ Fault("createLost") /\ velero' = velero \union {QueuedName}
  /\ GiveUp
  /\ UNCHANGED <<obj, queued, oneShot, backups, taken, requests, cache, now, edits>>

OldName == Previous(op.dbkp.schedules).name

\* NotFound is no error either.
DeleteOld ==
  /\ op.pc = "deleteOld"
  /\ velero' = velero \ {OldName}
  /\ Continue("cleanup", [op.dbkp EXCEPT !.schedules = MarkPreviousDeleted(@)])
  /\ UNCHANGED <<obj, queued, oneShot, backups, taken, requests, cache, now, faults, edits>>

\* Seeded fault: the entry is marked before the call, and the error ignored.
DeleteOldFailsMarks ==
  /\ op.pc = "deleteOld"
  /\ \/ Fault("deleteFails") /\ velero' = velero
     \/ Fault("deleteLost") /\ velero' = velero \ {OldName}
  /\ Continue("cleanup", [op.dbkp EXCEPT !.schedules = MarkPreviousDeleted(@)])
  /\ UNCHANGED <<obj, queued, oneShot, backups, taken, requests, cache, now, edits>>

DeleteOldFails ==
  /\ op.pc = "deleteOld"
  /\ \/ Fault("deleteFails") /\ velero' = velero
     \/ Fault("deleteLost") /\ velero' = velero \ {OldName}
  /\ GiveUp
  /\ UNCHANGED <<obj, queued, oneShot, backups, taken, requests, cache, now, edits>>

\* The name recorded is the one in the object the client returned, and that
\* is a zero Backup after AlreadyExists.
CreateBackup ==
  /\ op.pc = "createBackup"
  /\ oneShot' = TRUE
  /\ Continue("cleanup", [op.dbkp EXCEPT !.phase = "Completed",
                            !.backupName = IF oneShot THEN "empty" ELSE "named"])
  /\ UNCHANGED <<obj, queued, velero, backups, taken, requests, cache, now, faults, edits>>

\* Seeded fault: every error is taken for AlreadyExists.
CreateBackupFailsIgnored ==
  /\ op.pc = "createBackup"
  /\ \/ Fault("createFails") /\ oneShot' = oneShot
     \/ Fault("createLost") /\ oneShot' = TRUE
  /\ Continue("cleanup", [op.dbkp EXCEPT !.phase = "Completed", !.backupName = "named"])
  /\ UNCHANGED <<obj, queued, velero, backups, taken, requests, cache, now, edits>>

CreateBackupFails ==
  /\ op.pc = "createBackup"
  /\ \/ Fault("createFails") /\ oneShot' = oneShot
     \/ Fault("createLost") /\ oneShot' = TRUE
  /\ GiveUp
  /\ UNCHANGED <<obj, queued, velero, backups, taken, requests, cache, now, edits>>

\* cleanupOldSchedule does nothing when the threshold is 0.
ToRequest(o) ==
  {b.id : b \in
     IF o.spec.keep = 0 THEN {}
     ELSE IF Periodic(o)
          THEN ExpiredBackups(o.schedules, o.spec.keep, o.spec.check, cache)
          ELSE SurplusBackups(o.schedules, o.spec.keep, o.spec.check, cache)}

\* Seeded fault: the statuses are not written back.
CleanedUpForgets(o) == o

CleanedUp(o) ==
  IF o.spec.keep # 0 /\ Periodic(o)
  THEN [o EXCEPT !.schedules = Erase(@, o.spec.keep, o.spec.check, cache)]
  ELSE o

Cleanup ==
  /\ op.pc = "cleanup"
  /\ requests' = requests \union ToRequest(op.dbkp)
  /\ Continue("patch", CleanedUp(op.dbkp))
  /\ UNCHANGED <<obj, queued, velero, oneShot, backups, taken, cache, now, faults, edits>>

\* A delete request that cannot be made is only logged.
CleanupSomeFail ==
  /\ op.pc = "cleanup" /\ ToRequest(op.dbkp) # {} /\ Fault("requestFails")
  /\ \E R \in SUBSET ToRequest(op.dbkp) :
        R # ToRequest(op.dbkp) /\ requests' = requests \union R
  /\ Continue("patch", CleanedUp(op.dbkp))
  /\ UNCHANGED <<obj, queued, velero, oneShot, backups, taken, cache, now, edits>>

\* DMaaSBackupper.Delete: list the schedules with the label, delete each.
Finalize ==
  /\ op.pc = "finalize"
  /\ velero' = {}
  /\ Continue("patch", [op.dbkp EXCEPT !.finalizers = @ \ {"dmaas"}])
  /\ UNCHANGED <<obj, queued, oneShot, backups, taken, requests, cache, now, faults, edits>>

\* The List call fails, or some of the Delete calls do (after the server
\* deleted the schedule, possibly); the finalizer stays.
FinalizeFails ==
  /\ op.pc = "finalize"
  /\ Fault("deleteFails")
  /\ velero' \in SUBSET velero
  /\ GiveUp
  /\ UNCHANGED <<obj, queued, oneShot, backups, taken, requests, cache, now, edits>>

-----------------------------------------------------------------------------
(* patchBackup: the fields in which the copy differs from what was read go  *)
(* into a merge patch addressed by name alone.                             *)

Merged(cur, was, is) == IF is = was THEN cur ELSE is

Patched(o) ==
  [o EXCEPT
     !.finalizers = Merged(@, op.orig.finalizers, op.dbkp.finalizers),
     !.phase      = Merged(@, op.orig.phase, op.dbkp.phase),
     !.reason     = Merged(@, op.orig.reason, op.dbkp.reason),
     !.schedules  = Merged(@, op.orig.schedules, op.dbkp.schedules),
     !.backupName = Merged(@, op.orig.backupName, op.dbkp.backupName)]

\* The API server lets no finalizer be added to an object being deleted.
Accepted == Stored /\ (obj.deleting => Patched(obj).finalizers \subseteq obj.finalizers)

\* Seeded fault: the end of a reconciliation settles its key, whatever has
\* enqueued it meanwhile.
PatchSettles ==
  /\ op.pc = "patch" /\ Accepted
  /\ obj' = Settle(Patched(obj))
  /\ queued' = (op.requeue \/ obj' # obj)
  /\ op' = IdleOp
  /\ UNCHANGED <<server, cache, now, faults, edits>>

Patch ==
  /\ op.pc = "patch" /\ Accepted
  /\ obj' = Settle(Patched(obj))
  /\ queued' = (queued \/ op.requeue \/ obj' # obj)
  /\ op' = IdleOp
  /\ UNCHANGED <<server, cache, now, faults, edits>>

\* A failed patch is logged and forgotten.
DropPatch ==
  /\ queued' = (queued \/ op.requeue)
  /\ op' = IdleOp
  /\ UNCHANGED <<obj, server, cache, now, edits>>

PatchRejected == op.pc = "patch" /\ ~Accepted /\ UNCHANGED faults /\ DropPatch
PatchFails == op.pc = "patch" /\ Accepted /\ Fault("patchFails") /\ DropPatch

\* The process dies and is started again: its informers list everything anew
\* and the Add handler enqueues every object.
Crash ==
  /\ op.pc # "idle" /\ Fault("crash")
  /\ op' = IdleOp /\ queued' = Stored /\ cache' = backups
  /\ UNCHANGED <<obj, server, now, edits>>

-----------------------------------------------------------------------------
(* Velero, the informer and the clock, as the code relies on them.         *)

RunSchedule ==
  /\ taken < MaxBackups /\ taken' = taken + 1
  /\ \E n \in velero :
       backups' = backups \union {[id |-> taken + 1, sched |-> n, phase |-> "InProgress"]}
  /\ UNCHANGED <<obj, queued, op, velero, oneShot, requests, cache, now, faults, edits>>

SetPhase(b, ph) == backups' = (backups \ {b}) \union {[b EXCEPT !.phase = ph]}

FinishBackup ==
  /\ \E b \in backups, ph \in {"Completed", "Failed"} :
       b.phase = "InProgress" /\ SetPhase(b, ph)
  /\ UNCHANGED <<obj, queued, op, velero, oneShot, taken, requests, cache, now, faults, edits>>

\* A finished backup with a delete request is deleted, in two steps.
StartDeletion ==
  /\ \E b \in backups : b.id \in requests /\ Finished(b) /\ SetPhase(b, "Deleting")
  /\ UNCHANGED <<obj, queued, op, velero, oneShot, taken, requests, cache, now, faults, edits>>

EndDeletion ==
  /\ \E b \in backups :
       /\ b.phase = "Deleting"
       /\ backups' = backups \ {b}
       /\ requests' = requests \ {b.id}
  /\ UNCHANGED <<obj, queued, op, velero, oneShot, taken, cache, now, faults, edits>>

\* A request for a backup in progress, or gone, fails for good.
RejectRequest ==
  /\ \E i \in requests :
       /\ \A b \in backups : b.id = i => b.phase = "InProgress"
       /\ requests' = requests \ {i}
  /\ UNCHANGED <<obj, queued, op, velero, oneShot, backups, taken, cache, now, faults, edits>>

SyncCache ==
  /\ cache # backups
  /\ cache' = backups
  /\ UNCHANGED <<obj, queued, op, server, now, faults, edits>>

\* The informer lags by less than a tick.
Tick ==
  /\ now < MaxTime /\ cache = backups
  /\ SlowCalls \/ op.pc = "idle"
  /\ now' = now + 1
  /\ UNCHANGED <<obj, queued, op, server, cache, faults, edits>>

-----------------------------------------------------------------------------
User == UserCreate \/ UserEdit \/ UserDelete \/ OtherFinalizerRemoved

Call ==
  \/ CreateSchedule \/ CreateScheduleExists \/ CreateScheduleFails
  \/ DeleteOld \/ DeleteOldFails \/ CreateBackup \/ CreateBackupFails
  \/ Cleanup \/ CleanupSomeFail \/ Finalize \/ FinalizeFails
  \/ Patch \/ PatchRejected \/ PatchFails

Velero == RunSchedule \/ FinishBackup \/ StartDeletion \/ EndDeletion \/ RejectRequest

Next == User \/ Sync \/ Skip \/ Reconcile \/ Call \/ Crash \/ Velero \/ SyncCache \/ Tick

Spec == Init /\ [][Next]_vars
=============================================================================
