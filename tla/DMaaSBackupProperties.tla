------------------------ MODULE DMaaSBackupProperties ------------------------
(***************************************************************************)
(* What the backup controller has to guarantee, stated over the behaviours  *)
(* of DMaaSBackup.  README.md says under which faults each one holds.       *)
(***************************************************************************)
EXTENDS DMaaSBackup

OpType ==
  [pc : {"idle", "create", "deleteOld", "createBackup", "cleanup", "finalize", "patch"},
   orig : Object \union {NoObject}, dbkp : Object \union {NoObject}, requeue : BOOLEAN]

\* The type invariant.
TypeOK ==
  /\ obj \in Object \union {NoObject}
  /\ queued \in BOOLEAN
  /\ op \in OpType
  /\ velero \in SUBSET Nat
  /\ oneShot \in BOOLEAN
  /\ backups \in SUBSET Backup /\ cache \in SUBSET Backup
  /\ requests \in SUBSET Nat
  /\ {taken, now, faults, edits} \subseteq Nat

Live == Stored /\ ~obj.deleting

-----------------------------------------------------------------------------
(* Safety: the Velero schedules.                                           *)

\* Every live Velero schedule is named in the stored status of an object that
\* still exists: whatever fails and whenever the operator dies, no schedule
\* goes on making backups that nothing will ever delete.  The name is
\* reserved by one reconciliation and created by the next for this reason.
NoUntrackedSchedule ==
  velero \subseteq IF Stored THEN Names(obj.schedules) ELSE {}

\* Replacing a schedule never leaves the volume unprotected: the last live
\* schedule goes only when the object itself is being deleted
\* (processPeriodicConfigSchedule creates the new one first).
NeverUncovered == [][velero # {} /\ velero' = {} => op.pc = "finalize"]_vars

\* What the status calls Deleted or Erased is not running any more.
DeletedMeansGone ==
  Stored => \A k \in DOMAIN obj.schedules :
              obj.schedules[k].status \in {"Deleted", "Erased"}
                => obj.schedules[k].name \notin velero

\* The entries have names of their own: two reservations are never made in
\* the same second, for which they would ask Velero for the same schedule and
\* each take it for theirs (generateScheduleName, schedule.go 66-74).
NamesDistinct ==
  Stored => \A j, k \in DOMAIN obj.schedules :
              obj.schedules[j].name = obj.schedules[k].name => j = k

\* Outside the hand-over there is one live schedule, not two.
OneLiveSchedule == op.pc # "deleteOld" => Cardinality(velero) <= 1

\* The hand-over deletes the old schedule ("Delete the old active schedule"),
\* never the one it has just created.
OldScheduleRetired ==
  [][\A n \in velero \ velero' : op.pc = "deleteOld" => \E m \in velero' : m > n]_vars

\* A hand-over that succeeds leaves the new schedule alone: one that an
\* earlier, failed hand-over left behind is deleted with it ("so that in next
\* reconciliation we can ... delete the last active schedule").
HandOverLeavesOne ==
  [][op.pc = "deleteOld" /\ op'.pc = "cleanup" => Cardinality(velero') <= 1]_vars

\* A backup without a full backup period has one schedule, made once, however
\* often the operator dies or loses a write between reserving its name,
\* creating it and recording it.
SingleSchedule == Cardinality(velero) <= 1 /\ (Stored => Len(obj.schedules) <= 1)

NamesWith(statuses) ==
  IF Stored THEN {obj.schedules[k].name : k \in {j \in DOMAIN obj.schedules :
                                                  obj.schedules[j].status \in statuses}}
            ELSE {}

Rotation == INSTANCE ScheduleRotation WITH
  live     <- velero,
  reserved <- NamesWith({""}) \ velero,
  retired  <- NamesWith({"Active", "Deleted"}) \ velero,
  erased   <- NamesWith({"Erased"})

\* Reconciliations, each made of reads, calls and one late write, rotate the
\* schedules as ScheduleRotation says, with the schedules that Velero runs as
\* the live ones and the stored list as the record of the others.
RotationImplemented == Rotation!Spec

-----------------------------------------------------------------------------
(* Safety: the queue.                                                      *)

Key == "object"
WQ == INSTANCE WorkQueue WITH Key <- {Key}

\* client-go's work queue with one key, which is dirty or not, and with the
\* worker or not: queued and op stand for it.
QueueOf(dirty, busy) ==
  [items      |-> IF dirty /\ ~busy THEN <<Key>> ELSE <<>>,
   dirty      |-> IF dirty THEN {Key} ELSE {},
   processing |-> IF busy THEN {Key} ELSE {},
   delayed |-> {}, backoff |-> {}, down |-> FALSE]

KeyQueue == QueueOf(queued, op.pc # "idle")

Enqueued(q) == WQ!Add(q, Key)
GivenBack(q) == WQ!Done(q, Key)

\* Each step is one of the calls that informers, sync and worker make: Add; Get,
\* of a key that is in line; Done, after what reconcile has added (at once after
\* Get when there is nothing to do); or the end of the process and its restart.
QueueStep ==
  \/ KeyQueue' = Enqueued(KeyQueue)
  \/ /\ KeyQueue.items # <<>>
     /\ KeyQueue' \in {WQ!Get(KeyQueue), GivenBack(WQ!Get(KeyQueue))}
  \/ /\ Key \in KeyQueue.processing
     /\ KeyQueue' \in {GivenBack(KeyQueue), GivenBack(Enqueued(KeyQueue))}
  \/ Crash /\ KeyQueue' = IF Stored THEN Enqueued(WQ!Empty) ELSE WQ!Empty

\* However events, syncs, reconciliations and crashes interleave, the key is
\* queued as the work queue would have it: what happens to the object during a
\* reconciliation, unseen by it, leaves the key in line once that is done
\* (base_controller.go 145-188).
QueueImplemented == KeyQueue = WQ!Empty /\ [][QueueStep]_KeyQueue

-----------------------------------------------------------------------------
(* Safety: retention.                                                      *)

NewRequests == requests' \ requests

ScheduleOf(i) == (CHOOSE b \in backups : b.id = i).sched

\* "We need to retain the backups created by current active schedule and last
\* 'FullBackupRetentionThreshold' number of schedules": a request is made only
\* for a backup whose schedule has more than that many newer ones.
RetentionWindow ==
  [][\A i \in NewRequests :
       Periodic(op.dbkp) /\ (\E b \in backups : b.id = i)
         => Cardinality({k \in DOMAIN op.dbkp.schedules :
                           /\ op.dbkp.schedules[k].name > ScheduleOf(i)
                           /\ op.dbkp.schedules[k].status # ""}) > op.dbkp.spec.keep]_vars

\* With the check for a successful backup on, a clean-up leaves at least one
\* completed backup that nobody has asked to delete, though it decides on
\* what the informer's cache says.
SuccessfulBackupKept ==
  [][NewRequests # {} /\ op.dbkp.spec.check
       => \E b \in backups : b.phase = "Completed" /\ b.id \notin requests']_vars

\* Without a full backup period `keep` finished backups of the schedule stay.
FinishedBackupsKept ==
  [][\A i \in NewRequests :
       ~Periodic(op.dbkp) /\ (\E b \in backups : b.id = i)
         => Cardinality({b \in BackupsOf(backups, ScheduleOf(i)) :
                           Finished(b) /\ b.id \notin requests'}) >= op.dbkp.spec.keep]_vars

\* Erased says that the schedule has no backup left.
ErasedMeansNoBackups ==
  Stored => \A k \in DOMAIN obj.schedules :
              obj.schedules[k].status = "Erased"
                => BackupsOf(backups, obj.schedules[k].name) = {}

\* The slice VeleroSchedules[requiredSchedule+1:] is within the list: the
\* clean-up does not panic.
SliceInBounds ==
  op.pc = "cleanup" /\ Periodic(op.dbkp) /\ op.dbkp.spec.keep # 0
    => SliceExists(op.dbkp.schedules, op.dbkp.spec.keep, op.dbkp.spec.check, cache)

-----------------------------------------------------------------------------
(* Safety: pausing, and the single backup.                                 *)

\* "Paused means dmaasbackup is paused": no schedule is made for it.
PausedCreatesNothing ==
  [][op.pc = "create" /\ op.dbkp.spec.state = "Paused" => velero' \subseteq velero]_vars

\* Completed is recorded only for a backup that exists.
CompletedMeansBackedUp == Stored /\ obj.phase = "Completed" => oneShot

\* status.veleroBackupName of a completed backup is that backup's name.
CompletedMeansNamed == Stored /\ obj.phase = "Completed" => obj.backupName = "named"

-----------------------------------------------------------------------------
(* Liveness.  The worker goroutine handles what is queued, the sync         *)
(* goroutine runs every 30 seconds, the informer catches up, Velero carries *)
(* out requests and finishes backups, and time passes.  Users do nothing    *)
(* they do not want to, and faults are bounded by MaxFaults.               *)

LiveSpec ==
  /\ Spec
  /\ WF_vars(Skip \/ Reconcile) /\ WF_vars(Call) /\ WF_vars(Sync)
  /\ WF_vars(SyncCache) /\ WF_vars(FinishBackup) /\ WF_vars(StartDeletion)
  /\ WF_vars(EndDeletion) /\ WF_vars(RejectRequest) /\ WF_vars(Tick)

\* A reserved name becomes a schedule, or the object is being deleted.
ReservedGetsCreated ==
  \A n \in 1 .. MaxTime :
    (Live /\ \E k \in DOMAIN obj.schedules :
               obj.schedules[k].name = n /\ obj.schedules[k].status = "")
      ~> (~Live \/ \E k \in DOMAIN obj.schedules :
                     obj.schedules[k].name = n /\ obj.schedules[k].status # "")

\* A deletion that has begun ends, with no schedule left running.
DeletionCompletes ==
  (Stored /\ obj.deleting) ~> (velero = {} /\ (Stored => "dmaas" \notin obj.finalizers))

\* A full backup that is due is made.
DueGetsDone ==
  (Live /\ obj.spec.cron = "valid" /\ Due(obj))
     ~> (~Live \/ obj.spec.cron # "valid" \/ ~Due(obj))

\* What retention no longer covers gets erased.
ExpiredGetsErased ==
  \A n \in 1 .. MaxTime :
    (Live /\ obj.spec.keep # 0
       /\ \E k \in Expired(obj.schedules, obj.spec.keep, obj.spec.check, backups) :
            obj.schedules[k].name = n)
      ~> (~Live \/ \E k \in DOMAIN obj.schedules :
                     obj.schedules[k].name = n /\ obj.schedules[k].status = "Erased")

=============================================================================
