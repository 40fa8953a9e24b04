---------------------------- MODULE RetentionProofs ----------------------------
(***************************************************************************)
(* The clean-up decides on what the informer's cache says, and asks for     *)
(* deletions that Velero carries out later or not at all.  Here is what it   *)
(* leaves alone: the backups that the threshold covers, a successful one,   *)
(* and the backups of a schedule that is not Erased.                       *)
(***************************************************************************)
EXTENDS RotationProofs

-----------------------------------------------------------------------------
(* The backups at the server, and in the cache.                            *)

\* Delete requests are made.
Requests ==
  /\ op.pc = "cleanup"
  /\ requests \subseteq requests' /\ requests' \subseteq requests \union ToRequest(op.dbkp)
  /\ UNCHANGED <<backups, cache, taken>>

\* The cache is what is at the server.
CatchesUp == cache' = backups /\ UNCHANGED <<backups, taken, requests>>

\* What a step does to the backups.
LEMMA BackupSteps ==
  ASSUME [Next]_vars
  PROVE  Velero \/ Requests \/ CatchesUp \/ UNCHANGED <<backups, cache, taken, requests>>
<1>1. CASE Cleanup
  BY <1>1 DEF Cleanup, Requests
<1>2. CASE CleanupSomeFail
  BY <1>2 DEF CleanupSomeFail, Requests
<1>3. CASE Call /\ ~Cleanup /\ ~CleanupSomeFail
  BY <1>3 DEF Call, CreateSchedule, CreateScheduleExists, CreateScheduleFails, DeleteOld,
              DeleteOldFails, CreateBackup, CreateBackupFails, Finalize, FinalizeFails, Patch,
              PatchRejected, PatchFails, DropPatch, server
<1>4. CASE Crash \/ SyncCache
  BY <1>4 DEF Crash, SyncCache, CatchesUp, server
<1>5. CASE User \/ Reconcile
  BY <1>5 DEF User, UserCreate, UserEdit, UserDelete, OtherFinalizerRemoved, Reconcile,
              ReconcileQueued, ReconcileInvalidCron, ReconcileNotDue, ReconcileReserve,
              ReconcileOnce, ReconcileMade, ReconcileDeleting, Begin, server
<1>6. CASE Sync \/ Skip \/ Tick \/ UNCHANGED vars
  BY <1>6 DEF Sync, Skip, Tick, vars, server
<1> QED BY <1>1, <1>2, <1>3, <1>4, <1>5, <1>6 DEF Next

\* A backup's id tells its schedule, in the cache as at the server.
SameSchedule ==
  /\ \A b \in backups \union cache : b.id <= taken
  /\ \A b, c \in backups \union cache : b.id = c.id => b.sched = c.sched

BackupInv ==
  /\ SameSchedule
  /\ IsFiniteSet(backups) /\ IsFiniteSet(cache)
  /\ \A i \in requests : i <= taken

LEMMA InitBackup == Init => BackupInv
  BY FS_EmptySet DEF Init, BackupInv, SameSchedule

\* A backup changes its phase.
LEMMA PhaseBackup ==
  ASSUME TypeInv, BackupInv, NEW b \in backups, NEW ph \in BackupPhase, SetPhase(b, ph),
         UNCHANGED <<cache, taken, requests>>
  PROVE  BackupInv'
<1> DEFINE c == [b EXCEPT !.phase = ph]
<1>1. b \in Backup
  BY DEF TypeInv, RestOK
<1>2. c.id = b.id /\ c.sched = b.sched
  BY <1>1 DEF Backup
<1>3. backups' = (backups \ {b}) \union {c}
  BY DEF SetPhase
<1>4. IsFiniteSet(backups')
  <2>1. IsFiniteSet(backups \ {b})
    BY FS_RemoveElement DEF BackupInv
  <2> QED BY <1>3, <2>1, FS_AddElement
<1> HIDE DEF c
<1>5. SameSchedule'
  BY <1>2, <1>3 DEF BackupInv, SameSchedule
<1> QED BY <1>4, <1>5 DEF BackupInv

\* A schedule makes a backup, with an id that has never been used.
LEMMA RunBackup ==
  ASSUME TypeInv, BackupInv, RunSchedule
  PROVE  /\ BackupInv'
         /\ \E n \in velero, c \in Backup :
              /\ backups' = backups \union {c} /\ UNCHANGED <<cache, requests>>
              /\ c.sched = n /\ c.phase = "InProgress" /\ c.id \notin requests
<1>1. PICK n \in velero :
        backups' = backups \union {[id |-> taken + 1, sched |-> n, phase |-> "InProgress"]}
  BY DEF RunSchedule
<1> DEFINE c == [id |-> taken + 1, sched |-> n, phase |-> "InProgress"]
<1>2. taken \in Nat /\ backups \in SUBSET Backup /\ cache \in SUBSET Backup /\ n \in Nat
        /\ requests \in SUBSET Nat
  BY DEF TypeInv, RestOK
<1>3. /\ c.id = taken + 1 /\ c.sched = n /\ c.phase = "InProgress" /\ taken' = taken + 1
      /\ cache' = cache /\ requests' = requests /\ c \in Backup
  BY <1>2 DEF RunSchedule, Backup, BackupPhase
<1>4. \A b \in backups \union cache : b.id \in Nat /\ b.id <= taken
  BY <1>2 DEF Backup, BackupInv, SameSchedule
<1>5. backups' = backups \union {c}
  BY <1>1
<1> HIDE DEF c
<1>6. \A b \in backups \union cache : b.id # c.id /\ b.id <= taken'
  BY <1>2, <1>3, <1>4
<1>7. c.id <= taken' /\ \A i \in requests : i <= taken' /\ i # c.id
  BY <1>2, <1>3 DEF BackupInv
<1>8. IsFiniteSet(backups')
  BY <1>5, FS_AddElement DEF BackupInv
<1>9. BackupInv'
  <2>1. SameSchedule'
    BY <1>3, <1>5, <1>6, <1>7 DEF BackupInv, SameSchedule
  <2> QED BY <1>3, <1>7, <1>8, <2>1 DEF BackupInv
<1> QED BY <1>3, <1>5, <1>7, <1>9

LEMMA VeleroBackup ==
  ASSUME TypeInv, BackupInv, Velero
  PROVE  BackupInv'
<1>1. {"Completed", "Failed", "Deleting"} \subseteq BackupPhase
  BY DEF BackupPhase
<1>2. CASE RunSchedule
  BY <1>2, RunBackup
<1>3. CASE FinishBackup
  <2>1. PICK b \in backups, ph \in {"Completed", "Failed"} : SetPhase(b, ph)
    BY <1>3 DEF FinishBackup
  <2> QED BY <1>1, <1>3, <2>1, PhaseBackup DEF FinishBackup
<1>4. CASE StartDeletion
  <2>1. PICK b \in backups : SetPhase(b, "Deleting")
    BY <1>4 DEF StartDeletion
  <2> QED BY <1>1, <1>4, <2>1, PhaseBackup DEF StartDeletion
<1>5. CASE EndDeletion \/ RejectRequest
  <2>1. backups' \subseteq backups /\ requests' \subseteq requests /\ UNCHANGED <<cache, taken>>
    BY <1>5 DEF EndDeletion, RejectRequest
  <2>2. IsFiniteSet(backups')
    BY <2>1, FS_Subset DEF BackupInv
  <2> QED BY <2>1, <2>2 DEF BackupInv, SameSchedule
<1> QED BY <1>2, <1>3, <1>4, <1>5 DEF Velero

\* The ids that are requested are ids in the cache.
LEMMA RequestedIds ==
  ASSUME NEW o, NEW i \in ToRequest(o)
  PROVE  \E c \in cache : c.id = i
  BY DEF ToRequest, ExpiredBackups, SurplusBackups, BackupsOf

LEMMA NextBackup ==
  ASSUME TypeInv, BackupInv, [Next]_vars
  PROVE  BackupInv'
<1>1. CASE Velero
  BY <1>1, VeleroBackup
<1>2. CASE Requests
  <2>1. \A i \in requests' : i <= taken'
    BY <1>2, RequestedIds DEF Requests, BackupInv, SameSchedule
  <2> QED BY <1>2, <2>1 DEF Requests, BackupInv, SameSchedule
<1>3. CASE CatchesUp
  BY <1>3 DEF CatchesUp, BackupInv, SameSchedule
<1>4. CASE UNCHANGED <<backups, cache, taken, requests>>
  BY <1>4 DEF BackupInv, SameSchedule
<1> QED BY <1>1, <1>2, <1>3, <1>4, BackupSteps

LEMMA AlwaysBackup == Spec => []BackupInv
<1>1. TypeInv /\ BackupInv /\ [Next]_vars => BackupInv'
  BY NextBackup
<1> QED BY InitBackup, <1>1, AlwaysTypeInv, PTL DEF Spec

-----------------------------------------------------------------------------
(* The threshold.                                                          *)

LEMMA MaxOfTwo ==
  ASSUME NEW i \in Int, NEW j \in Int
  PROVE  Max({i, j}) \in {i, j} /\ Max({i, j}) >= i /\ Max({i, j}) >= j
<1>1. \E m \in {i, j} : \A y \in {i, j} : m >= y
  OBVIOUS
<1> QED BY <1>1 DEF Max

\* The index up to which entries are retained is never below the threshold.
LEMMA RequiredAtLeast ==
  ASSUME NEW s \in Seq(Entry), NEW keep \in Nat, NEW check, NEW B, CleansUp(s, keep, check, B)
  PROVE  Required(s, keep, check, B) \in Nat /\ Required(s, keep, check, B) >= keep
<1>1. CASE ~check
  BY <1>1 DEF Required
<1>2. CASE check
  <2> DEFINE S == {k \in DOMAIN s : HasSuccessful(s, k, B)}
             i == Min(S) - 1
  <2>1. S # {} /\ S \in SUBSET Nat /\ S \in SUBSET (1 .. Len(s))
    BY <1>2 DEF CleansUp
  <2>2. Min(S) \in 1 .. Len(s)
    BY <2>1, MinIsMember
  <2>3. Required(s, keep, check, B) = Max({keep, i})
    BY <1>2 DEF Required
  <2>4. i \in Nat
    BY <2>2
  <2> HIDE DEF i
  <2> QED BY <2>3, <2>4, MaxOfTwo
<1> QED BY <1>1, <1>2

\* An expired schedule has more than `keep` newer ones before it.
LEMMA ExpiredNewer ==
  ASSUME NEW s \in Seq(Entry), Ordered(s), NEW keep \in Nat, NEW check, NEW B,
         NEW j \in Expired(s, keep, check, B)
  PROVE  Cardinality({k \in DOMAIN s : s[k].name > s[j].name /\ ~Waiting(s[k])}) > keep
<1> DEFINE T == {k \in DOMAIN s : s[k].name > s[j].name /\ ~Waiting(s[k])}
<1>1. /\ CleansUp(s, keep, check, B) /\ j \in DOMAIN s /\ s[j].status = "Deleted"
      /\ j > Required(s, keep, check, B) + 1
  BY DEF Expired
<1>2. DOMAIN s = 1 .. Len(s) /\ Len(s) \in Nat /\ j \in Nat
  BY <1>1
<1>3. j - 1 \in Nat /\ j - 1 > keep
  BY <1>1, <1>2, RequiredAtLeast
<1>4. ~Waiting(s[j])
  BY <1>1 DEF Waiting
<1>5. 1 .. (j - 1) \subseteq T
  <2>1. SUFFICES ASSUME NEW k \in 1 .. (j - 1) PROVE k \in T
    OBVIOUS
  <2>2. k \in DOMAIN s /\ k < j
    BY <1>1, <1>2
  <2>3. ~Waiting(s[k])
    BY <1>1, <1>2, <2>2 DEF Ordered
  <2>4. s[j].name < s[k].name
    BY <1>1, <1>4, <2>2, OrderedDistinct
  <2>5. s[k].name > s[j].name
    BY <1>1, <2>2, <2>4, EntryNumbers
  <2> QED BY <2>2, <2>3, <2>5
<1>6. IsFiniteSet(T) /\ Cardinality(T) \in Nat
  <2>1. T \in SUBSET (DOMAIN s)
    OBVIOUS
  <2>2. IsFiniteSet(DOMAIN s)
    BY Positions
  <2> HIDE DEF T
  <2> QED BY <2>1, <2>2, FS_Subset, FS_CardinalityType
<1> HIDE DEF T
<1>7. Cardinality(1 .. (j - 1)) = j - 1
  BY <1>2, <1>3, FS_Interval
<1>8. Cardinality(1 .. (j - 1)) <= Cardinality(T)
  BY <1>5, <1>6, FS_Subset
<1>9. Cardinality(T) > keep
  BY <1>3, <1>6, <1>7, <1>8
<1> QED BY <1>9 DEF T

-----------------------------------------------------------------------------
(* The requests.                                                           *)

\* Only a clean-up makes requests, and only those of ToRequest.
LEMMA RequestsMade ==
  ASSUME [Next]_vars, NEW i \in NewRequests
  PROVE  Requests /\ op.pc = "cleanup" /\ i \in ToRequest(op.dbkp)
<1>1. requests' \subseteq requests \/ Requests
  BY BackupSteps DEF Velero, RunSchedule, FinishBackup, StartDeletion, EndDeletion, RejectRequest,
                     CatchesUp
<1> QED BY <1>1 DEF NewRequests, Requests

LEMMA WindowStep ==
  ASSUME KnownInv, RotInv, BackupInv, [Next]_vars, NEW i \in NewRequests,
         Periodic(op.dbkp), \E b \in backups : b.id = i
  PROVE  Cardinality({k \in DOMAIN op.dbkp.schedules :
                        /\ op.dbkp.schedules[k].name > ScheduleOf(i)
                        /\ ~Waiting(op.dbkp.schedules[k])}) > op.dbkp.spec.keep
<1> DEFINE s == op.dbkp.schedules
           keep == op.dbkp.spec.keep
           check == op.dbkp.spec.check
<1>1. op.pc = "cleanup" /\ i \in ToRequest(op.dbkp)
  BY RequestsMade
<1>2. op.dbkp \in Object /\ s \in Seq(Entry) /\ Ordered(s)
  BY <1>1, BusyCopy DEF Busy, InOrder
<1>3. keep \in Nat
  <2>1. op.dbkp.spec \in SpecType
    BY <1>2 DEF Object
  <2> QED BY <2>1 DEF SpecType
<1>4. PICK c \in ExpiredBackups(s, keep, check, cache) : c.id = i
  BY <1>1 DEF ToRequest
<1>5. PICK j \in Expired(s, keep, check, cache) : c \in cache /\ c.sched = s[j].name
  BY <1>4 DEF ExpiredBackups, BackupsOf
<1>6. ScheduleOf(i) = s[j].name
  <2> DEFINE b == CHOOSE b \in backups : b.id = i
  <2>1. b \in backups /\ b.id = i
    OBVIOUS
  <2> HIDE DEF b
  <2>2. b.sched = c.sched
    BY <1>4, <1>5, <2>1 DEF BackupInv, SameSchedule
  <2> QED BY <1>5, <2>2 DEF ScheduleOf, b
<1>7. Cardinality({k \in DOMAIN s : s[k].name > s[j].name /\ ~Waiting(s[k])}) > keep
  BY <1>2, <1>3, ExpiredNewer
<1> QED BY <1>6, <1>7

\* The backups of the active schedule and of the last `keep` schedules before
\* it are never requested to be deleted, though the cache lags behind by up to
\* a tick and whatever fails, if no result is lost.
THEOREM WindowKept ==
  ASSUME OperatorFinalizer, NoResultLost
  PROVE  Spec => RetentionWindow
<1> DEFINE Newer(i) == {k \in DOMAIN op.dbkp.schedules :
                          /\ op.dbkp.schedules[k].name > ScheduleOf(i)
                          /\ op.dbkp.schedules[k].status # ""}
<1>1. KnownInv /\ RotInv /\ BackupInv /\ [Next]_vars
        => [\A i \in NewRequests :
              Periodic(op.dbkp) /\ (\E b \in backups : b.id = i)
                => Cardinality(Newer(i)) > op.dbkp.spec.keep]_vars
  <2>1. \A i : Newer(i) = {k \in DOMAIN op.dbkp.schedules :
                             /\ op.dbkp.schedules[k].name > ScheduleOf(i)
                             /\ ~Waiting(op.dbkp.schedules[k])}
    BY Zenon DEF Waiting
  <2> HIDE DEF Newer
  <2> QED BY <2>1, WindowStep
<1>2. Spec => []KnownInv /\ []RotInv /\ []BackupInv
  BY AlwaysKnown, AlwaysRot, AlwaysBackup
<1> QED BY <1>1, <1>2, PTL DEF Spec, RetentionWindow

-----------------------------------------------------------------------------
(* The spec that a clean-up follows is one that a user wrote.              *)

SpecInv ==
  /\ Stored => obj.spec \in Specs
  /\ op.pc # "idle" => op.dbkp.spec \in Specs

LEMMA InitSpecs == Init => SpecInv
  BY DEF Init, IdleOp, Stored, SpecInv

LEMMA UserSpecs ==
  ASSUME TypeInv, SpecInv, User
  PROVE  SpecInv'
<1>1. op' = op
  BY DEF User, UserCreate, UserEdit, UserDelete, OtherFinalizerRemoved
<1>2. Stored' => obj'.spec \in Specs
  <2>1. CASE UserCreate
    <3>1. PICK sp \in Specs, f \in FinalizerSets : obj' = NewObject(sp, f)
      BY <2>1 DEF UserCreate
    <3>2. obj'.spec = sp
      BY <3>1 DEF NewObject
    <3> QED BY <3>2
  <2>2. CASE UserEdit \/ UserDelete \/ OtherFinalizerRemoved
    <3>1. Stored /\ obj \in Object
      BY <2>2 DEF UserEdit, UserDelete, OtherFinalizerRemoved, TypeInv, Stored
    <3>2. /\ \A sp : [obj EXCEPT !.spec = sp].spec = sp
          /\ \A d : [obj EXCEPT !.deleting = d].spec = obj.spec
          /\ \A f : [obj EXCEPT !.finalizers = f].spec = obj.spec
      BY <3>1 DEF Object
    <3> DEFINE d == [obj EXCEPT !.deleting = TRUE]
               e == [obj EXCEPT !.finalizers = obj.finalizers \ {"other"}]
    <3>3. \/ \E sp \in Specs : obj' = [obj EXCEPT !.spec = sp]
          \/ obj' = Settle(d) \/ obj' = Settle(e)
      BY <2>2 DEF UserEdit, UserDelete, OtherFinalizerRemoved
    <3>4. d.spec = obj.spec /\ e.spec = obj.spec
      BY <3>2
    <3> HIDE DEF d, e
    <3> QED BY <3>1, <3>2, <3>3, <3>4 DEF Settle, Stored, SpecInv
  <2> QED BY <2>1, <2>2 DEF User
<1> QED BY <1>1, <1>2 DEF SpecInv

LEMMA ReconcileSpecs ==
  ASSUME TypeInv, SpecInv, Reconcile
  PROVE  SpecInv'
<1>1. Stored /\ obj \in Object /\ obj' = obj
  BY DEF Reconcile, ReconcileQueued, ReconcileInvalidCron, ReconcileNotDue, ReconcileReserve,
         ReconcileOnce, ReconcileMade, ReconcileDeleting, Executes, Begin, TypeInv, Stored
<1>2. Started(obj) \in Object /\ Started(obj).spec = obj.spec
  BY <1>1, StartedObject, SpecKept DEF Object
<1>3. /\ \A r : [Started(obj) EXCEPT !.reason = r].spec = obj.spec
      /\ \A s : [Started(obj) EXCEPT !.schedules = s].spec = obj.spec
  BY <1>2 DEF Object
<1>4. \E pc, o, requeue : Begin(pc, o, requeue) /\ o.spec = obj.spec
  <2>1. CASE ReconcileInvalidCron
    BY <1>3, <2>1 DEF ReconcileInvalidCron
  <2>2. CASE ReconcileReserve
    BY <1>3, <2>2 DEF ReconcileReserve
  <2>3. CASE ReconcileQueued \/ ReconcileNotDue \/ ReconcileOnce \/ ReconcileMade
    BY <1>2, <2>3 DEF ReconcileQueued, ReconcileNotDue, ReconcileOnce, ReconcileMade
  <2>4. CASE ReconcileDeleting
    BY <1>2, <2>4 DEF ReconcileDeleting
  <2> QED BY <2>1, <2>2, <2>3, <2>4 DEF Reconcile
<1>5. op'.dbkp.spec = obj.spec
  BY <1>4 DEF Begin
<1> QED BY <1>1, <1>5 DEF SpecInv, Stored

LEMMA CallSpecs ==
  ASSUME TypeInv, SpecInv, Call
  PROVE  SpecInv'
<1> DEFINE o == op.dbkp
<1>1. op.pc # "idle" /\ op \in OpType /\ o \in Object
  BY DEF Call, CreateSchedule, CreateScheduleExists, CreateScheduleFails, DeleteOld,
         DeleteOldFails, CreateBackup, CreateBackupFails, Cleanup, CleanupSomeFail, Finalize,
         FinalizeFails, Patch, PatchRejected, PatchFails, TypeInv, OpOK
<1>2. CASE Patch
  <2>1. obj \in Object /\ Stored
    BY <1>2 DEF Patch, Accepted, TypeInv, Stored
  <2>2. Patched(obj).spec = obj.spec
    BY <2>1, SpecKept DEF Object
  <2>3. op'.pc = "idle" /\ (Stored' => obj'.spec = obj.spec)
    BY <1>2, <2>2 DEF Patch, Settle, Stored, IdleOp
  <2> QED BY <2>1, <2>3 DEF SpecInv
<1>3. CASE PatchRejected \/ PatchFails
  BY <1>3 DEF PatchRejected, PatchFails, DropPatch, IdleOp, SpecInv, Stored
<1>4. CASE ~Patch /\ ~PatchRejected /\ ~PatchFails
  <2>1. obj' = obj
    BY <1>4 DEF Call, CreateSchedule, CreateScheduleExists, CreateScheduleFails, DeleteOld,
                DeleteOldFails, CreateBackup, CreateBackupFails, Cleanup, CleanupSomeFail,
                Finalize, FinalizeFails
  <2>2. /\ \A s : [o EXCEPT !.schedules = s].spec = o.spec
        /\ \A f : [o EXCEPT !.finalizers = f].spec = o.spec
        /\ \A r : [o EXCEPT !.reason = r].spec = o.spec
        /\ \A n : [o EXCEPT !.phase = "Completed", !.backupName = n].spec = o.spec
    BY <1>1 DEF Object
  <2>3. \E pc, p : Continue(pc, p) /\ p.spec = o.spec
    <3>1. CleanedUp(o).spec = o.spec
      BY <2>2 DEF CleanedUp
    <3>2. CASE Cleanup \/ CleanupSomeFail
      BY <3>1, <3>2 DEF Cleanup, CleanupSomeFail
    <3>3. CASE CreateSchedule \/ CreateScheduleExists
      BY <2>2, <3>3 DEF CreateSchedule, CreateScheduleExists, Created
    <3>4. CASE CreateScheduleFails \/ DeleteOldFails \/ CreateBackupFails \/ FinalizeFails
      BY <2>2, <3>4 DEF CreateScheduleFails, DeleteOldFails, CreateBackupFails, FinalizeFails,
                        GiveUp
    <3>5. CASE DeleteOld
      BY <2>2, <3>5 DEF DeleteOld
    <3>6. CASE CreateBackup
      <4> DEFINE n == IF oneShot THEN "empty" ELSE "named"
                 p == [o EXCEPT !.phase = "Completed", !.backupName = n]
      <4>1. Continue("cleanup", p)
        BY <3>6 DEF CreateBackup
      <4>2. p.spec = o.spec
        BY <2>2
      <4> HIDE DEF p
      <4> QED BY <4>1, <4>2
    <3>7. CASE Finalize
      BY <2>2, <3>7 DEF Finalize
    <3> QED BY <1>4, <3>2, <3>3, <3>4, <3>5, <3>6, <3>7 DEF Call
  <2>4. op'.dbkp.spec = o.spec
    BY <1>1, <2>3 DEF Continue, OpType
  <2> QED BY <1>1, <2>1, <2>4 DEF SpecInv, Stored
<1> QED BY <1>2, <1>3, <1>4

LEMMA AlwaysSpecs == Spec => []SpecInv
<1>1. TypeInv /\ SpecInv /\ [Next]_vars => SpecInv'
  <2> SUFFICES ASSUME TypeInv, SpecInv, [Next]_vars PROVE SpecInv'
    OBVIOUS
  <2>1. CASE Crash \/ Sync \/ Skip \/ Velero \/ SyncCache \/ Tick \/ UNCHANGED vars
    BY <2>1 DEF Crash, Sync, Skip, Velero, RunSchedule, FinishBackup, StartDeletion, EndDeletion,
                RejectRequest, SyncCache, Tick, vars, IdleOp, SpecInv, Stored
  <2> QED BY <2>1, UserSpecs, ReconcileSpecs, CallSpecs DEF Next
<1> QED BY InitSpecs, <1>1, AlwaysTypeInv, PTL DEF Spec

-----------------------------------------------------------------------------
(* A successful backup stays.                                              *)

\* Whenever a clean-up may delete, it checks for a successful backup.
AlwaysChecked == \A sp \in Specs : sp.check \/ sp.keep = 0

\* The order of backups by schedule, then by age.
AtLeast(c, b) == c.sched > b.sched \/ (c.sched = b.sched /\ c.id >= b.id)

\* The successful backups that nobody has asked to delete.
Kept == {b \in backups : b.phase = "Completed" /\ b.id \notin requests}

\* A backup that was successful, or that somebody asked to delete, is not newer
\* than all of those: so it was when the cache was read, and so it is now.
SuccessInv ==
  \A b \in backups \union cache :
    b.phase = "Completed" \/ b.id \in requests => \E c \in Kept : AtLeast(c, b)

LEMMA AtLeastOrder ==
  ASSUME NEW b \in Backup, NEW c \in Backup, NEW d \in Backup
  PROVE  /\ AtLeast(b, b)
         /\ AtLeast(d, c) /\ AtLeast(c, b) => AtLeast(d, b)
         /\ AtLeast(c, b) \/ AtLeast(b, c)
  BY DEF AtLeast, Backup

\* A nonempty set of naturals up to n has a greatest element.
LEMMA Greatest ==
  ASSUME NEW n \in Nat, NEW T \in SUBSET (0 .. n), T # {}
  PROVE  \E m \in T : \A i \in T : i <= m
<1> DEFINE U == {n - i : i \in T}
<1>1. \A i \in T : i \in Nat /\ i <= n /\ n - i \in Nat /\ n - i \in U
  OBVIOUS
<1>2. U \in SUBSET Nat /\ U # {}
  BY <1>1
<1>3. Min(U) \in U /\ \A u \in U : Min(U) <= u
  <2> HIDE DEF U
  <2> QED BY <1>2, MinIsMember
<1>4. PICK m \in T : Min(U) = n - m
  BY <1>3
<1>5. ASSUME NEW i \in T PROVE i <= m
  <2>1. n - m <= n - i
    BY <1>1, <1>3, <1>4
  <2> QED BY <1>1, <2>1
<1> QED BY <1>5

FinishedAfter(B, n, b) == {c \in BackupsOf(B, n) : c.id > b.id /\ Finished(c)}

\* Every backup that a clean-up of the non-periodic modes asks to delete is one
\* of the newest schedule's, with enough finished ones after it.
LEMMA SurplusFacts ==
  ASSUME NEW s, NEW keep, NEW check, NEW B, NEW b \in SurplusBackups(s, keep, check, B)
  PROVE  /\ b \in BackupsOf(B, s[1].name)
         /\ Cardinality(FinishedAfter(B, s[1].name, b)) >= keep
         /\ check => \E c \in BackupsOf(B, s[1].name) : c.id > b.id /\ c.phase = "Completed"
<1> DEFINE own == BackupsOf(B, s[1].name)
           newer == {c \in own : c.id > b.id}
<1>1. /\ b \in own /\ Cardinality({c \in newer : Finished(c)}) >= keep
      /\ check => \E c \in newer : c.phase = "Completed"
  BY DEF SurplusBackups
<1>2. {c \in newer : Finished(c)} = FinishedAfter(B, s[1].name, b)
  BY DEF FinishedAfter
<1> QED BY <1>1, <1>2

\* What a checked clean-up asks to delete is older than a backup that the
\* cache says was successful.
LEMMA OlderThanSuccess ==
  ASSUME TypeInv, BackupInv, op.dbkp \in Object,
         op.dbkp.spec.check \/ op.dbkp.spec.keep = 0,
         Periodic(op.dbkp) => Ordered(op.dbkp.schedules),
         ToRequest(op.dbkp) # {}
  PROVE  \E c \in cache :
           /\ c.phase = "Completed"
           /\ \A b \in backups \union cache : b.id \in ToRequest(op.dbkp) => ~AtLeast(b, c)
<1> DEFINE s == op.dbkp.schedules
           keep == op.dbkp.spec.keep
           T == ToRequest(op.dbkp)
<1>1. s \in Seq(Entry) /\ keep \in Nat
  <2>1. op.dbkp.spec \in SpecType
    BY DEF Object
  <2> QED BY <2>1 DEF SpecType, Object
<1>2. keep # 0 /\ op.dbkp.spec.check
  BY DEF ToRequest
<1>3. /\ backups \in SUBSET Backup /\ cache \in SUBSET Backup /\ SameSchedule
      /\ \A b \in Backup : b.id \in Nat /\ b.sched \in Nat
  BY DEF TypeInv, RestOK, BackupInv, Backup
<1>4. CASE Periodic(op.dbkp)
  <2> DEFINE S == {k \in DOMAIN s : HasSuccessful(s, k, cache)}
             X == Expired(s, keep, op.dbkp.spec.check, cache)
  <2>1. \A i \in T : \E c \in ExpiredBackups(s, keep, op.dbkp.spec.check, cache) : c.id = i
    BY <1>4 DEF ToRequest
  <2>2. \A i \in T : \E j \in X, c \in cache : c.id = i /\ c.sched = s[j].name
    BY <2>1 DEF ExpiredBackups, BackupsOf
  <2>3. X # {}
    BY <2>2
  <2>4. /\ CleansUp(s, keep, op.dbkp.spec.check, cache)
        /\ \A j \in X : /\ j \in DOMAIN s /\ s[j].status = "Deleted"
                        /\ j > Required(s, keep, op.dbkp.spec.check, cache) + 1
    BY <2>3 DEF Expired
  <2>5. S # {} /\ S \in SUBSET Nat /\ S \subseteq DOMAIN s
    BY <1>1, <1>2, <2>4 DEF CleansUp
  <2> DEFINE k == Min(S)
  <2>6. k \in S /\ k \in Nat /\ k \in DOMAIN s
    <3> HIDE DEF S
    <3> QED BY <2>5, MinIsMember
  <2>7. Required(s, keep, op.dbkp.spec.check, cache) >= k - 1
    <3>1. Required(s, keep, op.dbkp.spec.check, cache) = Max({keep, k - 1})
      BY <1>2 DEF Required
    <3>2. k - 1 \in Int
      BY <2>6
    <3> HIDE DEF k
    <3> QED BY <1>1, <3>1, <3>2, MaxOfTwo
  <2>8. PICK c \in cache : c.sched = s[k].name /\ c.phase = "Completed"
    BY <2>6 DEF HasSuccessful, BackupsOf
  <2>9. ASSUME NEW b \in backups \union cache, b.id \in T
        PROVE  ~AtLeast(b, c)
    <3>1. PICK j \in X : b.sched = s[j].name
      BY <1>3, <2>2, <2>9 DEF SameSchedule
    <3>2. /\ j \in DOMAIN s /\ ~Waiting(s[j])
          /\ j > Required(s, keep, op.dbkp.spec.check, cache) + 1
      BY <2>4 DEF Waiting
    <3>3. Required(s, keep, op.dbkp.spec.check, cache) \in Nat
      BY <1>1, <2>4, RequiredAtLeast
    <3>4. k < j
      BY <1>1, <2>6, <2>7, <3>2, <3>3
    <3>5. s[j].name < s[k].name
      BY <1>1, <1>4, <2>6, <3>2, <3>4, OrderedDistinct
    <3>6. b.sched < c.sched
      BY <2>8, <3>1, <3>5
    <3> QED BY <1>3, <3>6 DEF AtLeast
  <2> QED BY <2>8, <2>9
<1>5. CASE ~Periodic(op.dbkp)
  <2> DEFINE own == BackupsOf(cache, s[1].name)
             good == {c \in own : c.phase = "Completed"}
             I == {c.id : c \in good}
  <2>1. \A i \in T : \E b \in SurplusBackups(s, keep, op.dbkp.spec.check, cache) : b.id = i
    BY <1>5 DEF ToRequest
  <2>2. \A i \in T : \E b \in own, c \in good : b.id = i /\ c.id > i
    <3>1. \A b \in SurplusBackups(s, keep, op.dbkp.spec.check, cache) :
            b \in own /\ \E c \in own : c.id > b.id /\ c.phase = "Completed"
      BY <1>2, SurplusFacts
    <3> QED BY <2>1, <3>1
  <2>3. I # {} /\ \A c \in own : c \in cache /\ c.sched = s[1].name
    BY <2>2 DEF BackupsOf
  <2>4. I \in SUBSET (0 .. taken) /\ taken \in Nat
    <3>1. taken \in Nat
      BY DEF TypeInv, RestOK
    <3>2. \A c \in cache : c.id \in 0 .. taken
      BY <1>3, <3>1 DEF SameSchedule
    <3> QED BY <2>3, <3>1, <3>2
  <2>5. PICK m \in I : \A i \in I : i <= m
    <3> HIDE DEF I
    <3> QED BY <2>3, <2>4, Greatest
  <2>6. PICK c \in good : c.id = m
    OBVIOUS
  <2>7. ASSUME NEW b \in backups \union cache, b.id \in T
        PROVE  ~AtLeast(b, c)
    <3>1. PICK d \in own, e \in good : d.id = b.id /\ e.id > b.id
      BY <2>2, <2>7
    <3>2. b.sched = s[1].name /\ c.sched = s[1].name
      BY <1>3, <2>3, <3>1 DEF SameSchedule
    <3>3. e.id <= c.id
      BY <2>5, <2>6
    <3>4. b.id < c.id
      BY <1>3, <2>3, <3>1, <3>3
    <3> QED BY <1>3, <2>3, <3>2, <3>4 DEF AtLeast
  <2> QED BY <2>3, <2>7
<1> QED BY <1>4, <1>5

\* A step after which what was kept is kept, and whatever the invariant speaks
\* of is kept itself or was spoken of before.
LEMMA MoreKept ==
  ASSUME SuccessInv, RestOK', Kept \subseteq Kept',
         \A c \in backups' \union cache' :
           c.phase = "Completed" \/ c.id \in requests'
             => \/ c \in Kept'
                \/ \E b \in backups \union cache :
                     /\ b.id = c.id /\ b.sched = c.sched
                     /\ b.phase = "Completed" \/ b.id \in requests
  PROVE  SuccessInv'
<1> SUFFICES ASSUME NEW c \in backups' \union cache',
                    c.phase = "Completed" \/ c.id \in requests'
             PROVE  \E d \in Kept' : AtLeast(d, c)
  BY DEF SuccessInv, AtLeast
<1>1. CASE c \in Kept'
  <2>1. c \in Backup
    BY DEF RestOK
  <2> QED BY <1>1, <2>1, AtLeastOrder
<1>2. CASE c \notin Kept'
  <2>1. PICK b \in backups \union cache :
          /\ b.id = c.id /\ b.sched = c.sched
          /\ b.phase = "Completed" \/ b.id \in requests
    BY <1>2
  <2>2. PICK d \in Kept : AtLeast(d, b)
    BY <2>1 DEF SuccessInv
  <2>3. AtLeast(d, c)
    BY <2>1, <2>2 DEF AtLeast
  <2> QED BY <2>2, <2>3
<1> QED BY <1>1, <1>2

LEMMA VeleroSuccess ==
  ASSUME TypeInv, TypeInv', BackupInv, SuccessInv, Velero
  PROVE  SuccessInv'
<1>1. RestOK' /\ backups \in SUBSET Backup
  BY DEF TypeInv, RestOK
<1>2. CASE RunSchedule
  <2>1. PICK c \in Backup :
          /\ backups' = backups \union {c} /\ UNCHANGED <<cache, requests>>
          /\ c.phase = "InProgress" /\ c.id \notin requests
    BY <1>2, RunBackup
  <2>2. Kept \subseteq Kept'
    BY <2>1 DEF Kept
  <2> QED BY <1>1, <2>1, <2>2, MoreKept
<1>3. CASE FinishBackup
  <2>1. PICK b \in backups, ph \in {"Completed", "Failed"} :
          b.phase = "InProgress" /\ SetPhase(b, ph)
    BY <1>3 DEF FinishBackup
  <2> DEFINE c == [b EXCEPT !.phase = ph]
  <2>2. c.id = b.id /\ c.sched = b.sched /\ c.phase = ph
    BY <1>1 DEF Backup
  <2>3. backups' = (backups \ {b}) \union {c} /\ UNCHANGED <<cache, requests>>
    BY <1>3, <2>1 DEF SetPhase, FinishBackup
  <2> HIDE DEF c
  <2>4. Kept \subseteq Kept'
    BY <2>1, <2>3 DEF Kept
  <2>5. c.phase = "Completed" /\ c.id \notin requests => c \in Kept'
    BY <2>3 DEF Kept
  <2> QED BY <1>1, <2>2, <2>3, <2>4, <2>5, MoreKept
<1>4. CASE StartDeletion
  <2>1. PICK b \in backups : b.id \in requests /\ SetPhase(b, "Deleting")
    BY <1>4 DEF StartDeletion
  <2> DEFINE c == [b EXCEPT !.phase = "Deleting"]
  <2>2. c.id = b.id /\ c.sched = b.sched /\ c.phase = "Deleting"
    BY <1>1 DEF Backup
  <2>3. backups' = (backups \ {b}) \union {c} /\ UNCHANGED <<cache, requests>>
    BY <1>4, <2>1 DEF SetPhase, StartDeletion
  <2> HIDE DEF c
  <2>4. Kept \subseteq Kept'
    BY <2>1, <2>3 DEF Kept
  <2> QED BY <1>1, <2>2, <2>3, <2>4, MoreKept
<1>5. CASE EndDeletion
  <2>1. PICK b \in backups : /\ b.phase = "Deleting"
                             /\ backups' = backups \ {b} /\ requests' = requests \ {b.id}
    BY <1>5 DEF EndDeletion
  <2>2. cache' = cache
    BY <1>5 DEF EndDeletion
  <2>3. Kept \subseteq Kept'
    BY <2>1 DEF Kept
  <2> QED BY <1>1, <2>1, <2>2, <2>3, MoreKept
<1>6. CASE RejectRequest
  <2>1. requests' \subseteq requests /\ UNCHANGED <<backups, cache>>
    BY <1>6 DEF RejectRequest
  <2>2. Kept \subseteq Kept'
    BY <2>1 DEF Kept
  <2> QED BY <1>1, <2>1, <2>2, MoreKept
<1> QED BY <1>2, <1>3, <1>4, <1>5, <1>6 DEF Velero

\* A clean-up leaves a successful backup that is newer than all it asks to
\* delete, and than what was spoken of before.
LEMMA RequestsSuccess ==
  ASSUME TypeInv, TypeInv', BackupInv, SuccessInv, Requests,
         op.dbkp.spec.check \/ op.dbkp.spec.keep = 0,
         Periodic(op.dbkp) => Ordered(op.dbkp.schedules)
  PROVE  SuccessInv' /\ (requests' # requests => Kept' # {})
<1>1. /\ RestOK' /\ backups \in SUBSET Backup /\ cache \in SUBSET Backup
      /\ op.dbkp \in Object
  BY DEF TypeInv, RestOK, OpOK, Requests
<1>2. UNCHANGED <<backups, cache>>
  BY DEF Requests
<1>3. CASE ToRequest(op.dbkp) = {}
  <2>1. requests' = requests
    BY <1>3 DEF Requests
  <2>2. Kept' = Kept
    BY <1>2, <2>1 DEF Kept
  <2> QED BY <1>1, <1>2, <2>1, <2>2, MoreKept
<1>4. CASE ToRequest(op.dbkp) # {}
  <2>1. PICK c \in cache :
          /\ c.phase = "Completed"
          /\ \A b \in backups \union cache : b.id \in ToRequest(op.dbkp) => ~AtLeast(b, c)
    BY <1>1, <1>4, OlderThanSuccess
  <2>2. PICK d \in Kept : AtLeast(d, c)
    BY <2>1 DEF SuccessInv
  <2>3. d \in backups /\ d \in Backup /\ c \in Backup
    BY <1>1, <2>2 DEF Kept
  <2>4. d \in Kept'
    <3>1. d.id \notin ToRequest(op.dbkp)
      BY <2>1, <2>2, <2>3
    <3> QED BY <1>2, <2>2, <3>1 DEF Kept, Requests
  <2>5. ASSUME NEW b \in backups \union cache, b.id \in ToRequest(op.dbkp)
        PROVE  AtLeast(d, b)
    <3>1. b \in Backup /\ AtLeast(c, b)
      BY <1>1, <2>1, <2>3, <2>5, AtLeastOrder
    <3> QED BY <2>2, <2>3, <3>1, AtLeastOrder
  <2>6. ASSUME NEW b \in backups' \union cache', b.phase = "Completed" \/ b.id \in requests'
        PROVE  \E e \in Kept' : AtLeast(e, b)
    <3>1. b \in backups \union cache
      BY <1>2, <2>6
    <3>2. CASE b.id \in ToRequest(op.dbkp)
      BY <2>4, <2>5, <3>1, <3>2
    <3>3. CASE b.id \notin ToRequest(op.dbkp)
      <4>1. b.phase = "Completed" \/ b.id \in requests
        BY <2>6, <3>3 DEF Requests
      <4>2. PICK e \in Kept : AtLeast(e, b)
        BY <3>1, <4>1 DEF SuccessInv
      <4>3. CASE e.id \in ToRequest(op.dbkp)
        <5>1. e \in backups /\ e \in Backup /\ b \in Backup
          BY <1>1, <3>1, <4>2 DEF Kept
        <5>2. AtLeast(d, e)
          BY <2>5, <4>3, <5>1
        <5>3. AtLeast(d, b)
          BY <2>3, <4>2, <5>1, <5>2, AtLeastOrder
        <5> QED BY <2>4, <5>3
      <4>4. CASE e.id \notin ToRequest(op.dbkp)
        <5>1. e \in Kept'
          BY <1>2, <4>2, <4>4 DEF Kept, Requests
        <5> QED BY <4>2, <5>1
      <4> QED BY <4>3, <4>4
    <3> QED BY <3>2, <3>3
  <2>7. SuccessInv'
    BY <2>6 DEF SuccessInv, AtLeast
  <2> QED BY <2>4, <2>7
<1> QED BY <1>3, <1>4

\* The conditions under which a clean-up leaves a successful backup.
SafeCleanup ==
  op.pc = "cleanup"
    => /\ op.dbkp.spec.check \/ op.dbkp.spec.keep = 0
       /\ Periodic(op.dbkp) => Ordered(op.dbkp.schedules)

LEMMA NextSuccess ==
  ASSUME TypeInv, BackupInv, SuccessInv, SafeCleanup, [Next]_vars
  PROVE  SuccessInv' /\ (NewRequests # {} => Kept' # {})
<1>1. TypeInv'
  BY NextTypeInv
<1>2. CASE Velero
  <2>1. requests' \subseteq requests
    BY <1>2 DEF Velero, RunSchedule, FinishBackup, StartDeletion, EndDeletion, RejectRequest
  <2> QED BY <1>1, <1>2, <2>1, VeleroSuccess DEF NewRequests
<1>3. CASE Requests
  <2>1. op.dbkp.spec.check \/ op.dbkp.spec.keep = 0
    BY <1>3 DEF SafeCleanup, Requests
  <2>2. Periodic(op.dbkp) => Ordered(op.dbkp.schedules)
    BY <1>3 DEF SafeCleanup, Requests
  <2>3. NewRequests # {} => requests' # requests
    BY DEF NewRequests
  <2> QED BY <1>1, <1>3, <2>1, <2>2, <2>3, RequestsSuccess
<1>4. CASE CatchesUp \/ UNCHANGED <<backups, cache, taken, requests>>
  <2>1. cache' \subseteq backups \union cache /\ UNCHANGED <<backups, requests>>
    BY <1>4 DEF CatchesUp
  <2>2. Kept' = Kept /\ NewRequests = {}
    BY <2>1 DEF Kept, NewRequests
  <2>3. RestOK'
    BY <1>1 DEF TypeInv
  <2>4. SuccessInv'
    BY <2>1, <2>2, <2>3, MoreKept
  <2> QED BY <2>2, <2>4
<1> QED BY <1>2, <1>3, <1>4, BackupSteps

LEMMA InitSuccess == Init => SuccessInv
  BY DEF Init, SuccessInv

\* What a clean-up leaves is there before it as well.
LEMMA KeptNow ==
  ASSUME [Next]_vars, NewRequests # {}, Kept' # {}
  PROVE  \E b \in backups : b.phase = "Completed" /\ b.id \notin requests'
<1>1. Requests
  BY RequestsMade
<1> QED BY <1>1 DEF Requests, Kept

\* If clean-ups always check for a successful backup and no result is lost,
\* they leave one: although it may be that the cache still has backups as
\* successful that are being deleted or are gone.
THEOREM SuccessKept ==
  ASSUME OperatorFinalizer, NoResultLost, AlwaysChecked
  PROVE  Spec => SuccessfulBackupKept
<1>1. KnownInv /\ RotInv /\ SpecInv => SafeCleanup
  <2> SUFFICES ASSUME KnownInv, RotInv, SpecInv, op.pc = "cleanup"
               PROVE  /\ op.dbkp.spec.check \/ op.dbkp.spec.keep = 0
                      /\ Ordered(op.dbkp.schedules)
    BY DEF SafeCleanup
  <2>1. op.dbkp.spec \in Specs
    BY DEF SpecInv
  <2>2. Ordered(op.dbkp.schedules)
    BY BusyCopy DEF Busy, InOrder
  <2> QED BY <2>1, <2>2 DEF AlwaysChecked
<1>2. TypeInv /\ BackupInv /\ SafeCleanup /\ SuccessInv /\ [Next]_vars => SuccessInv'
  BY NextSuccess
<1>3. TypeInv /\ BackupInv /\ SafeCleanup /\ SuccessInv /\ [Next]_vars
        => [NewRequests # {} /\ op.dbkp.spec.check
              => \E b \in backups : b.phase = "Completed" /\ b.id \notin requests']_vars
  BY NextSuccess, KeptNow
<1>4. Spec => []KnownInv /\ []RotInv /\ []SpecInv /\ []TypeInv /\ []BackupInv
  BY AlwaysKnown, AlwaysRot, AlwaysSpecs, AlwaysTypeInv, AlwaysBackup
<1> QED BY InitSuccess, <1>1, <1>2, <1>3, <1>4, PTL DEF Spec, SuccessfulBackupKept

NeverPeriodic == \A sp \in Specs : sp.cron = "none"

\* Without a full backup period they do so whatever is lost and wherever the
\* process dies.
THEOREM SuccessKeptWithoutPeriod ==
  ASSUME NeverPeriodic, AlwaysChecked
  PROVE  Spec => SuccessfulBackupKept
<1>1. TypeInv /\ SpecInv => SafeCleanup
  <2> SUFFICES ASSUME SpecInv, op.pc = "cleanup"
               PROVE  /\ op.dbkp.spec.check \/ op.dbkp.spec.keep = 0
                      /\ ~Periodic(op.dbkp)
    BY DEF SafeCleanup
  <2>1. op.dbkp.spec \in Specs
    BY DEF SpecInv
  <2> QED BY <2>1 DEF AlwaysChecked, NeverPeriodic, Periodic
<1>2. TypeInv /\ BackupInv /\ SafeCleanup /\ SuccessInv /\ [Next]_vars => SuccessInv'
  BY NextSuccess
<1>3. TypeInv /\ BackupInv /\ SafeCleanup /\ SuccessInv /\ [Next]_vars
        => [NewRequests # {} /\ op.dbkp.spec.check
              => \E b \in backups : b.phase = "Completed" /\ b.id \notin requests']_vars
  BY NextSuccess, KeptNow
<1>4. Spec => []SpecInv /\ []TypeInv /\ []BackupInv
  BY AlwaysSpecs, AlwaysTypeInv, AlwaysBackup
<1> QED BY InitSuccess, <1>1, <1>2, <1>3, <1>4, PTL DEF Spec, SuccessfulBackupKept

-----------------------------------------------------------------------------
(* Without a full backup period, `keep` finished backups stay.             *)

\* No two specs differ in a threshold, unless one asks for no clean-up.
OneThreshold(K) == \A sp \in Specs : sp.keep \in {0, K}

KeptFinished == {b \in backups : Finished(b) /\ b.id \notin requests}

\* Those of b's schedule that are newer than b.
NewerKept(b) == {c \in KeptFinished : c.sched = b.sched /\ c.id > b.id}

\* A backup that has finished is kept, or as many newer ones of its schedule
\* are as the threshold says; so it is also with one somebody asked to delete.
ThresholdInv(K) ==
  \A b \in backups \union cache :
    Finished(b) \/ b.id \in requests => b \in KeptFinished \/ Cardinality(NewerKept(b)) >= K

\* Sets of backups are finite, and a larger one has no fewer members.
LEMMA MoreBackups ==
  ASSUME BackupInv, NEW S \in SUBSET backups, NEW T \in SUBSET S
  PROVE  /\ IsFiniteSet(S) /\ Cardinality(S) \in Nat /\ Cardinality(T) \in Nat
         /\ Cardinality(T) <= Cardinality(S)
<1>1. IsFiniteSet(S)
  BY FS_Subset DEF BackupInv
<1>2. IsFiniteSet(T) /\ Cardinality(T) <= Cardinality(S)
  BY <1>1, FS_Subset
<1> QED BY <1>1, <1>2, FS_CardinalityType

\* A step after which what was kept is kept, as in MoreKept.
LEMMA MoreKeptFinished ==
  ASSUME NEW K \in Nat, ThresholdInv(K), BackupInv, BackupInv', KeptFinished \subseteq KeptFinished',
         \A c \in backups' \union cache' :
           Finished(c) \/ c.id \in requests'
             => \/ c \in KeptFinished'
                \/ \E b \in backups \union cache :
                     /\ b.id = c.id /\ b.sched = c.sched /\ (b \in KeptFinished => b = c)
                     /\ Finished(b) \/ b.id \in requests
  PROVE  ThresholdInv(K)'
<1> SUFFICES ASSUME NEW c \in backups' \union cache', Finished(c) \/ c.id \in requests',
                    c \notin KeptFinished'
             PROVE  Cardinality(NewerKept(c)') >= K
  BY DEF ThresholdInv, Finished, NewerKept
<1>1. PICK b \in backups \union cache :
        /\ b.id = c.id /\ b.sched = c.sched /\ (b \in KeptFinished => b = c)
        /\ Finished(b) \/ b.id \in requests
  OBVIOUS
<1>2. b \notin KeptFinished
  BY <1>1
<1>3. Cardinality(NewerKept(b)) >= K
  BY <1>1, <1>2 DEF ThresholdInv
<1>4. NewerKept(b) \subseteq NewerKept(c)' /\ NewerKept(c)' \subseteq backups'
  BY <1>1 DEF NewerKept, KeptFinished
<1>5. NewerKept(b) \subseteq backups
  BY DEF NewerKept, KeptFinished
<1>6. IsFiniteSet(NewerKept(c)') /\ Cardinality(NewerKept(c)') \in Nat
  <2>1. IsFiniteSet(backups')
    BY DEF BackupInv
  <2> QED BY <1>4, <2>1, FS_Subset, FS_CardinalityType
<1>7. Cardinality(NewerKept(b)) <= Cardinality(NewerKept(c)')
  BY <1>4, <1>6, FS_Subset
<1>8. Cardinality(NewerKept(b)) \in Nat
  BY <1>5, MoreBackups
<1> QED BY <1>3, <1>6, <1>7, <1>8

LEMMA VeleroThreshold ==
  ASSUME NEW K \in Nat, TypeInv, BackupInv, BackupInv', ThresholdInv(K), Velero
  PROVE  ThresholdInv(K)'
<1>1. backups \in SUBSET Backup
  BY DEF TypeInv, RestOK
<1>2. CASE RunSchedule
  <2>1. PICK c \in Backup :
          /\ backups' = backups \union {c} /\ UNCHANGED <<cache, requests>>
          /\ c.phase = "InProgress" /\ c.id \notin requests
    BY <1>2, RunBackup
  <2>2. KeptFinished \subseteq KeptFinished' /\ ~Finished(c)
    BY <2>1 DEF KeptFinished, Finished
  <2> QED BY <2>1, <2>2, MoreKeptFinished
<1>3. CASE FinishBackup
  <2>1. PICK b \in backups, ph \in {"Completed", "Failed"} :
          b.phase = "InProgress" /\ SetPhase(b, ph)
    BY <1>3 DEF FinishBackup
  <2> DEFINE c == [b EXCEPT !.phase = ph]
  <2>2. c.id = b.id /\ c.sched = b.sched /\ c.phase = ph
    BY <1>1 DEF Backup
  <2>3. backups' = (backups \ {b}) \union {c} /\ UNCHANGED <<cache, requests>>
    BY <1>3, <2>1 DEF SetPhase, FinishBackup
  <2> HIDE DEF c
  <2>4. KeptFinished \subseteq KeptFinished' /\ b \notin KeptFinished
    BY <2>1, <2>3 DEF KeptFinished, Finished
  <2>5. c.id \notin requests => c \in KeptFinished'
    BY <2>2, <2>3 DEF KeptFinished, Finished
  <2> QED BY <2>2, <2>3, <2>4, <2>5, MoreKeptFinished
<1>4. CASE StartDeletion
  <2>1. PICK b \in backups : b.id \in requests /\ SetPhase(b, "Deleting")
    BY <1>4 DEF StartDeletion
  <2> DEFINE c == [b EXCEPT !.phase = "Deleting"]
  <2>2. c.id = b.id /\ c.sched = b.sched
    BY <1>1 DEF Backup
  <2>3. backups' = (backups \ {b}) \union {c} /\ UNCHANGED <<cache, requests>>
    BY <1>4, <2>1 DEF SetPhase, StartDeletion
  <2> HIDE DEF c
  <2>4. KeptFinished \subseteq KeptFinished' /\ b \notin KeptFinished
    BY <2>1, <2>3 DEF KeptFinished
  <2> QED BY <2>1, <2>2, <2>3, <2>4, MoreKeptFinished
<1>5. CASE EndDeletion
  <2>1. PICK b \in backups : /\ b.phase = "Deleting"
                             /\ backups' = backups \ {b} /\ requests' = requests \ {b.id}
    BY <1>5 DEF EndDeletion
  <2>2. cache' = cache
    BY <1>5 DEF EndDeletion
  <2>3. KeptFinished \subseteq KeptFinished'
    BY <2>1 DEF KeptFinished, Finished
  <2> QED BY <2>1, <2>2, <2>3, MoreKeptFinished
<1>6. CASE RejectRequest
  <2>1. requests' \subseteq requests /\ UNCHANGED <<backups, cache>>
    BY <1>6 DEF RejectRequest
  <2>2. KeptFinished \subseteq KeptFinished'
    BY <2>1 DEF KeptFinished
  <2> QED BY <2>1, <2>2, MoreKeptFinished
<1> QED BY <1>2, <1>3, <1>4, <1>5, <1>6 DEF Velero

\* Of the newest schedule, as many finished backups as the threshold says are
\* newer than all that a clean-up asks to delete, and kept.
LEMMA NewerThanSurplus ==
  ASSUME NEW K \in Nat, TypeInv, BackupInv, ThresholdInv(K),
         op.dbkp \in Object, ~Periodic(op.dbkp), op.dbkp.spec.keep \in {0, K},
         ToRequest(op.dbkp) # {}
  PROVE  \E n : \E Z \in SUBSET KeptFinished :
           /\ Cardinality(Z) >= K
           /\ \A c \in Z : c.sched = n /\ c.id \notin ToRequest(op.dbkp)
           /\ \A b \in backups \union cache :
                b.id \in ToRequest(op.dbkp) => b.sched = n /\ \A c \in Z : b.id < c.id
<1> DEFINE s == op.dbkp.schedules
           T == ToRequest(op.dbkp)
           n == s[1].name
           own == BackupsOf(cache, n)
           X == SurplusBackups(s, K, op.dbkp.spec.check, cache)
           I == {b.id : b \in X}
<1>1. /\ backups \in SUBSET Backup /\ cache \in SUBSET Backup /\ SameSchedule
      /\ \A b \in Backup : b.id \in Nat
      /\ taken \in Nat
  BY DEF TypeInv, RestOK, BackupInv, Backup
<1>2. T = I
  <2>1. op.dbkp.spec.keep = K /\ K # 0
    BY DEF ToRequest
  <2> QED BY <2>1 DEF ToRequest
<1>3. \A b \in X : b \in own /\ Cardinality(FinishedAfter(cache, n, b)) >= K
  BY SurplusFacts
<1>4. own \subseteq cache /\ \A b \in own : b.sched = n
  BY DEF BackupsOf
<1>5. I \in SUBSET (0 .. taken)
  <2>1. \A b \in cache : b.id \in 0 .. taken
    BY <1>1 DEF SameSchedule
  <2> HIDE DEF X, own
  <2> QED BY <1>3, <1>4, <2>1
<1>6. PICK m \in I : \A i \in I : i <= m
  <2> HIDE DEF I
  <2> QED BY <1>1, <1>2, <1>5, Greatest
<1> DEFINE N == {c \in own : c.id > m /\ Finished(c)}
<1>7. Cardinality(N) >= K
  <2>1. PICK b \in X : b.id = m
    OBVIOUS
  <2>2. FinishedAfter(cache, n, b) = N
    BY <2>1 DEF FinishedAfter
  <2> QED BY <1>3, <2>2
<1>8. m \in Nat /\ \A b \in backups \union cache : b.id \in T => b.sched = n /\ b.id <= m
  <2>1. \A i \in T : \E b \in own : b.id = i
    <3> HIDE DEF X, own
    <3> QED BY <1>2, <1>3
  <2> HIDE DEF T, I, own, n
  <2> QED BY <1>1, <1>2, <1>4, <1>5, <1>6, <2>1 DEF SameSchedule
<1>9. ASSUME NEW Z \in SUBSET KeptFinished, Cardinality(Z) >= K,
             \A c \in Z : c.sched = n /\ c.id > m
      PROVE  /\ \A c \in Z : c.id \notin T
             /\ \A b \in backups \union cache :
                  b.id \in T => b.sched = n /\ \A c \in Z : b.id < c.id
  <2>1. \A c \in Z : c \in backups /\ c.id \in Nat
    BY <1>1 DEF KeptFinished
  <2> HIDE DEF T, n
  <2>2. \A b \in backups \union cache : b.id \in Nat
    BY <1>1
  <2> QED BY <1>8, <1>9, <2>1, <2>2
<1>10. CASE N \subseteq KeptFinished
  <2>1. \A c \in N : c.sched = n /\ c.id > m
    BY <1>4
  <2> HIDE DEF N, n
  <2> QED BY <1>7, <1>9, <1>10, <2>1
<1>11. CASE ~(N \subseteq KeptFinished)
  <2>1. PICK c \in N : c \notin KeptFinished
    BY <1>11
  <2>2. c \in cache /\ Finished(c) /\ c.sched = n /\ c.id > m /\ c.id \in Nat
    BY <1>1, <1>4
  <2>3. Cardinality(NewerKept(c)) >= K
    BY <2>1, <2>2 DEF ThresholdInv
  <2>4. NewerKept(c) \subseteq KeptFinished
    BY DEF NewerKept
  <2>5. \A d \in NewerKept(c) : d.sched = n /\ d.id > m
    <3>1. \A d \in NewerKept(c) : d.id \in Nat
      BY <1>1 DEF NewerKept, KeptFinished
    <3> HIDE DEF N, n
    <3> QED BY <1>8, <2>2, <3>1 DEF NewerKept
  <2> HIDE DEF N, n
  <2> QED BY <1>9, <2>3, <2>4, <2>5
<1> QED BY <1>10, <1>11

LEMMA RequestsThreshold ==
  ASSUME NEW K \in Nat, TypeInv, BackupInv, BackupInv', ThresholdInv(K), Requests,
         ~Periodic(op.dbkp), op.dbkp.spec.keep \in {0, K}
  PROVE  /\ ThresholdInv(K)'
         /\ \A i \in NewRequests :
              (\E b \in backups : b.id = i)
                => Cardinality({b \in BackupsOf(backups, ScheduleOf(i)) :
                                  Finished(b) /\ b.id \notin requests'}) >= op.dbkp.spec.keep
<1> DEFINE T == ToRequest(op.dbkp)
<1>1. /\ requests \subseteq requests' /\ requests' \subseteq requests \union T
      /\ UNCHANGED <<backups, cache>> /\ op.dbkp \in Object
  BY DEF Requests, TypeInv, OpOK
<1> HIDE DEF T
<1>2. CASE T = {}
  <2>1. requests' = requests
    BY <1>1, <1>2
  <2>2. KeptFinished' = KeptFinished /\ NewRequests = {}
    BY <1>1, <2>1 DEF KeptFinished, NewRequests
  <2> QED BY <1>1, <2>1, <2>2, MoreKeptFinished
<1>3. CASE T # {}
  <2>0. PICK n : \E Z \in SUBSET KeptFinished :
          /\ Cardinality(Z) >= K
          /\ \A c \in Z : c.sched = n /\ c.id \notin T
          /\ \A b \in backups \union cache :
               b.id \in T => b.sched = n /\ \A c \in Z : b.id < c.id
    BY <1>1, <1>3, NewerThanSurplus DEF T
  <2>1. PICK Z \in SUBSET KeptFinished :
          /\ Cardinality(Z) >= K
          /\ \A c \in Z : c.sched = n /\ c.id \notin T
          /\ \A b \in backups \union cache :
               b.id \in T => b.sched = n /\ \A c \in Z : b.id < c.id
    BY <2>0
  <2>2. Z \subseteq KeptFinished' /\ Z \subseteq backups
    BY <1>1, <2>1 DEF KeptFinished
  <2>3. ASSUME NEW S \in SUBSET backups, Z \subseteq S
        PROVE  Cardinality(S) >= K
    <3>1. Cardinality(Z) <= Cardinality(S) /\ Cardinality(Z) \in Nat /\ Cardinality(S) \in Nat
      BY <2>2, <2>3, MoreBackups
    <3> QED BY <2>1, <3>1
  <2>4. ASSUME NEW b \in backups \union cache, Finished(b) \/ b.id \in requests',
               b \notin KeptFinished'
        PROVE  Cardinality(NewerKept(b)') >= K
    <3>1. NewerKept(b)' \in SUBSET backups
      BY <1>1 DEF NewerKept, KeptFinished
    <3>2. ASSUME NEW d \in backups \union cache, d.id \in T, d.sched = b.sched,
                 d = b \/ d.id > b.id
          PROVE  Z \subseteq NewerKept(b)'
      <4>1. \A c \in backups \union cache : c.id \in Nat
        BY DEF TypeInv, RestOK, Backup
      <4>2. \A c \in Z : c.sched = b.sched /\ c.id > b.id
        BY <2>1, <2>2, <3>2, <4>1
      <4> QED BY <2>2, <4>2 DEF NewerKept
    <3>3. CASE b.id \in T
      <4>1. Z \subseteq NewerKept(b)'
        BY <3>2, <3>3
      <4> QED BY <2>3, <3>1, <4>1
    <3>4. CASE b.id \notin T
      <4>1. (Finished(b) \/ b.id \in requests) /\ b \notin KeptFinished
        BY <1>1, <2>4, <3>4 DEF KeptFinished
      <4>2. Cardinality(NewerKept(b)) >= K
        BY <4>1 DEF ThresholdInv
      <4>3. CASE \E d \in NewerKept(b) : d.id \in T
        <5>1. PICK d \in NewerKept(b) : d.id \in T
          BY <4>3
        <5>2. d \in backups /\ d.sched = b.sched /\ d.id > b.id
          BY DEF NewerKept, KeptFinished
        <5>3. Z \subseteq NewerKept(b)'
          BY <3>2, <5>1, <5>2
        <5> QED BY <2>3, <3>1, <5>3
      <4>4. CASE \A d \in NewerKept(b) : d.id \notin T
        <5>1. NewerKept(b) \subseteq NewerKept(b)'
          BY <1>1, <4>4 DEF NewerKept, KeptFinished
        <5>2. Cardinality(NewerKept(b)) <= Cardinality(NewerKept(b)')
                /\ Cardinality(NewerKept(b)) \in Nat /\ Cardinality(NewerKept(b)') \in Nat
          BY <3>1, <5>1, MoreBackups
        <5> QED BY <4>2, <5>2
      <4> QED BY <4>3, <4>4
    <3> QED BY <3>3, <3>4
  <2>5. ThresholdInv(K)'
    BY <1>1, <2>4 DEF ThresholdInv, Finished, NewerKept
  <2>6. ASSUME NEW i \in NewRequests, NEW b \in backups, b.id = i
        PROVE  Cardinality({c \in BackupsOf(backups, ScheduleOf(i)) :
                              Finished(c) /\ c.id \notin requests'}) >= op.dbkp.spec.keep
    <3> DEFINE c == CHOOSE c \in backups : c.id = i
               S == {d \in BackupsOf(backups, ScheduleOf(i)) :
                       Finished(d) /\ d.id \notin requests'}
    <3>1. c \in backups /\ c.id = i
      BY <2>6
    <3>2. i \in T
      BY <1>1 DEF NewRequests
    <3>3. ScheduleOf(i) = n
      BY <2>1, <3>1, <3>2 DEF ScheduleOf
    <3>4. Z \subseteq S
      BY <2>1, <2>2, <3>3, <1>1 DEF KeptFinished, BackupsOf
    <3>5. S \in SUBSET backups
      BY DEF BackupsOf
    <3> HIDE DEF S
    <3>6. Cardinality(S) >= K /\ Cardinality(S) \in Nat
      BY <2>3, <3>4, <3>5, MoreBackups
    <3>7. Cardinality(S) >= op.dbkp.spec.keep
      BY <3>6
    <3> QED BY <3>7 DEF S
  <2> QED BY <2>5, <2>6
<1> QED BY <1>2, <1>3

LEMMA NextThreshold ==
  ASSUME NEW K \in Nat, OneThreshold(K), NeverPeriodic,
         TypeInv, BackupInv, SpecInv, ThresholdInv(K), [Next]_vars
  PROVE  /\ ThresholdInv(K)'
         /\ \A i \in NewRequests :
              ~Periodic(op.dbkp) /\ (\E b \in backups : b.id = i)
                => Cardinality({b \in BackupsOf(backups, ScheduleOf(i)) :
                                  Finished(b) /\ b.id \notin requests'}) >= op.dbkp.spec.keep
<1>1. BackupInv'
  BY NextBackup
<1>2. CASE Requests
  <2>1. op.dbkp.spec \in Specs
    BY <1>2 DEF SpecInv, Requests
  <2>2. ~Periodic(op.dbkp) /\ op.dbkp.spec.keep \in {0, K}
    BY <2>1 DEF OneThreshold, NeverPeriodic, Periodic
  <2> QED BY <1>1, <1>2, <2>2, RequestsThreshold
<1>3. CASE ~Requests
  <2>1. NewRequests = {}
    BY <1>3, RequestsMade
  <2>2. CASE Velero
    BY <1>1, <2>1, <2>2, VeleroThreshold
  <2>3. CASE CatchesUp \/ UNCHANGED <<backups, cache, taken, requests>>
    <3>1. cache' \subseteq backups \union cache /\ UNCHANGED <<backups, requests>>
      BY <2>3 DEF CatchesUp
    <3>2. KeptFinished' = KeptFinished
      BY <3>1 DEF KeptFinished
    <3> QED BY <1>1, <2>1, <3>1, <3>2, MoreKeptFinished
  <2> QED BY <1>3, <2>2, <2>3, BackupSteps
<1> QED BY <1>2, <1>3

\* Without a full backup period a clean-up leaves as many finished backups of
\* the schedule as the threshold says, whatever is lost, though the cache lags
\* behind by up to a tick, and wherever the process dies.
THEOREM FinishedKept ==
  ASSUME NEW K \in Nat, OneThreshold(K), NeverPeriodic
  PROVE  Spec => FinishedBackupsKept
<1>1. Init => ThresholdInv(K)
  BY DEF Init, ThresholdInv
<1>2. TypeInv /\ BackupInv /\ SpecInv /\ ThresholdInv(K) /\ [Next]_vars => ThresholdInv(K)'
  BY NextThreshold
<1>3. TypeInv /\ BackupInv /\ SpecInv /\ ThresholdInv(K) /\ [Next]_vars
        => [\A i \in NewRequests :
              ~Periodic(op.dbkp) /\ (\E b \in backups : b.id = i)
                => Cardinality({b \in BackupsOf(backups, ScheduleOf(i)) :
                                  Finished(b) /\ b.id \notin requests'})
                     >= op.dbkp.spec.keep]_vars
  BY NextThreshold
<1>4. Spec => []SpecInv /\ []TypeInv /\ []BackupInv
  BY AlwaysSpecs, AlwaysTypeInv, AlwaysBackup
<1> QED BY <1>1, <1>2, <1>3, <1>4, PTL DEF Spec, FinishedBackupsKept

-----------------------------------------------------------------------------
(* Erased schedules.                                                       *)

\* A reconciliation is over before the clock ticks.
QuickCalls == ~SlowCalls

\* The cache C has every backup of n that the server has in B.
Seen(n, B, C) == \A b \in BackupsOf(B, n) : \E c \in C : c.id = b.id

\* At time t an Erased schedule has no backup, and those of a Deleted one are
\* in the cache as soon as the tick in which it was replaced is over.
Clean(s, B, C, t) ==
  /\ \A k \in DOMAIN s : s[k].status = "Erased" => BackupsOf(B, s[k].name) = {}
  /\ \A k \in DOMAIN s \ {1} :
       s[k].status = "Deleted" /\ s[k - 1].created < t => Seen(s[k].name, B, C)

ErasedInv ==
  /\ Stored => Clean(obj.schedules, backups, cache, now)
  /\ op.pc # "idle" => Clean(op.dbkp.schedules, backups, cache, now)
  /\ op.pc = "deleteOld" => op.dbkp.schedules[1].created = now

\* Lists that are the same but for a place, and a list with fewer entries that
\* say Deleted or Erased.
LEMMA AddEmptyClean ==
  ASSUME NEW s \in Seq(Entry), Ordered(s), NEW t \in Nat, UpTo(s, t),
         s = <<>> \/ (~HasQueued(s) /\ s[1].created < t),
         NEW B, NEW C, Clean(s, B, C, t)
  PROVE  Clean(AddEmpty(s, t), B, C, t)
<1> DEFINE a == AddEmpty(s, t)
<1>1. /\ a \in Seq(Entry)
      /\ \A k \in DOMAIN a : Waiting(a[k]) \/ (k \in DOMAIN s /\ a[k] = s[k])
      /\ \A k \in DOMAIN s : k \in DOMAIN a /\ a[k] = s[k]
  BY AddEmptyOrdered
<1> HIDE DEF a
<1>2. SUFFICES ASSUME NEW k \in DOMAIN a, a[k].status \in {"Deleted", "Erased"}
               PROVE  /\ a[k].status = "Erased" => BackupsOf(B, a[k].name) = {}
                      /\ a[k].status = "Deleted" /\ k # 1 /\ a[k - 1].created < t
                           => Seen(a[k].name, B, C)
  BY DEF Clean, a
<1>3. k \in DOMAIN s /\ a[k] = s[k]
  BY <1>1, <1>2 DEF Waiting
<1>4. k # 1 => k - 1 \in DOMAIN s
  BY <1>3
<1> QED BY <1>1, <1>3, <1>4 DEF Clean

\* The schedule that moves to the second place is replaced now.
LEMMA UpdateEmptyClean ==
  ASSUME NEW s \in Seq(Entry), Ordered(s), HasQueued(s), NEW t \in Nat \ {0}, UpTo(s, t),
         NEW B, NEW C, Clean(s, B, C, t)
  PROVE  Clean(UpdateEmpty(s, t), B, C, t)
<1> DEFINE u == UpdateEmpty(s, t)
<1>1. /\ u \in Seq(Entry)
      /\ 1 \in DOMAIN u /\ u[1].status = "Active" /\ u[1].created = t
      /\ \A k \in DOMAIN u \ {1} : k - 1 \in DOMAIN s /\ u[k] = s[k - 1]
  BY UpdateEmptyOrdered
<1> HIDE DEF u
<1>2. ASSUME NEW k \in DOMAIN u, u[k].status = "Erased"
      PROVE  BackupsOf(B, u[k].name) = {}
  <2>1. k # 1
    BY <1>1, <1>2
  <2> QED BY <1>1, <1>2, <2>1 DEF Clean
<1>3. ASSUME NEW k \in DOMAIN u \ {1}, u[k].status = "Deleted", u[k - 1].created < t
      PROVE  Seen(u[k].name, B, C)
  <2>1. k # 2
    BY <1>1, <1>3
  <2>2. k - 1 \in DOMAIN s /\ k - 1 # 1 /\ k - 1 \in DOMAIN u \ {1}
    BY <1>1, <1>3, <2>1
  <2>3. u[k] = s[k - 1] /\ u[k - 1] = s[(k - 1) - 1]
    BY <1>1, <1>3, <2>2
  <2> QED BY <1>3, <2>2, <2>3 DEF Clean
<1> QED BY <1>2, <1>3 DEF Clean, u

\* So is the second one when it is marked.
LEMMA MarkClean ==
  ASSUME NEW s \in Seq(Entry), Ordered(s), ~HasQueued(s), HasPrevious(s), NEW t \in Nat,
         UpTo(s, t), s[1].created = t, NEW B, NEW C, Clean(s, B, C, t)
  PROVE  Clean(MarkPreviousDeleted(s), B, C, t)
<1> DEFINE m == MarkPreviousDeleted(s)
<1>1. /\ m \in Seq(Entry) /\ 2 \in DOMAIN s
      /\ \A k \in DOMAIN m : /\ k \in DOMAIN s
                             /\ m[k].name = s[k].name /\ m[k].created = s[k].created
      /\ \A k \in DOMAIN m \ {2} : m[k].status = s[k].status
      /\ m[2].status # "Erased"
  <2>1. /\ m \in Seq(Entry) /\ 2 \in DOMAIN s
        /\ \A k \in DOMAIN m : /\ k \in DOMAIN s
                               /\ m[k].name = s[k].name /\ m[k].created = s[k].created
        /\ \A k \in DOMAIN m \ {2} : m[k].status = s[k].status
    BY MarkOrdered
  <2>2. m[2].status = "Deleted"
    BY <2>1, EntryNumbers DEF MarkPreviousDeleted, Entry
  <2> QED BY <2>1, <2>2
<1> HIDE DEF m
<1>2. ASSUME NEW k \in DOMAIN m, m[k].status = "Erased"
      PROVE  BackupsOf(B, m[k].name) = {}
  BY <1>1, <1>2 DEF Clean
<1>3. ASSUME NEW k \in DOMAIN m \ {1}, m[k].status = "Deleted", m[k - 1].created < t
      PROVE  Seen(m[k].name, B, C)
  <2>1. k - 1 \in DOMAIN m /\ m[k - 1].created = s[k - 1].created
    BY <1>1, <1>3
  <2>2. k # 2
    BY <1>3, <2>1
  <2> QED BY <1>1, <1>3, <2>1, <2>2 DEF Clean
<1> QED BY <1>2, <1>3 DEF Clean, m

\* An entry that becomes Erased is at least the third: two schedules were
\* created after it, the second of them in a later tick.
LEMMA EraseClean ==
  ASSUME NEW s \in Seq(Entry), Ordered(s), NEW t \in Nat, UpTo(s, t),
         NEW keep \in Nat \ {0}, NEW check, NEW B, NEW C, Clean(s, B, C, t),
         \A b \in B, c \in C : b.id = c.id => b.sched = c.sched
  PROVE  Clean(Erase(s, keep, check, C), B, C, t)
<1> DEFINE m == Erase(s, keep, check, C)
<1>1. /\ m \in Seq(Entry) /\ DOMAIN m = DOMAIN s
      /\ \A k \in DOMAIN m : m[k].name = s[k].name /\ m[k].created = s[k].created
      /\ \A k \in DOMAIN m : \/ m[k] = s[k]
                             \/ /\ k \in Expired(s, keep, check, C)
                                /\ BackupsOf(C, s[k].name) = {}
                                /\ m[k].status # "Deleted"
  <2>1. /\ m \in Seq(Entry)
        /\ \A k \in DOMAIN m : m[k].name = s[k].name /\ m[k].created = s[k].created
    BY EraseOrdered
  <2>2. \A k \in DOMAIN s : [s[k] EXCEPT !.status = "Erased"].status = "Erased"
    BY EntryNumbers DEF Entry
  <2> QED BY <2>1, <2>2 DEF Erase
<1> HIDE DEF m
<1>2. ASSUME NEW k \in Expired(s, keep, check, C), BackupsOf(C, s[k].name) = {}
      PROVE  BackupsOf(B, s[k].name) = {}
  <2>1. /\ CleansUp(s, keep, check, C) /\ k \in DOMAIN s /\ s[k].status = "Deleted"
        /\ k > Required(s, keep, check, C) + 1
    BY <1>2 DEF Expired
  <2>2. DOMAIN s = 1 .. Len(s) /\ Len(s) \in Nat
    OBVIOUS
  <2>3. k > 2
    BY <2>1, <2>2, RequiredAtLeast
  <2>4. k - 1 \in DOMAIN s /\ k - 2 \in DOMAIN s /\ k - 2 < k - 1 /\ k - 1 # Len(s)
    BY <2>1, <2>2, <2>3
  <2>5. s[k - 1].created < s[k - 2].name
    BY <2>4 DEF Ordered, Follows
  <2>6. s[k - 1].created < t
    BY <2>4, <2>5, EntryNumbers DEF UpTo
  <2>7. Seen(s[k].name, B, C)
    BY <2>1, <2>3, <2>6 DEF Clean
  <2> QED BY <1>2, <2>7 DEF Seen, BackupsOf
<1>3. ASSUME NEW k \in DOMAIN m, m[k].status = "Erased"
      PROVE  BackupsOf(B, m[k].name) = {}
  BY <1>1, <1>2, <1>3 DEF Clean
<1>4. ASSUME NEW k \in DOMAIN m \ {1}, m[k].status = "Deleted", m[k - 1].created < t
      PROVE  Seen(m[k].name, B, C)
  <2>1. k - 1 \in DOMAIN m /\ m[k] = s[k]
    BY <1>1, <1>4
  <2> QED BY <1>1, <1>4, <2>1 DEF Clean
<1> QED BY <1>3, <1>4 DEF Clean, m

\* When time passes, the cache is what is at the server.
LEMMA TimeSteps ==
  ASSUME [Next]_vars
  PROVE  now' = now \/ Tick
<1>1. CASE User \/ Reconcile
  BY <1>1 DEF User, UserCreate, UserEdit, UserDelete, OtherFinalizerRemoved, Reconcile,
              ReconcileQueued, ReconcileInvalidCron, ReconcileNotDue, ReconcileReserve,
              ReconcileOnce, ReconcileMade, ReconcileDeleting, Begin
<1>2. CASE Call
  BY <1>2 DEF Call, CreateSchedule, CreateScheduleExists, CreateScheduleFails, DeleteOld,
              DeleteOldFails, CreateBackup, CreateBackupFails, Cleanup, CleanupSomeFail, Finalize,
              FinalizeFails, Patch, PatchRejected, PatchFails, DropPatch
<1>3. CASE Velero
  BY <1>3 DEF Velero, RunSchedule, FinishBackup, StartDeletion, EndDeletion, RejectRequest
<1>4. CASE Sync \/ Skip \/ Crash \/ SyncCache \/ UNCHANGED vars
  BY <1>4 DEF Sync, Skip, Crash, SyncCache, vars
<1> QED BY <1>1, <1>2, <1>3, <1>4 DEF Next

\* Every backup with the name of a schedule that is gone was there before, and
\* what the cache has of them it keeps.
LEMMA FewerClean ==
  ASSUME NEW s \in Seq(Entry), NEW B, NEW C, NEW t, NEW v, Clean(s, B, C, t), Gone(s, v),
         NEW D, NEW E,
         \A d \in D : d.sched \in v \/ \E b \in B : b.id = d.id /\ b.sched = d.sched,
         \A c \in C : \E e \in E : e.id = c.id
  PROVE  Clean(s, D, E, t)
<1>1. ASSUME NEW k \in DOMAIN s, s[k].status \in {"Deleted", "Erased"},
             NEW d \in BackupsOf(D, s[k].name)
      PROVE  \E b \in BackupsOf(B, s[k].name) : b.id = d.id
  BY <1>1 DEF Gone, BackupsOf
<1>2. ASSUME NEW k \in DOMAIN s, s[k].status = "Erased"
      PROVE  BackupsOf(D, s[k].name) = {}
  <2>1. BackupsOf(B, s[k].name) = {}
    BY <1>2 DEF Clean
  <2> QED BY <1>1, <1>2, <2>1
<1>3. ASSUME NEW k \in DOMAIN s \ {1}, s[k].status = "Deleted", s[k - 1].created < t
      PROVE  Seen(s[k].name, D, E)
  <2>1. Seen(s[k].name, B, C)
    BY <1>3 DEF Clean
  <2>2. SUFFICES ASSUME NEW d \in BackupsOf(D, s[k].name) PROVE \E e \in E : e.id = d.id
    BY DEF Seen
  <2>3. PICK b \in BackupsOf(B, s[k].name) : b.id = d.id
    BY <1>1, <1>3
  <2> QED BY <2>1, <2>3 DEF Seen
<1> QED BY <1>2, <1>3 DEF Clean

\* A cache that has everything has seen everything.
LEMMA SyncedClean ==
  ASSUME NEW s \in Seq(Entry), NEW B, NEW C, NEW t, NEW u, Clean(s, B, C, t)
  PROVE  Clean(s, B, B, u)
  BY DEF Clean, Seen, BackupsOf

\* What a step does to the backups leaves a list clean.
LEMMA CleanKept ==
  ASSUME TypeInv, BackupInv, [Next]_vars,
         NEW s \in Seq(Entry), Gone(s, velero), Clean(s, backups, cache, now)
  PROVE  Clean(s, backups', cache', now')
<1>1. CASE Velero
  <2>1. cache' = cache /\ now' = now /\ \A c \in cache : \E e \in cache : e.id = c.id
    BY <1>1 DEF Velero, RunSchedule, FinishBackup, StartDeletion, EndDeletion, RejectRequest
  <2>2. \A d \in backups' :
          d.sched \in velero \/ \E b \in backups : b.id = d.id /\ b.sched = d.sched
    <3>1. CASE RunSchedule
      BY <3>1, RunBackup
    <3>2. CASE FinishBackup \/ StartDeletion
      <4>1. PICK b \in backups : \E p \in BackupPhase : SetPhase(b, p)
        BY <3>2, Zenon DEF FinishBackup, StartDeletion, BackupPhase
      <4>2. b \in Backup
        BY DEF TypeInv, RestOK
      <4>3. PICK p \in BackupPhase : SetPhase(b, p)
        BY <4>1
      <4>4. [b EXCEPT !.phase = p].id = b.id /\ [b EXCEPT !.phase = p].sched = b.sched
        BY <4>2 DEF Backup
      <4> QED BY <4>3, <4>4 DEF SetPhase
    <3>3. CASE EndDeletion \/ RejectRequest
      BY <3>3 DEF EndDeletion, RejectRequest
    <3> QED BY <1>1, <3>1, <3>2, <3>3 DEF Velero
  <2> QED BY <2>1, <2>2, FewerClean
<1>2. CASE Tick \/ CatchesUp
  <2>1. backups' = backups /\ cache' = backups
    BY <1>2 DEF Tick, CatchesUp, server
  <2> QED BY <2>1, SyncedClean
<1>3. CASE now' = now /\ (Requests \/ UNCHANGED <<backups, cache, taken, requests>>)
  BY <1>3 DEF Requests
<1> QED BY <1>1, <1>2, <1>3, BackupSteps, TimeSteps

\* Erasing what the copy's clean-up erases, or nothing.
LEMMA CleanedUpClean ==
  ASSUME KnownInv, RotInv, BackupInv, op.pc = "cleanup",
         Clean(op.dbkp.schedules, backups, cache, now)
  PROVE  CleanedUp(op.dbkp) \in Object /\ Clean(CleanedUp(op.dbkp).schedules, backups, cache, now)
<1> DEFINE o == op.dbkp
           m == Erase(o.schedules, o.spec.keep, o.spec.check, cache)
           e == [o EXCEPT !.schedules = m]
<1>1. /\ o \in Object /\ o.schedules \in Seq(Entry) /\ InOrder(o.schedules, now, velero)
      /\ now \in Nat /\ cache \in SUBSET Backup
  BY BusyCopy DEF Busy, KnownInv, TypeInv, RestOK
<1>2. o.spec.keep \in Nat
  BY <1>1 DEF Object, SpecType
<1>3. CleanedUp(o) \in Object
  BY <1>1, CleanupEffect
<1>4. CASE o.spec.keep # 0 /\ Periodic(o)
  <2>1. Clean(m, backups, cache, now)
    BY <1>1, <1>2, <1>4, EraseClean DEF InOrder, BackupInv, SameSchedule
  <2>2. m \in Seq(Entry)
    BY <1>1, EraseOrdered DEF InOrder
  <2>3. CleanedUp(o) = e
    BY <1>4 DEF CleanedUp
  <2> HIDE DEF m
  <2>4. e.schedules = m
    BY <1>1, <2>2, ObjectUpdates
  <2> QED BY <1>3, <2>1, <2>3, <2>4
<1>5. CASE ~(o.spec.keep # 0 /\ Periodic(o))
  BY <1>3, <1>5 DEF CleanedUp
<1> QED BY <1>4, <1>5

LEMMA NextErased ==
  ASSUME KnownInv, RotInv, BackupInv, ErasedInv, [Next]_vars, NoResultLost, QuickCalls
  PROVE  ErasedInv'
<1>1. /\ now \in Nat \ {0}
      /\ Stored => /\ obj \in Object /\ obj.schedules \in Seq(Entry)
                   /\ InOrder(obj.schedules, now, velero)
      /\ op.pc # "idle" => /\ op.dbkp \in Object /\ op.dbkp.schedules \in Seq(Entry)
                           /\ InOrder(op.dbkp.schedules, now, velero)
  BY KnownLists DEF KnownInv, RotInv, StoredList, CopiedList
<1>2. Stored => Clean(obj.schedules, backups', cache', now')
  BY <1>1, CleanKept DEF KnownInv, InOrder, ErasedInv
<1>3. op.pc # "idle" => Clean(op.dbkp.schedules, backups', cache', now')
  BY <1>1, CleanKept DEF KnownInv, InOrder, ErasedInv
<1>4. Stored' => Clean(obj.schedules, backups, cache, now)'
  <2>1. Clean(<<>>, backups', cache', now')
    BY DEF Clean
  <2>2. Stored' => Clean(obj'.schedules, backups', cache', now')
    BY <1>2, <1>3, <2>1, StoredSteps DEF KnownInv
  <2> QED BY <2>2
<1>5. ASSUME op'.pc # "idle"
      PROVE  /\ Clean(op'.dbkp.schedules, backups', cache', now')
             /\ op'.pc = "deleteOld" => op'.dbkp.schedules[1].created = now'
  <2>1. CASE op' = op
    <3>1. now' = now
      BY <1>5, <2>1, TimeSteps DEF Tick, QuickCalls
    <3> QED BY <1>3, <1>5, <2>1, <3>1 DEF ErasedInv
  <2>2. CASE op'.pc # "deleteOld" /\ Stored /\ op'.dbkp.schedules = obj.schedules
    BY <1>2, <2>2
  <2>3. CASE /\ op'.pc # "deleteOld" /\ op.pc # "idle"
             /\ op'.dbkp.schedules = op.dbkp.schedules
    BY <1>3, <2>3
  <2>4. CASE ReconcileReserve
    <3> DEFINE s == obj.schedules
               a == AddEmpty(Started(obj).schedules, now)
               o == [Started(obj) EXCEPT !.schedules = a]
    <3>1. /\ Stored /\ Begin("cleanup", o, TRUE) /\ now' = now
          /\ s = <<>> \/ (~HasQueued(s) /\ Due(obj))
      BY <2>4 DEF ReconcileReserve, Executes, Begin
    <3>2. Started(obj) \in Object /\ a = AddEmpty(s, now)
      BY <1>1, <3>1, StartedObject
    <3>3. s # <<>> => ~HasQueued(s) /\ s[1].created < now
      BY <1>1, <3>1, DueLater
    <3>4. Clean(a, backups', cache', now')
      BY <1>1, <1>2, <3>1, <3>2, <3>3, AddEmptyClean DEF InOrder
    <3>5. a \in Seq(Entry)
      BY <1>1, <3>1, <3>2, <3>3, AddEmptyOrdered DEF InOrder
    <3> HIDE DEF a
    <3>6. o.schedules = a
      BY ONLY <3>2, <3>5, ObjectUpdates
    <3> HIDE DEF o
    <3>7. op'.pc = "cleanup" /\ op'.dbkp = o
      BY <3>1 DEF Begin
    <3> QED BY <3>4, <3>6, <3>7
  <2>5. CASE CreateSchedule
    <3> DEFINE s == op.dbkp.schedules
               u == UpdateEmpty(s, now)
               o == [op.dbkp EXCEPT !.schedules = u]
               pc == IF Periodic(op.dbkp) /\ HasPrevious(u) THEN "deleteOld" ELSE "cleanup"
    <3>1. op.pc = "create" /\ Continue(pc, o) /\ now' = now /\ OpOK /\ HasQueued(s)
      BY <2>5 DEF CreateSchedule, Created, KnownInv, TypeInv, SliceInv
    <3>2. u \in Seq(Entry) /\ u[1].created = now
      BY <1>1, <3>1, UpdateEmptyOrdered DEF InOrder
    <3>3. Clean(u, backups', cache', now')
      BY <1>1, <1>3, <3>1, UpdateEmptyClean DEF InOrder
    <3>4. pc \in {"deleteOld", "cleanup"} /\ (pc = "deleteOld" => HasPrevious(u))
      OBVIOUS
    <3> HIDE DEF u, pc
    <3>5. o \in Object /\ o.schedules = u
      <4>1. op.dbkp \in Object /\ u \in Seq(Entry)
        BY <1>1, <3>1, <3>2
      <4> QED BY ONLY <4>1, ObjectUpdates
    <3> HIDE DEF o
    <3>6. op'.dbkp = o
      BY <3>1, <3>4, <3>5, ContinueOpOK
    <3> QED BY <3>1, <3>2, <3>3, <3>5, <3>6
  <2>6. CASE DeleteOld
    <3> DEFINE s == op.dbkp.schedules
               m == MarkPreviousDeleted(s)
               o == [op.dbkp EXCEPT !.schedules = m]
    <3>1. /\ op.pc = "deleteOld" /\ Continue("cleanup", o) /\ now' = now /\ OpOK
          /\ s[1].created = now /\ ~HasQueued(s) /\ HasPrevious(s)
      BY <2>6 DEF DeleteOld, KnownInv, TypeInv, ErasedInv, RotInv, HandsOver, OpOK
    <3>2. m \in Seq(Entry)
      BY <1>1, <3>1, MarkOrdered DEF InOrder
    <3>3. Clean(m, backups', cache', now')
      BY <1>1, <1>3, <3>1, MarkClean DEF InOrder
    <3> HIDE DEF m
    <3>4. o \in Object /\ o.schedules = m
      <4>1. op.dbkp \in Object /\ m \in Seq(Entry)
        BY <1>1, <3>1, <3>2
      <4> QED BY ONLY <4>1, ObjectUpdates
    <3> HIDE DEF o
    <3>5. op'.dbkp = o /\ op'.pc = "cleanup"
      BY <3>1, <3>4, ContinueOpOK
    <3> QED BY <3>3, <3>4, <3>5
  <2>7. CASE /\ op.pc = "cleanup" /\ Continue("patch", CleanedUp(op.dbkp))
             /\ UNCHANGED <<backups, cache, now>>
    <3> DEFINE c == CleanedUp(op.dbkp)
    <3>1. /\ op.pc # "idle" /\ OpOK
          /\ c \in Object /\ Clean(c.schedules, backups, cache, now)
      BY <2>7, CleanedUpClean DEF ErasedInv, KnownInv, TypeInv
    <3> HIDE DEF c
    <3>2. op'.dbkp = c /\ op'.pc = "patch"
      BY <2>7, <3>1, ContinueOpOK DEF c
    <3> QED BY <2>7, <3>1, <3>2
  <2>8. CASE CreateScheduleExists
    BY <2>8, NotThereYet DEF CreateScheduleExists
  <2> QED BY <1>5, <2>1, <2>2, <2>3, <2>4, <2>5, <2>6, <2>7, <2>8, CopySteps DEF KnownInv
<1>6. op'.pc # "idle" => Clean(op.dbkp.schedules, backups, cache, now)'
  BY <1>5
<1>7. op'.pc = "deleteOld" => op'.dbkp.schedules[1].created = now'
  BY <1>5
<1> QED BY <1>4, <1>6, <1>7 DEF ErasedInv

\* When an entry says Erased, Velero has no backup of that schedule left, and
\* there will be none: the clean-up looked for them in the cache, but only in
\* a later tick than the one in which the schedule was deleted.  This needs
\* reconciliations shorter than a tick, or the deletion may come a tick after
\* the creation of the schedule that replaces it.
THEOREM ErasedForGood ==
  ASSUME OperatorFinalizer, NoResultLost, QuickCalls
  PROVE  Spec => []ErasedMeansNoBackups
<1>1. Init => ErasedInv
  BY DEF Init, ErasedInv, Stored, IdleOp
<1>2. KnownInv /\ RotInv /\ BackupInv /\ ErasedInv /\ [Next]_vars => ErasedInv'
  BY NextErased
<1>3. ErasedInv => ErasedMeansNoBackups
  BY DEF ErasedInv, Clean, ErasedMeansNoBackups
<1>4. Spec => []KnownInv /\ []RotInv /\ []BackupInv
  BY AlwaysKnown, AlwaysRot, AlwaysBackup
<1> QED BY <1>1, <1>2, <1>3, <1>4, PTL DEF Spec

=============================================================================
