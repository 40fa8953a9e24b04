-------------------------- MODULE DMaaSBackupProofs --------------------------
(***************************************************************************)
(* Proofs about DMaaSBackup for every value of its constants: type          *)
(* correctness, that no Velero schedule is lost track of, that the          *)
(* clean-up's slice is inside the list, that Completed means backed up and  *)
(* when it means named, that an object without a full backup period has one *)
(* schedule only, that the lists stay sorted, and that the key is queued as  *)
(* the work queue would have it.                                           *)
(***************************************************************************)
EXTENDS DMaaSBackupProperties, ScheduleListProofs

-----------------------------------------------------------------------------
(* The operators of the reconciliation.                                    *)

\* Writing the fields a reconciliation writes gives an object.
LEMMA ObjectUpdates ==
  ASSUME NEW o \in Object
  PROVE  /\ \A s \in Seq(Entry) :
              LET u == [o EXCEPT !.schedules = s]
              IN  u \in Object /\ u.schedules = s /\ u.finalizers = o.finalizers
         /\ LET u == [o EXCEPT !.reason = TRUE]
            IN  u \in Object /\ u.schedules = o.schedules /\ u.finalizers = o.finalizers
         /\ \A f \in SUBSET Finalizer :
              LET u == [o EXCEPT !.finalizers = f]
              IN  u \in Object /\ u.schedules = o.schedules /\ u.finalizers = f
         /\ \A sp \in SpecType :
              LET u == [o EXCEPT !.spec = sp]
              IN  u \in Object /\ u.schedules = o.schedules /\ u.finalizers = o.finalizers
                    /\ u.deleting = o.deleting
         /\ LET u == [o EXCEPT !.deleting = TRUE]
            IN  u \in Object /\ u.schedules = o.schedules /\ u.finalizers = o.finalizers
                  /\ u.deleting
         /\ \A nm \in {"nil", "named", "empty"} :
              LET u == [o EXCEPT !.phase = "Completed", !.backupName = nm]
              IN  u \in Object /\ u.schedules = o.schedules /\ u.finalizers = o.finalizers
  BY DEF Object

LEMMA StartedObject ==
  ASSUME NEW o \in Object
  PROVE  /\ Started(o) \in Object
         /\ Started(o).schedules = o.schedules /\ Started(o).finalizers = o.finalizers
  BY DEF Started, Object

\* A patch of an object is an object; Merged takes one value or the other.
LEMMA PatchedObject ==
  ASSUME op.orig \in Object, op.dbkp \in Object, NEW o \in Object
  PROVE  /\ Patched(o) \in Object
         /\ Patched(o).deleting = o.deleting
         /\ Patched(o).schedules = Merged(o.schedules, op.orig.schedules, op.dbkp.schedules)
         /\ Patched(o).finalizers = Merged(o.finalizers, op.orig.finalizers, op.dbkp.finalizers)
<1>1. \A cur, was, is : Merged(cur, was, is) \in {cur, is}
  BY DEF Merged
<1>2. /\ Merged(o.finalizers, op.orig.finalizers, op.dbkp.finalizers) \in SUBSET Finalizer
      /\ Merged(o.phase, op.orig.phase, op.dbkp.phase)
           \in {"", "InProgress", "Completed", "Paused"}
      /\ Merged(o.reason, op.orig.reason, op.dbkp.reason) \in BOOLEAN
      /\ Merged(o.schedules, op.orig.schedules, op.dbkp.schedules) \in Seq(Entry)
      /\ Merged(o.backupName, op.orig.backupName, op.dbkp.backupName)
           \in {"nil", "named", "empty"}
  BY DEF Merged, Object
<1> QED BY <1>2 DEF Patched, Object

LEMMA SettledObject ==
  ASSUME NEW o \in Object
  PROVE  Settle(o) \in {o, NoObject} /\ Settle(o) \in Object \union {NoObject}
  BY DEF Settle

\* A clean-up requests backups the cache knows, and keeps every schedule.
LEMMA CleanupEffect ==
  ASSUME NEW o \in Object, cache \in SUBSET Backup
  PROVE  /\ ToRequest(o) \subseteq Nat
         /\ CleanedUp(o) \in Object
         /\ Names(CleanedUp(o).schedules) = Names(o.schedules)
         /\ CleanedUp(o).finalizers = o.finalizers
<1> DEFINE s == o.schedules
           k == o.spec.keep
           c == o.spec.check
<1>1. s \in Seq(Entry)
  BY DEF Object
<1>2. ExpiredBackups(s, k, c, cache) \subseteq cache
  BY DEF ExpiredBackups, BackupsOf
<1>3. SurplusBackups(s, k, c, cache) \subseteq cache
  BY DEF SurplusBackups, BackupsOf
<1>4. \A b \in cache : b.id \in Nat
  BY DEF Backup
<1>5. ToRequest(o) \subseteq Nat
  <2>1. {} \subseteq cache
    OBVIOUS
  <2> QED BY <1>2, <1>3, <1>4, <2>1 DEF ToRequest
<1>6. /\ Erase(s, k, c, cache) \in Seq(Entry)
      /\ Names(Erase(s, k, c, cache)) = Names(s)
  BY <1>1, EraseNames
<1> DEFINE e == [o EXCEPT !.schedules = Erase(s, k, c, cache)]
<1>7. e \in Object /\ e.schedules = Erase(s, k, c, cache) /\ e.finalizers = o.finalizers
  BY <1>6, ObjectUpdates
<1>8. CleanedUp(o) \in {o, e}
  BY DEF CleanedUp
<1> HIDE DEF e
<1> QED BY <1>5, <1>6, <1>7, <1>8

\* The last entry of the list, and the list after its creation is recorded.
LEMMA CreatedList ==
  ASSUME op.dbkp \in Object, op.dbkp.schedules # <<>>, NEW t \in Nat
  PROVE  /\ QueuedName \in Nat /\ QueuedName \in Names(op.dbkp.schedules)
         /\ UpdateEmpty(op.dbkp.schedules, t) \in Seq(Entry)
         /\ Names(UpdateEmpty(op.dbkp.schedules, t)) = Names(op.dbkp.schedules)
<1>1. op.dbkp.schedules \in Seq(Entry)
  BY DEF Object
<1>2. Last(op.dbkp.schedules) \in Entry
        /\ Last(op.dbkp.schedules).name \in Names(op.dbkp.schedules)
  BY <1>1, FrontAndLast
<1>3. QueuedName \in Nat /\ QueuedName \in Names(op.dbkp.schedules)
  BY <1>2 DEF QueuedName, Entry
<1> QED BY <1>1, <1>3, UpdateEmptyNames

-----------------------------------------------------------------------------
(* Type correctness.                                                       *)

\* TypeOK is not inductive: what the calls take from the list they find in
\* memory is there only because of the step that got there.
OpOK ==
  /\ op \in OpType
  /\ op.pc # "idle" => op.orig \in Object /\ op.dbkp \in Object
  /\ op.pc = "create" => op.dbkp.schedules # <<>>
  /\ op.pc = "deleteOld" => HasPrevious(op.dbkp.schedules)

RestOK ==
  /\ queued \in BOOLEAN
  /\ velero \in SUBSET Nat
  /\ oneShot \in BOOLEAN
  /\ backups \in SUBSET Backup /\ cache \in SUBSET Backup
  /\ requests \in SUBSET Nat
  /\ taken \in Nat /\ now \in Nat /\ faults \in Nat /\ edits \in Nat

TypeInv == obj \in Object \union {NoObject} /\ OpOK /\ RestOK

LEMMA TypeInvImpliesTypeOK == TypeInv => TypeOK
  BY DEF TypeInv, OpOK, RestOK, TypeOK

\* The operator with no reconciliation in hand.
LEMMA IdleOpOK == op' = IdleOp => OpOK'
  BY DEF IdleOp, OpOK, OpType

LEMMA InitTypeInv == Init => TypeInv
<1> SUFFICES ASSUME Init PROVE TypeInv
  OBVIOUS
<1>1. obj \in Object \union {NoObject}
  BY DEF Init
<1>2. OpOK
  BY DEF Init, IdleOp, OpOK, OpType
<1>3. Period + 1 \in Nat
  BY ConstantsAssumption
<1>4. RestOK
  BY <1>3 DEF Init, RestOK
<1> QED BY <1>1, <1>2, <1>4 DEF TypeInv

\* What the user and the other controllers do.
LEMMA UserTypeInv == TypeInv /\ User => TypeInv'
<1> SUFFICES ASSUME TypeInv, User PROVE TypeInv'
  OBVIOUS
<1> USE DEF TypeInv
<1>1. CASE UserCreate
  <2>1. PICK sp \in Specs, f \in FinalizerSets : obj' = NewObject(sp, f)
    BY <1>1 DEF UserCreate
  <2>2. NewObject(sp, f) \in Object
    <3>1. sp \in SpecType /\ f \in SUBSET Finalizer
      BY ConstantsAssumption
    <3>2. <<>> \in Seq(Entry)
      OBVIOUS
    <3> QED BY <3>1, <3>2 DEF NewObject, Object
  <2> QED BY <1>1, <2>1, <2>2 DEF UserCreate, server, OpOK, RestOK
<1>2. CASE UserEdit
  <2>1. PICK sp \in Specs : obj' = [obj EXCEPT !.spec = sp]
    BY <1>2 DEF UserEdit
  <2>2. obj' \in Object
    BY <1>2, <2>1, ConstantsAssumption, ObjectUpdates DEF UserEdit, Stored
  <2> QED BY <1>2, <2>2 DEF UserEdit, server, OpOK, RestOK
<1>3. CASE UserDelete
  <2>1. [obj EXCEPT !.deleting = TRUE] \in Object
    BY <1>3, ObjectUpdates DEF UserDelete, Stored
  <2>2. obj' \in Object \union {NoObject}
    BY <1>3, <2>1, SettledObject DEF UserDelete
  <2> QED BY <1>3, <2>2 DEF UserDelete, server, OpOK, RestOK
<1>4. CASE OtherFinalizerRemoved
  <2>1. obj \in Object /\ obj.finalizers \ {"other"} \in SUBSET Finalizer
    BY <1>4 DEF OtherFinalizerRemoved, Stored, Object
  <2>2. [obj EXCEPT !.finalizers = obj.finalizers \ {"other"}] \in Object
    BY <2>1, ObjectUpdates
  <2>3. obj' \in Object \union {NoObject}
    BY <1>4, <2>2, SettledObject DEF OtherFinalizerRemoved
  <2> QED BY <1>4, <2>3 DEF OtherFinalizerRemoved, server, OpOK, RestOK
<1> QED BY <1>1, <1>2, <1>3, <1>4 DEF User

\* The start of a reconciliation.
LEMMA BeginTypeInv ==
  ASSUME TypeInv, NEW pc \in {"create", "createBackup", "cleanup", "finalize", "patch"},
         NEW o \in Object, NEW requeue \in BOOLEAN, Begin(pc, o, requeue),
         Stored, pc = "create" => o.schedules # <<>>
  PROVE  TypeInv'
<1>1. op' = [pc |-> pc, orig |-> obj, dbkp |-> o, requeue |-> requeue] /\ obj \in Object
  BY DEF Begin, TypeInv, Stored
<1>2. OpOK'
  BY <1>1 DEF OpOK, OpType
<1> QED BY <1>2 DEF Begin, TypeInv, RestOK, server

LEMMA ReconcileTypeInv == TypeInv /\ Reconcile => TypeInv'
<1> SUFFICES ASSUME TypeInv, Reconcile PROVE TypeInv'
  OBVIOUS
<1>1. Stored /\ obj \in Object
  BY DEF Reconcile, ReconcileQueued, ReconcileInvalidCron, ReconcileNotDue, ReconcileReserve,
         ReconcileOnce, ReconcileMade, ReconcileDeleting, Executes, TypeInv, Stored
<1>2. Started(obj) \in Object /\ Started(obj).schedules = obj.schedules
  BY <1>1, StartedObject
<1>3. CASE ReconcileQueued
  <2>1. Started(obj).schedules # <<>>
    BY <1>2, <1>3 DEF ReconcileQueued, HasQueued
  <2> QED BY <1>1, <1>2, <1>3, <2>1, BeginTypeInv DEF ReconcileQueued
<1>4. CASE ReconcileInvalidCron
  <2>1. [Started(obj) EXCEPT !.reason = TRUE] \in Object
    BY <1>2, ObjectUpdates
  <2> QED BY <1>1, <1>4, <2>1, BeginTypeInv DEF ReconcileInvalidCron
<1>5. CASE ReconcileNotDue
  BY <1>1, <1>2, <1>5, BeginTypeInv DEF ReconcileNotDue
<1>6. CASE ReconcileReserve
  <2>1. obj.schedules \in Seq(Entry) /\ now \in Nat
    BY <1>1 DEF Object, TypeInv, RestOK
  <2>2. [Started(obj) EXCEPT !.schedules = AddEmpty(Started(obj).schedules, now)] \in Object
    BY <1>2, <2>1, AddEmptyNames, ObjectUpdates
  <2> QED BY <1>1, <1>6, <2>2, BeginTypeInv DEF ReconcileReserve
<1>7. CASE ReconcileOnce
  BY <1>1, <1>2, <1>7, BeginTypeInv DEF ReconcileOnce
<1>8. CASE ReconcileMade
  BY <1>1, <1>2, <1>8, BeginTypeInv DEF ReconcileMade
<1>9. CASE ReconcileDeleting
  <2>1. PICK pc \in {"finalize", "patch"} : Begin(pc, Started(obj), FALSE)
    BY <1>9 DEF ReconcileDeleting
  <2> QED BY <1>1, <1>2, <2>1, BeginTypeInv
<1> QED BY <1>3, <1>4, <1>5, <1>6, <1>7, <1>8, <1>9 DEF Reconcile

\* A call that goes on with another copy.
LEMMA ContinueOpOK ==
  ASSUME OpOK, op.pc # "idle", NEW o \in Object,
         NEW pc \in {"deleteOld", "cleanup", "patch"}, Continue(pc, o),
         pc = "deleteOld" => HasPrevious(o.schedules)
  PROVE  OpOK' /\ op'.orig = op.orig /\ op'.dbkp = o /\ op'.pc = pc
<1>1. op \in OpType /\ op.orig \in Object
  BY DEF OpOK
<1>2. op' = [op EXCEPT !.pc = pc, !.dbkp = o]
  BY DEF Continue
<1>3. op' \in OpType /\ op'.orig = op.orig /\ op'.dbkp = o /\ op'.pc = pc
  BY <1>1, <1>2 DEF OpType
<1> QED BY <1>1, <1>3 DEF OpOK

LEMMA GiveUpOpOK ==
  ASSUME OpOK, op.pc # "idle", GiveUp
  PROVE  /\ OpOK' /\ op'.orig = op.orig /\ op'.pc = "patch"
         /\ op'.dbkp.schedules = op.dbkp.schedules /\ op'.dbkp.finalizers = op.dbkp.finalizers
<1> DEFINE o == [op.dbkp EXCEPT !.reason = TRUE]
<1>1. op.dbkp \in Object
  BY DEF OpOK
<1>2. o \in Object /\ o.schedules = op.dbkp.schedules /\ o.finalizers = op.dbkp.finalizers
  BY <1>1, ObjectUpdates
<1>3. Continue("patch", o)
  BY DEF GiveUp
<1> HIDE DEF o
<1> QED BY <1>2, <1>3, ContinueOpOK

\* Recording a created schedule.
LEMMA CreatedOpOK ==
  ASSUME OpOK, op.pc = "create", NEW t \in Nat, Created(t)
  PROVE  /\ OpOK' /\ op'.orig = op.orig /\ op'.pc \in {"deleteOld", "cleanup"}
         /\ Names(op'.dbkp.schedules) = Names(op.dbkp.schedules)
         /\ op'.dbkp.finalizers = op.dbkp.finalizers
<1> DEFINE s == UpdateEmpty(op.dbkp.schedules, t)
           o == [op.dbkp EXCEPT !.schedules = s]
           pc == IF Periodic(op.dbkp) /\ HasPrevious(s) THEN "deleteOld" ELSE "cleanup"
<1>1. op.dbkp \in Object /\ op.dbkp.schedules # <<>>
  BY DEF OpOK
<1>2. s \in Seq(Entry) /\ Names(s) = Names(op.dbkp.schedules)
  BY <1>1, CreatedList
<1>3. o \in Object /\ o.schedules = s /\ o.finalizers = op.dbkp.finalizers
  BY <1>1, <1>2, ObjectUpdates
<1>4. Continue(pc, o)
  BY DEF Created
<1>5. pc \in {"deleteOld", "cleanup"} /\ (pc = "deleteOld" => HasPrevious(s))
  OBVIOUS
<1> HIDE DEF s, o, pc
<1> QED BY <1>2, <1>3, <1>4, <1>5, ContinueOpOK

\* Deleting the old schedule and marking its entry.
LEMMA MarkedOpOK ==
  ASSUME OpOK, op.pc = "deleteOld",
         Continue("cleanup",
                  [op.dbkp EXCEPT !.schedules = MarkPreviousDeleted(op.dbkp.schedules)])
  PROVE  /\ OpOK' /\ op'.orig = op.orig /\ op'.pc = "cleanup"
         /\ Names(op'.dbkp.schedules) = Names(op.dbkp.schedules)
         /\ op'.dbkp.finalizers = op.dbkp.finalizers
<1> DEFINE s == MarkPreviousDeleted(op.dbkp.schedules)
           o == [op.dbkp EXCEPT !.schedules = s]
<1>1. op.dbkp \in Object /\ op.dbkp.schedules \in Seq(Entry)
        /\ HasPrevious(op.dbkp.schedules)
  BY DEF OpOK, Object
<1>2. s \in Seq(Entry) /\ Names(s) = Names(op.dbkp.schedules)
  BY <1>1, MarkNames
<1>3. o \in Object /\ o.schedules = s /\ o.finalizers = op.dbkp.finalizers
  BY <1>1, <1>2, ObjectUpdates
<1>4. Continue("cleanup", o)
  OBVIOUS
<1> HIDE DEF s, o
<1> QED BY <1>2, <1>3, <1>4, ContinueOpOK

\* Recording the one backup.
LEMMA BackedUpOpOK ==
  ASSUME OpOK, op.pc = "createBackup", CreateBackup
  PROVE  /\ OpOK' /\ op'.orig = op.orig /\ op'.pc = "cleanup"
         /\ op'.dbkp.schedules = op.dbkp.schedules
         /\ op'.dbkp.finalizers = op.dbkp.finalizers
<1> DEFINE nm == IF oneShot THEN "empty" ELSE "named"
           o == [op.dbkp EXCEPT !.phase = "Completed", !.backupName = nm]
<1>1. op.dbkp \in Object /\ nm \in {"nil", "named", "empty"}
  BY DEF OpOK
<1>2. Continue("cleanup", o)
  BY DEF CreateBackup
<1> HIDE DEF nm
<1>3. o \in Object /\ o.schedules = op.dbkp.schedules /\ o.finalizers = op.dbkp.finalizers
  BY <1>1, ObjectUpdates
<1> HIDE DEF o
<1> QED BY <1>2, <1>3, ContinueOpOK

\* The end of a clean-up.
LEMMA CleanedOpOK ==
  ASSUME OpOK, op.pc = "cleanup", cache \in SUBSET Backup,
         Continue("patch", CleanedUp(op.dbkp))
  PROVE  /\ OpOK' /\ op'.orig = op.orig /\ op'.pc = "patch"
         /\ Names(op'.dbkp.schedules) = Names(op.dbkp.schedules)
         /\ op'.dbkp.finalizers = op.dbkp.finalizers
<1>1. op.dbkp \in Object
  BY DEF OpOK
<1> QED BY <1>1, CleanupEffect, ContinueOpOK

\* The end of a deletion.
LEMMA FinalizedOpOK ==
  ASSUME OpOK, op.pc = "finalize", Finalize
  PROVE  /\ OpOK' /\ op'.orig = op.orig /\ op'.pc = "patch"
         /\ op'.dbkp.schedules = op.dbkp.schedules
         /\ op'.dbkp.finalizers = op.dbkp.finalizers \ {"dmaas"}
<1> DEFINE f == op.dbkp.finalizers \ {"dmaas"}
           o == [op.dbkp EXCEPT !.finalizers = f]
<1>1. op.dbkp \in Object /\ f \in SUBSET Finalizer
  BY DEF OpOK, Object
<1>2. Continue("patch", o)
  BY DEF Finalize
<1> HIDE DEF f
<1>3. o \in Object /\ o.schedules = op.dbkp.schedules /\ o.finalizers = f
  BY <1>1, ObjectUpdates
<1> HIDE DEF o
<1> QED BY <1>2, <1>3, ContinueOpOK DEF f

LEMMA CallTypeInv == TypeInv /\ Call => TypeInv'
<1> SUFFICES ASSUME TypeInv, Call PROVE TypeInv'
  OBVIOUS
<1>1. obj \in Object \union {NoObject} /\ OpOK /\ RestOK
  BY DEF TypeInv
<1>2. now \in Nat /\ 0 \in Nat /\ cache \in SUBSET Backup /\ faults + 1 \in Nat
  BY <1>1 DEF RestOK
<1>3. \A kind : Fault(kind) => faults' \in Nat
  BY <1>2 DEF Fault
<1>4. op.pc = "create" => QueuedName \in Nat
  BY <1>1, CreatedList DEF OpOK, TypeInv
<1>5. op.pc # "idle" => ToRequest(op.dbkp) \subseteq Nat
  BY <1>1, <1>2, CleanupEffect DEF OpOK
<1> USE DEF TypeInv, RestOK
<1>6. CASE CreateSchedule
  BY <1>1, <1>2, <1>4, <1>6, CreatedOpOK DEF CreateSchedule
<1>7. CASE CreateScheduleExists
  BY <1>1, <1>2, <1>7, CreatedOpOK DEF CreateScheduleExists, server
<1>8. CASE CreateScheduleFails
  BY <1>1, <1>3, <1>4, <1>8, GiveUpOpOK DEF CreateScheduleFails
<1>9. CASE DeleteOld
  BY <1>1, <1>9, MarkedOpOK DEF DeleteOld
<1>10. CASE DeleteOldFails
  BY <1>1, <1>3, <1>10, GiveUpOpOK DEF DeleteOldFails
<1>11. CASE CreateBackup
  BY <1>1, <1>11, BackedUpOpOK DEF CreateBackup
<1>12. CASE CreateBackupFails
  BY <1>1, <1>3, <1>12, GiveUpOpOK DEF CreateBackupFails
<1>13. CASE Cleanup
  BY <1>1, <1>5, <1>13, CleanedOpOK DEF Cleanup
<1>14. CASE CleanupSomeFail
  BY <1>1, <1>3, <1>5, <1>14, CleanedOpOK DEF CleanupSomeFail
<1>15. CASE Finalize
  BY <1>1, <1>15, FinalizedOpOK DEF Finalize
<1>16. CASE FinalizeFails
  BY <1>1, <1>3, <1>16, GiveUpOpOK DEF FinalizeFails
<1>17. CASE Patch
  <2>1. op.orig \in Object /\ op.dbkp \in Object /\ obj \in Object
    BY <1>1, <1>17 DEF Patch, Accepted, Stored, OpOK
  <2>2. obj' \in Object \union {NoObject}
    BY <1>17, <2>1, PatchedObject, SettledObject DEF Patch
  <2>3. op.requeue \in BOOLEAN
    BY <1>1 DEF OpOK, OpType
  <2> QED BY <1>1, <1>17, <2>2, <2>3, IdleOpOK DEF Patch, server
<1>18. CASE PatchRejected \/ PatchFails
  <2>1. op.requeue \in BOOLEAN
    BY <1>1 DEF OpOK, OpType
  <2> QED BY <1>1, <1>3, <1>18, <2>1, IdleOpOK DEF PatchRejected, PatchFails, DropPatch, server
<1> QED
  BY <1>6, <1>7, <1>8, <1>9, <1>10, <1>11, <1>12, <1>13, <1>14, <1>15, <1>16, <1>17, <1>18
     DEF Call

LEMMA VeleroTypeInv == TypeInv /\ Velero => TypeInv'
<1> SUFFICES ASSUME TypeInv, Velero PROVE TypeInv'
  OBVIOUS
<1>1. \A b \in backups, ph \in BackupPhase : SetPhase(b, ph) => backups' \in SUBSET Backup
  <2> SUFFICES ASSUME NEW b \in backups, NEW ph \in BackupPhase, SetPhase(b, ph)
               PROVE  backups' \in SUBSET Backup
    OBVIOUS
  <2>1. b \in Backup
    BY DEF TypeInv, RestOK
  <2>2. [b EXCEPT !.phase = ph] \in Backup
    BY <2>1 DEF Backup
  <2> QED BY <2>2 DEF SetPhase, TypeInv, RestOK
<1>2. {"Completed", "Failed", "Deleting"} \subseteq BackupPhase
  BY DEF BackupPhase
<1>3. OpOK /\ (op' = op => OpOK')
  BY DEF TypeInv, OpOK
<1> USE DEF TypeInv, RestOK
<1>4. CASE RunSchedule
  <2>1. taken + 1 \in Nat /\ "InProgress" \in BackupPhase
    BY DEF BackupPhase
  <2>2. \A n \in velero : [id |-> taken + 1, sched |-> n, phase |-> "InProgress"] \in Backup
    BY <2>1 DEF Backup
  <2> QED BY <1>3, <1>4, <2>1, <2>2 DEF RunSchedule
<1>5. CASE FinishBackup
  <2>1. backups' \in SUBSET Backup
    BY <1>1, <1>2, <1>5 DEF FinishBackup
  <2> QED BY <1>3, <1>5, <2>1 DEF FinishBackup
<1>6. CASE StartDeletion
  <2>1. backups' \in SUBSET Backup
    BY <1>1, <1>2, <1>6 DEF StartDeletion
  <2> QED BY <1>3, <1>6, <2>1 DEF StartDeletion
<1>7. CASE EndDeletion
  BY <1>3, <1>7 DEF EndDeletion
<1>8. CASE RejectRequest
  BY <1>3, <1>8 DEF RejectRequest
<1> QED BY <1>4, <1>5, <1>6, <1>7, <1>8 DEF Velero

\* Every step preserves the type invariant.
LEMMA NextTypeInv == TypeInv /\ [Next]_vars => TypeInv'
<1> SUFFICES ASSUME TypeInv, [Next]_vars PROVE TypeInv'
  OBVIOUS
<1>1. OpOK /\ (op' = op => OpOK')
  BY DEF TypeInv, OpOK
<1>2. CASE UNCHANGED vars
  BY <1>1, <1>2 DEF vars, server, TypeInv, RestOK
<1>3. CASE Sync \/ Skip
  BY <1>1, <1>3 DEF Sync, Skip, server, TypeInv, RestOK
<1>6. CASE SyncCache
  BY <1>1, <1>6 DEF SyncCache, server, TypeInv, RestOK
<1>7. CASE Tick
  <2>1. now + 1 \in Nat
    BY DEF TypeInv, RestOK
  <2> QED BY <1>1, <1>7, <2>1 DEF Tick, server, TypeInv, RestOK
<1>4. CASE Crash
  BY <1>4, IdleOpOK DEF Crash, Fault, Stored, server, TypeInv, RestOK
<1>5. CASE User \/ Reconcile \/ Call \/ Velero
  BY <1>5, UserTypeInv, ReconcileTypeInv, CallTypeInv, VeleroTypeInv
<1> QED
  BY <1>2, <1>3, <1>4, <1>5, <1>6, <1>7 DEF Next

\* TypeInv holds in every state: the calls of a reconciliation (CreateSchedule,
\* DeleteOld) never look for a list entry that is not there.
THEOREM AlwaysTypeInv == Spec => []TypeInv
BY InitTypeInv, NextTypeInv, PTL DEF Spec

\* Every state the program reaches has the types TypeOK gives its variables.
THEOREM TypeCorrect == Spec => []TypeOK
<1>1. TypeInv => TypeOK
  BY TypeInvImpliesTypeOK
<1> QED BY <1>1, AlwaysTypeInv, PTL

-----------------------------------------------------------------------------
(* No schedule is lost track of.                                           *)

Busy == op.pc \in {"create", "deleteOld", "createBackup", "cleanup", "finalize"}

\* The object keeps the operator's finalizer as long as a schedule is live.
FinalizerHolds ==
  Stored => "dmaas" \in obj.finalizers \/ (obj.deleting /\ velero = {})

\* A reconciliation that may still call Velero, or will write the list, works
\* on a list that nobody else has changed, and forgets no name of it ...
ListHeld ==
  Busy \/ (op.pc = "patch" /\ op.dbkp.schedules # op.orig.schedules)
    => /\ Stored /\ "dmaas" \in obj.finalizers
       /\ obj.schedules = op.orig.schedules
       /\ Names(op.orig.schedules) \subseteq Names(op.dbkp.schedules)

\* ... the name it creates is one it has read ...
CreatesWhatIsStored == op.pc = "create" => op.dbkp.schedules = op.orig.schedules

\* ... and it takes the finalizer away once everything is deleted.
FinalizerHeld ==
  /\ Busy => op.dbkp.finalizers = op.orig.finalizers
  /\ op.pc = "finalize" => obj.deleting
  /\ op.pc = "patch" /\ op.dbkp.finalizers # op.orig.finalizers
       => Stored /\ obj.deleting /\ "dmaas" \in obj.finalizers /\ velero = {}

TrackInv ==
  NoUntrackedSchedule /\ FinalizerHolds /\ ListHeld /\ CreatesWhatIsStored /\ FinalizerHeld

LEMMA InitTrack == Init => TrackInv
  BY DEF Init, IdleOp, Stored, Busy, TrackInv, NoUntrackedSchedule, FinalizerHolds, ListHeld,
         CreatesWhatIsStored, FinalizerHeld

\* Steps that touch neither the object, the schedules nor the reconciliation.
LEMMA QuietTrack ==
  ASSUME TrackInv, UNCHANGED <<obj, op, velero>>
  PROVE  TrackInv'
  BY DEF Stored, Busy, TrackInv, NoUntrackedSchedule, FinalizerHolds, ListHeld,
         CreatesWhatIsStored, FinalizerHeld

\* The reconciliation is dropped.
LEMMA DropTrack ==
  ASSUME TrackInv, UNCHANGED <<obj, velero>>, op' = IdleOp
  PROVE  TrackInv'
  BY DEF Stored, Busy, IdleOp, TrackInv, NoUntrackedSchedule, FinalizerHolds, ListHeld,
         CreatesWhatIsStored, FinalizerHeld

\* The object changes, but not its list nor whether it has the finalizer.
LEMMA ObjectTrack ==
  ASSUME TrackInv, UNCHANGED <<op, velero>>, Stored, Stored',
         obj'.schedules = obj.schedules, obj.deleting => obj'.deleting,
         "dmaas" \in obj'.finalizers <=> "dmaas" \in obj.finalizers
  PROVE  TrackInv'
<1>1. NoUntrackedSchedule'
  BY DEF TrackInv, NoUntrackedSchedule, Stored
<1>2. FinalizerHolds'
  BY DEF TrackInv, FinalizerHolds, Stored
<1>3. ListHeld' /\ CreatesWhatIsStored'
  BY DEF TrackInv, ListHeld, CreatesWhatIsStored, Busy, Stored
<1>4. FinalizerHeld'
  BY DEF TrackInv, FinalizerHeld, Busy, Stored
<1> QED BY <1>1, <1>2, <1>3, <1>4 DEF TrackInv

LEMMA UserTrack ==
  ASSUME TypeInv, TrackInv, User, \A f \in FinalizerSets : "dmaas" \in f
  PROVE  TrackInv'
<1>1. CASE UserCreate
  <2>1. PICK sp \in Specs, f \in FinalizerSets : obj' = NewObject(sp, f)
    BY <1>1 DEF UserCreate
  <2>2. obj'.finalizers = f /\ "dmaas" \in f
    BY <2>1 DEF NewObject
  <2>3. ~Stored /\ velero = {} /\ velero' = {} /\ op' = op
    BY <1>1 DEF UserCreate, server, TrackInv, NoUntrackedSchedule
  <2>4. NoUntrackedSchedule' /\ FinalizerHolds'
    BY <2>2, <2>3 DEF NoUntrackedSchedule, FinalizerHolds, Stored
  <2>5. ListHeld' /\ CreatesWhatIsStored' /\ FinalizerHeld'
    BY <2>3 DEF TrackInv, ListHeld, CreatesWhatIsStored, FinalizerHeld, Busy
  <2> QED BY <2>4, <2>5 DEF TrackInv
<1>2. CASE UserEdit
  <2>1. PICK sp \in Specs : obj' = [obj EXCEPT !.spec = sp]
    BY <1>2 DEF UserEdit
  <2>2. obj \in Object /\ sp \in SpecType /\ Stored
    BY <1>2, ConstantsAssumption DEF UserEdit, TypeInv, Stored
  <2>3. /\ obj' \in Object /\ obj'.schedules = obj.schedules
        /\ obj'.finalizers = obj.finalizers /\ obj'.deleting = obj.deleting
    BY <2>1, <2>2, ObjectUpdates
  <2> QED BY <1>2, <2>2, <2>3, ConstantsAssumption, ObjectTrack DEF UserEdit, server, Stored
<1>3. CASE UserDelete
  <2>1. obj \in Object /\ Stored /\ "dmaas" \in obj.finalizers
    BY <1>3 DEF UserDelete, TypeInv, Stored, TrackInv, FinalizerHolds
  <2> DEFINE d == [obj EXCEPT !.deleting = TRUE]
  <2>2. /\ d \in Object /\ d.schedules = obj.schedules /\ d.finalizers = obj.finalizers
        /\ d.deleting
    BY <2>1, ObjectUpdates
  <2>3. obj' = d
    BY <1>3, <2>1, <2>2 DEF UserDelete, Settle
  <2> HIDE DEF d
  <2> QED BY <1>3, <2>1, <2>2, <2>3, ConstantsAssumption, ObjectTrack DEF UserDelete, server, Stored
<1>4. CASE OtherFinalizerRemoved
  <2>1. obj \in Object /\ Stored /\ obj.deleting /\ UNCHANGED <<op, velero>>
    BY <1>4 DEF OtherFinalizerRemoved, TypeInv, Stored, server
  <2> DEFINE f == obj.finalizers \ {"other"}
             d == [obj EXCEPT !.finalizers = f]
  <2>2. f \in SUBSET Finalizer
    BY <2>1 DEF Object
  <2>3. d \in Object /\ d.schedules = obj.schedules /\ d.finalizers = f
    <3> HIDE DEF f
    <3> QED BY <2>1, <2>2, ObjectUpdates
  <2>4. d.deleting
    BY <2>1 DEF Object
  <2>5. obj' = Settle(d)
    BY <1>4 DEF OtherFinalizerRemoved
  <2>6. "dmaas" \in f <=> "dmaas" \in obj.finalizers
    OBVIOUS
  <2> HIDE DEF d, f
  <2>7. CASE "dmaas" \in f
    <3>1. obj' = d
      BY <2>3, <2>5, <2>7 DEF Settle
    <3> QED BY <2>1, <2>3, <2>4, <2>6, <3>1, ConstantsAssumption, ObjectTrack DEF Stored
  <2>8. CASE "dmaas" \notin f
    <3>1. velero = {}
      BY <2>1, <2>6, <2>8 DEF TrackInv, FinalizerHolds
    <3>2. ~Busy /\ ~(op.pc = "patch" /\ op.dbkp.schedules # op.orig.schedules)
            /\ ~(op.pc = "patch" /\ op.dbkp.finalizers # op.orig.finalizers)
      BY <2>6, <2>8 DEF TrackInv, ListHeld, FinalizerHeld
    <3>3. obj' = NoObject \/ obj'.deleting
      BY <2>4, <2>5 DEF Settle
    <3>4. NoUntrackedSchedule' /\ FinalizerHolds'
      BY <2>1, <3>1, <3>3 DEF NoUntrackedSchedule, FinalizerHolds, Stored
    <3>5. ListHeld' /\ CreatesWhatIsStored' /\ FinalizerHeld'
      BY <2>1, <3>2 DEF ListHeld, CreatesWhatIsStored, FinalizerHeld, Busy
    <3> QED BY <3>4, <3>5 DEF TrackInv
  <2> QED BY <2>7, <2>8
<1> QED BY <1>1, <1>2, <1>3, <1>4 DEF User

\* The start of a reconciliation.
LEMMA BeginTrack ==
  ASSUME TrackInv, Stored, NEW pc, NEW o, NEW requeue, Begin(pc, o, requeue),
         o.finalizers = obj.finalizers,
         pc = "patch" => o.schedules = obj.schedules,
         pc # "patch" => /\ "dmaas" \in obj.finalizers
                         /\ Names(obj.schedules) \subseteq Names(o.schedules),
         pc = "create" => o.schedules = obj.schedules,
         pc = "finalize" => obj.deleting
  PROVE  TrackInv'
<1>1. /\ op'.pc = pc /\ op'.orig = obj /\ op'.dbkp = o
      /\ UNCHANGED <<obj, velero>>
  BY DEF Begin, server
<1>2. NoUntrackedSchedule' /\ FinalizerHolds'
  BY <1>1 DEF TrackInv, NoUntrackedSchedule, FinalizerHolds, Stored
<1>3. ListHeld' /\ CreatesWhatIsStored'
  BY <1>1 DEF ListHeld, CreatesWhatIsStored, Busy, Stored
<1>4. FinalizerHeld'
  BY <1>1 DEF FinalizerHeld, Busy, Stored
<1> QED BY <1>2, <1>3, <1>4 DEF TrackInv

LEMMA ReconcileTrack == TypeInv /\ TrackInv /\ Reconcile => TrackInv'
<1> SUFFICES ASSUME TypeInv, TrackInv, Reconcile PROVE TrackInv'
  OBVIOUS
<1>1. Stored /\ obj \in Object
  BY DEF Reconcile, ReconcileQueued, ReconcileInvalidCron, ReconcileNotDue, ReconcileReserve,
         ReconcileOnce, ReconcileMade, ReconcileDeleting, Executes, TypeInv, Stored
<1>2. /\ Started(obj) \in Object
      /\ Started(obj).schedules = obj.schedules /\ Started(obj).finalizers = obj.finalizers
  BY <1>1, StartedObject
<1>3. Executes => "dmaas" \in obj.finalizers
  BY DEF Executes, TrackInv, FinalizerHolds
<1>4. CASE ReconcileQueued
  BY <1>1, <1>2, <1>3, <1>4, BeginTrack DEF ReconcileQueued
<1>5. CASE ReconcileInvalidCron
  <2> DEFINE o == [Started(obj) EXCEPT !.reason = TRUE]
  <2>1. o.schedules = obj.schedules /\ o.finalizers = obj.finalizers
    BY <1>2, ObjectUpdates
  <2>2. Begin("patch", o, FALSE)
    BY <1>5 DEF ReconcileInvalidCron
  <2> HIDE DEF o
  <2> QED BY <1>1, <2>1, <2>2, BeginTrack
<1>6. CASE ReconcileNotDue
  BY <1>1, <1>2, <1>3, <1>6, BeginTrack DEF ReconcileNotDue
<1>7. CASE ReconcileReserve
  <2> DEFINE s == AddEmpty(Started(obj).schedules, now)
             o == [Started(obj) EXCEPT !.schedules = s]
  <2>1. obj.schedules \in Seq(Entry) /\ now \in Nat
    BY <1>1 DEF Object, TypeInv, RestOK
  <2>2. s \in Seq(Entry) /\ Names(obj.schedules) \subseteq Names(s)
    BY <1>2, <2>1, AddEmptyNames
  <2>3. Begin("cleanup", o, TRUE)
    BY <1>7 DEF ReconcileReserve
  <2> HIDE DEF s
  <2>4. o.schedules = s /\ o.finalizers = obj.finalizers
    BY <1>2, <2>2, ObjectUpdates
  <2> HIDE DEF o
  <2>5. Executes
    BY <1>7 DEF ReconcileReserve
  <2> QED BY <1>1, <1>3, <2>2, <2>3, <2>4, <2>5, BeginTrack
<1>8. CASE ReconcileOnce
  BY <1>1, <1>2, <1>3, <1>8, BeginTrack DEF ReconcileOnce
<1>9. CASE ReconcileMade
  BY <1>1, <1>2, <1>3, <1>9, BeginTrack DEF ReconcileMade
<1>10. CASE ReconcileDeleting
  <2>1. obj.deleting
    BY <1>10 DEF ReconcileDeleting
  <2>2. CASE "dmaas" \in obj.finalizers
    <3>1. Begin("finalize", Started(obj), FALSE)
      BY <1>10, <2>2 DEF ReconcileDeleting
    <3> QED BY <1>1, <1>2, <2>1, <2>2, <3>1, BeginTrack
  <2>3. CASE "dmaas" \notin obj.finalizers
    <3>1. Begin("patch", Started(obj), FALSE)
      BY <1>10, <2>3 DEF ReconcileDeleting
    <3> QED BY <1>1, <1>2, <3>1, BeginTrack
  <2> QED BY <2>2, <2>3
<1> QED BY <1>4, <1>5, <1>6, <1>7, <1>8, <1>9, <1>10 DEF Reconcile

\* A call keeps every name in its copy and makes no schedule but a stored one.
LEMMA ContinueTrack ==
  ASSUME TrackInv, Busy, UNCHANGED obj, velero' \subseteq Names(obj.schedules),
         op'.orig = op.orig, op'.pc \in {"deleteOld", "cleanup", "patch"},
         Names(op'.dbkp.schedules) = Names(op.dbkp.schedules),
         op'.dbkp.finalizers = op.dbkp.finalizers
  PROVE  TrackInv'
<1>1. /\ Stored /\ "dmaas" \in obj.finalizers /\ obj.schedules = op.orig.schedules
      /\ Names(op.orig.schedules) \subseteq Names(op.dbkp.schedules)
      /\ op.dbkp.finalizers = op.orig.finalizers
  BY DEF TrackInv, ListHeld, FinalizerHeld
<1>2. NoUntrackedSchedule' /\ FinalizerHolds'
  BY <1>1 DEF NoUntrackedSchedule, FinalizerHolds, Stored
<1>3. ListHeld' /\ CreatesWhatIsStored' /\ FinalizerHeld'
  BY <1>1 DEF ListHeld, CreatesWhatIsStored, FinalizerHeld, Stored, Busy
<1> QED BY <1>2, <1>3 DEF TrackInv

\* The merge: what the copy did not touch is the stored object's.
LEMMA PatchTrack == TypeInv /\ TrackInv /\ Patch => TrackInv'
<1> SUFFICES ASSUME TypeInv, TrackInv, Patch PROVE TrackInv'
  OBVIOUS
<1>1. /\ op.pc = "patch" /\ Stored /\ obj \in Object
      /\ op.orig \in Object /\ op.dbkp \in Object
  BY DEF Patch, Accepted, TypeInv, OpOK, Stored
<1> DEFINE d == Patched(obj)
<1>2. /\ d \in Object /\ d.deleting = obj.deleting
      /\ d.schedules = Merged(obj.schedules, op.orig.schedules, op.dbkp.schedules)
      /\ d.finalizers = Merged(obj.finalizers, op.orig.finalizers, op.dbkp.finalizers)
  BY <1>1, PatchedObject
<1>3. obj' = Settle(d) /\ op' = IdleOp /\ velero' = velero
  BY DEF Patch, server
<1> HIDE DEF d
<1>4. Names(obj.schedules) \subseteq Names(d.schedules)
  <2>1. CASE op.dbkp.schedules = op.orig.schedules
    BY <1>2, <2>1 DEF Merged
  <2>2. CASE op.dbkp.schedules # op.orig.schedules
    <3>1. obj.schedules = op.orig.schedules
            /\ Names(op.orig.schedules) \subseteq Names(op.dbkp.schedules)
      BY <1>1, <2>2 DEF TrackInv, ListHeld
    <3> QED BY <1>2, <2>2, <3>1 DEF Merged
  <2> QED BY <2>1, <2>2
<1>5. "dmaas" \notin d.finalizers => velero = {} /\ d.deleting
  <2>1. CASE op.dbkp.finalizers = op.orig.finalizers
    <3>1. d.finalizers = obj.finalizers
      BY <1>2, <2>1 DEF Merged
    <3> QED BY <1>1, <1>2, <3>1 DEF TrackInv, FinalizerHolds
  <2>2. CASE op.dbkp.finalizers # op.orig.finalizers
    <3>1. velero = {} /\ obj.deleting
      BY <1>1, <2>2 DEF TrackInv, FinalizerHeld
    <3> QED BY <1>2, <3>1
  <2> QED BY <2>1, <2>2
<1>6. velero \subseteq Names(obj.schedules)
  BY <1>1 DEF TrackInv, NoUntrackedSchedule
<1>7. obj' = d \/ (obj' = NoObject /\ "dmaas" \notin d.finalizers)
  BY <1>3 DEF Settle
<1>8. NoUntrackedSchedule'
  <2>1. CASE obj' = d
    <3>1. velero' \subseteq Names(obj'.schedules)
      BY <1>3, <1>4, <1>6, <2>1
    <3>2. Stored'
      BY <1>2, <2>1, ConstantsAssumption DEF Stored
    <3> QED BY <3>1, <3>2 DEF NoUntrackedSchedule
  <2>2. CASE obj' = NoObject /\ "dmaas" \notin d.finalizers
    BY <1>3, <1>5, <2>2 DEF NoUntrackedSchedule, Stored
  <2> QED BY <1>7, <2>1, <2>2
<1>9. FinalizerHolds'
  BY <1>3, <1>5, <1>7 DEF FinalizerHolds, Stored
<1>10. ListHeld' /\ CreatesWhatIsStored' /\ FinalizerHeld'
  BY <1>3 DEF ListHeld, CreatesWhatIsStored, FinalizerHeld, Busy, IdleOp
<1> QED BY <1>8, <1>9, <1>10 DEF TrackInv

LEMMA CallTrack == TypeInv /\ TrackInv /\ Call => TrackInv'
<1> SUFFICES ASSUME TypeInv, TrackInv, Call PROVE TrackInv'
  OBVIOUS
<1>1. OpOK /\ RestOK
  BY DEF TypeInv
<1>2. now \in Nat /\ 0 \in Nat /\ cache \in SUBSET Backup
  BY <1>1 DEF RestOK
<1>3. /\ Busy => Stored /\ velero \subseteq Names(obj.schedules)
      /\ op.pc = "create" => QueuedName \in Names(obj.schedules)
  <2>1. Busy => Stored /\ velero \subseteq Names(obj.schedules)
    BY DEF TrackInv, NoUntrackedSchedule, ListHeld
  <2>2. ASSUME op.pc = "create" PROVE QueuedName \in Names(obj.schedules)
    <3>1. op.dbkp.schedules = obj.schedules
      BY <2>2 DEF TrackInv, ListHeld, CreatesWhatIsStored, Busy
    <3> QED BY <1>1, <2>2, <3>1, CreatedList DEF OpOK
  <2> QED BY <2>1, <2>2
<1>4. CASE CreateSchedule
  <2>1. op.pc = "create" /\ Created(now) /\ velero' = velero \union {QueuedName}
          /\ UNCHANGED obj
    BY <1>4 DEF CreateSchedule
  <2> QED BY <1>1, <1>2, <1>3, <2>1, CreatedOpOK, ContinueTrack DEF Busy
<1>5. CASE CreateScheduleExists
  <2>1. op.pc = "create" /\ Created(0) /\ UNCHANGED <<obj, velero>>
    BY <1>5 DEF CreateScheduleExists, server
  <2> QED BY <1>1, <1>2, <1>3, <2>1, CreatedOpOK, ContinueTrack DEF Busy
<1>6. CASE CreateScheduleFails
  <2>1. op.pc = "create" /\ GiveUp /\ velero' \subseteq velero \union {QueuedName}
          /\ UNCHANGED obj
    BY <1>6 DEF CreateScheduleFails
  <2> QED BY <1>1, <1>3, <2>1, GiveUpOpOK, ContinueTrack DEF Busy
<1>7. CASE DeleteOld
  <2>1. op.pc = "deleteOld" /\ velero' \subseteq velero /\ UNCHANGED obj
    BY <1>7 DEF DeleteOld
  <2>2. Continue("cleanup",
                 [op.dbkp EXCEPT !.schedules = MarkPreviousDeleted(op.dbkp.schedules)])
    BY <1>7 DEF DeleteOld
  <2> QED BY <1>1, <1>3, <2>1, <2>2, MarkedOpOK, ContinueTrack DEF Busy
<1>8. CASE DeleteOldFails
  <2>1. op.pc = "deleteOld" /\ GiveUp /\ velero' \subseteq velero /\ UNCHANGED obj
    BY <1>8 DEF DeleteOldFails
  <2> QED BY <1>1, <1>3, <2>1, GiveUpOpOK, ContinueTrack DEF Busy
<1>9. CASE CreateBackup
  <2>1. op.pc = "createBackup" /\ UNCHANGED <<obj, velero>>
    BY <1>9 DEF CreateBackup
  <2> QED BY <1>1, <1>3, <1>9, <2>1, BackedUpOpOK, ContinueTrack DEF Busy
<1>10. CASE CreateBackupFails
  <2>1. op.pc = "createBackup" /\ GiveUp /\ UNCHANGED <<obj, velero>>
    BY <1>10 DEF CreateBackupFails
  <2> QED BY <1>1, <1>3, <2>1, GiveUpOpOK, ContinueTrack DEF Busy
<1>11. CASE Cleanup \/ CleanupSomeFail
  <2>1. op.pc = "cleanup" /\ Continue("patch", CleanedUp(op.dbkp))
          /\ UNCHANGED <<obj, velero>>
    BY <1>11 DEF Cleanup, CleanupSomeFail
  <2> QED BY <1>1, <1>2, <1>3, <2>1, CleanedOpOK, ContinueTrack DEF Busy
<1>12. CASE Finalize
  <2>1. op.pc = "finalize" /\ velero' = {} /\ UNCHANGED obj
    BY <1>12 DEF Finalize
  <2>2. /\ op'.orig = op.orig /\ op'.pc = "patch"
        /\ op'.dbkp.schedules = op.dbkp.schedules
    BY <1>1, <1>12, <2>1, FinalizedOpOK
  <2>3. Stored /\ "dmaas" \in obj.finalizers /\ obj.deleting
          /\ obj.schedules = op.orig.schedules
          /\ Names(op.orig.schedules) \subseteq Names(op.dbkp.schedules)
    BY <2>1 DEF TrackInv, ListHeld, FinalizerHeld, Busy
  <2>4. NoUntrackedSchedule' /\ FinalizerHolds'
    BY <2>1, <2>3 DEF NoUntrackedSchedule, FinalizerHolds, Stored
  <2>5. ListHeld' /\ CreatesWhatIsStored' /\ FinalizerHeld'
    BY <2>1, <2>2, <2>3 DEF ListHeld, CreatesWhatIsStored, FinalizerHeld, Stored, Busy
  <2> QED BY <2>4, <2>5 DEF TrackInv
<1>13. CASE FinalizeFails
  <2>1. op.pc = "finalize" /\ GiveUp /\ velero' \subseteq velero /\ UNCHANGED obj
    BY <1>13 DEF FinalizeFails
  <2> QED BY <1>1, <1>3, <2>1, GiveUpOpOK, ContinueTrack DEF Busy
<1>14. CASE PatchRejected \/ PatchFails
  BY <1>14, DropTrack DEF PatchRejected, PatchFails, DropPatch, server
<1> QED
  BY <1>4, <1>5, <1>6, <1>7, <1>8, <1>9, <1>10, <1>11, <1>12, <1>13, <1>14, PatchTrack DEF Call

LEMMA NextTrack ==
  ASSUME TypeInv, TrackInv, [Next]_vars, \A f \in FinalizerSets : "dmaas" \in f
  PROVE  TrackInv'
<1>1. CASE UNCHANGED vars
  BY <1>1, QuietTrack DEF vars, server
<1>2. CASE Sync \/ Skip \/ SyncCache \/ Tick
  BY <1>2, QuietTrack DEF Sync, Skip, SyncCache, Tick, server
<1>3. CASE Velero
  BY <1>3, QuietTrack
     DEF Velero, RunSchedule, FinishBackup, StartDeletion, EndDeletion, RejectRequest
<1>4. CASE Crash
  BY <1>4, DropTrack DEF Crash, server
<1>5. CASE User
  BY <1>5, UserTrack
<1>6. CASE Reconcile \/ Call
  BY <1>6, ReconcileTrack, CallTrack
<1> QED BY <1>1, <1>2, <1>3, <1>4, <1>5, <1>6 DEF Next

\* If users give their objects the operator's finalizer, then whatever call
\* fails or is answered too late, whatever patch is lost and whenever the
\* process dies, every live Velero schedule is named in the status of a stored
\* object, so the deletion of that object deletes the schedule.
THEOREM NothingUntracked ==
  ASSUME \A f \in FinalizerSets : "dmaas" \in f
  PROVE  Spec => []NoUntrackedSchedule
<1>1. TypeInv /\ TrackInv /\ [Next]_vars => TrackInv'
  BY NextTrack
<1>2. TrackInv => NoUntrackedSchedule
  BY DEF TrackInv
<1> QED BY InitTrack, <1>1, <1>2, AlwaysTypeInv, PTL DEF Spec

-----------------------------------------------------------------------------
(* What a step does to the lists.                                          *)

LEMMA KnownLists ==
  ASSUME TypeInv
  PROVE  /\ now \in Nat
         /\ Stored => obj \in Object /\ obj.schedules \in Seq(Entry)
         /\ op.pc # "idle" => /\ op.dbkp \in Object /\ op.dbkp.schedules \in Seq(Entry)
                              /\ op.orig \in Object /\ op.orig.schedules \in Seq(Entry)
<1>1. \A o \in Object : o.schedules \in Seq(Entry)
  BY DEF Object
<1>2. now \in Nat /\ (Stored => obj \in Object)
        /\ (op.pc # "idle" => op.dbkp \in Object /\ op.orig \in Object)
  BY DEF TypeInv, OpOK, RestOK, Stored
<1> QED BY <1>1, <1>2

\* The user leaves the list alone; that of a new object is empty.
LEMMA UserLists ==
  ASSUME TypeInv, User
  PROVE  Stored' => \/ obj'.schedules = <<>>
                    \/ Stored /\ obj'.schedules = obj.schedules
<1>1. CASE UserCreate
  <2>1. PICK sp \in Specs, f \in FinalizerSets : obj' = NewObject(sp, f)
    BY <1>1 DEF UserCreate
  <2> QED BY <2>1 DEF NewObject
<1>2. CASE UserEdit
  <2>1. PICK sp \in Specs : obj' = [obj EXCEPT !.spec = sp]
    BY <1>2 DEF UserEdit
  <2>2. obj \in Object /\ Stored /\ sp \in SpecType
    BY <1>2, ConstantsAssumption, KnownLists DEF UserEdit
  <2> QED BY <2>1, <2>2, ObjectUpdates
<1>3. CASE UserDelete
  <2> DEFINE d == [obj EXCEPT !.deleting = TRUE]
  <2>1. obj \in Object /\ Stored /\ obj' = Settle(d)
    BY <1>3, KnownLists DEF UserDelete
  <2>2. d.schedules = obj.schedules
    BY <2>1, ObjectUpdates
  <2> HIDE DEF d
  <2> QED BY <2>1, <2>2 DEF Settle, Stored
<1>4. CASE OtherFinalizerRemoved
  <2> DEFINE f == obj.finalizers \ {"other"}
             d == [obj EXCEPT !.finalizers = f]
  <2>1. obj \in Object /\ Stored /\ obj' = Settle(d)
    BY <1>4, KnownLists DEF OtherFinalizerRemoved
  <2>2. f \in SUBSET Finalizer
    BY <2>1 DEF Object
  <2> HIDE DEF f
  <2>3. d.schedules = obj.schedules
    BY <2>1, <2>2, ObjectUpdates
  <2> HIDE DEF d
  <2> QED BY <2>1, <2>3 DEF Settle, Stored
<1> QED BY <1>1, <1>2, <1>3, <1>4 DEF User

\* What a step does to the stored list.
LEMMA StoredSteps ==
  ASSUME TypeInv, [Next]_vars, Stored'
  PROVE  \/ obj'.schedules = <<>>
         \/ Stored /\ obj'.schedules = obj.schedules
         \/ op.pc = "patch" /\ obj'.schedules = op.dbkp.schedules
<1>1. CASE User
  BY <1>1, UserLists
<1>2. CASE Patch
  <2>1. /\ op.pc = "patch" /\ Stored /\ obj \in Object /\ obj' = Settle(Patched(obj))
        /\ op.orig \in Object /\ op.dbkp \in Object
    BY <1>2, KnownLists DEF Patch, Accepted
  <2>2. Patched(obj).schedules \in {obj.schedules, op.dbkp.schedules}
    BY <2>1, PatchedObject DEF Merged
  <2>3. obj' = Patched(obj)
    BY <2>1 DEF Settle, Stored
  <2> QED BY <2>1, <2>2, <2>3
<1>3. CASE ~User /\ ~Patch
  <2>1. obj' = obj
    BY <1>3 DEF Next, Sync, Skip, Crash, SyncCache, Tick, vars, Reconcile, ReconcileQueued,
                ReconcileInvalidCron, ReconcileNotDue, ReconcileReserve, ReconcileOnce,
                ReconcileMade, ReconcileDeleting, Begin, Call, CreateSchedule,
                CreateScheduleExists, CreateScheduleFails, DeleteOld, DeleteOldFails,
                CreateBackup, CreateBackupFails, Cleanup, CleanupSomeFail, Finalize,
                FinalizeFails, PatchRejected, PatchFails, DropPatch, Velero, RunSchedule,
                FinishBackup, StartDeletion, EndDeletion, RejectRequest
  <2> QED BY <2>1 DEF Stored
<1> QED BY <1>1, <1>2, <1>3

\* What a step does to the list of the copy.
LEMMA CopySteps ==
  ASSUME TypeInv, [Next]_vars, op'.pc # "idle"
  PROVE  \/ op' = op
         \/ op'.pc # "deleteOld" /\ Stored /\ op'.dbkp.schedules = obj.schedules
         \/ /\ op'.pc # "deleteOld" /\ op.pc # "idle"
            /\ op'.dbkp.schedules = op.dbkp.schedules
         \/ ReconcileReserve \/ CreateSchedule \/ CreateScheduleExists \/ DeleteOld
         \/ /\ op.pc = "cleanup" /\ Continue("patch", CleanedUp(op.dbkp))
            /\ UNCHANGED <<backups, cache, now>>
<1>1. CASE Reconcile
  <2>1. SUFFICES ASSUME ~ReconcileReserve
                 PROVE  op'.pc # "deleteOld" /\ Stored /\ op'.dbkp.schedules = obj.schedules
    BY <1>1
  <2>2. Stored /\ obj \in Object
    BY <1>1, KnownLists
       DEF Reconcile, ReconcileQueued, ReconcileInvalidCron, ReconcileNotDue, ReconcileReserve,
           ReconcileOnce, ReconcileMade, ReconcileDeleting, Executes
  <2> DEFINE r == [Started(obj) EXCEPT !.reason = TRUE]
  <2>3. r.schedules = obj.schedules /\ Started(obj).schedules = obj.schedules
    <3>1. Started(obj) \in Object /\ Started(obj).schedules = obj.schedules
      BY <2>2, StartedObject
    <3> QED BY ONLY <3>1, ObjectUpdates
  <2>4. PICK pc \in {"create", "patch", "cleanup", "createBackup", "finalize"},
             o \in {Started(obj), r} : Begin(pc, o, FALSE)
    BY <1>1, <2>1
       DEF Reconcile, ReconcileQueued, ReconcileInvalidCron, ReconcileNotDue, ReconcileOnce,
           ReconcileMade, ReconcileDeleting
  <2> HIDE DEF r
  <2>5. op'.pc = pc /\ op'.dbkp = o
    BY <2>4 DEF Begin
  <2> QED BY <2>2, <2>3, <2>4, <2>5
<1>2. CASE CreateScheduleFails \/ DeleteOldFails \/ CreateBackupFails \/ FinalizeFails
  <2>1. op.pc # "idle" /\ GiveUp /\ OpOK
    BY <1>2 DEF CreateScheduleFails, DeleteOldFails, CreateBackupFails, FinalizeFails, TypeInv
  <2> QED BY <2>1, GiveUpOpOK
<1>3. CASE CreateBackup
  <2>1. OpOK /\ op.pc = "createBackup"
    BY <1>3 DEF CreateBackup, TypeInv
  <2> QED BY <1>3, <2>1, BackedUpOpOK
<1>4. CASE Finalize
  <2>1. OpOK /\ op.pc = "finalize"
    BY <1>4 DEF Finalize, TypeInv
  <2> QED BY <1>4, <2>1, FinalizedOpOK
<1>5. CASE Cleanup \/ CleanupSomeFail
  BY <1>5 DEF Cleanup, CleanupSomeFail
<1>6. CASE Patch \/ PatchRejected \/ PatchFails \/ Crash
  BY <1>6 DEF Patch, PatchRejected, PatchFails, DropPatch, Crash, IdleOp
<1>7. CASE User \/ Sync \/ Skip \/ Velero \/ SyncCache \/ Tick \/ UNCHANGED vars
  BY <1>7 DEF User, UserCreate, UserEdit, UserDelete, OtherFinalizerRemoved, Sync, Skip, Velero,
              RunSchedule, FinishBackup, StartDeletion, EndDeletion, RejectRequest, SyncCache,
              Tick, vars
<1> QED BY <1>1, <1>2, <1>3, <1>4, <1>5, <1>6, <1>7 DEF Next, Call

-----------------------------------------------------------------------------
(* The clean-up does not panic.                                            *)

\* The stored list and the copy's have an active entry, or have not got as
\* far; the hand-over, which marks one of them deleted, has two.
SliceInv ==
  /\ Stored => Listed(obj.schedules)
  /\ op.pc # "idle" => Listed(op.dbkp.schedules)
  /\ op.pc = "create" => HasQueued(op.dbkp.schedules)
  /\ op.pc = "deleteOld" => HasTwoActive(op.dbkp.schedules)

LEMMA InitSlice == Init => SliceInv
  BY DEF Init, IdleOp, Stored, SliceInv

LEMMA EmptyListed == Listed(<<>>)
  BY DEF Listed

\* Whatever happens to the object that leaves its list alone.
LEMMA SameListSlice ==
  ASSUME SliceInv, op' = op \/ op' = IdleOp,
         Stored' => Listed(obj'.schedules)
  PROVE  SliceInv'
  BY DEF SliceInv, IdleOp

LEMMA UserSlice == TypeInv /\ SliceInv /\ User => SliceInv'
<1> SUFFICES ASSUME TypeInv, SliceInv, User PROVE SliceInv'
  OBVIOUS
<1>1. op' = op
  BY DEF User, UserCreate, UserEdit, UserDelete, OtherFinalizerRemoved
<1>2. Stored' => Listed(obj'.schedules)
  BY UserLists, EmptyListed DEF SliceInv
<1> QED BY <1>1, <1>2, SameListSlice

LEMMA BeginSlice ==
  ASSUME SliceInv, NEW pc, NEW o, NEW requeue, Begin(pc, o, requeue), pc # "deleteOld",
         Listed(o.schedules), pc = "create" => HasQueued(o.schedules)
  PROVE  SliceInv'
  BY DEF Begin, SliceInv, Stored

LEMMA ReconcileSlice == TypeInv /\ SliceInv /\ Reconcile => SliceInv'
<1> SUFFICES ASSUME TypeInv, SliceInv, Reconcile PROVE SliceInv'
  OBVIOUS
<1>1. Stored /\ obj \in Object /\ Listed(obj.schedules)
  BY DEF Reconcile, ReconcileQueued, ReconcileInvalidCron, ReconcileNotDue, ReconcileReserve,
         ReconcileOnce, ReconcileMade, ReconcileDeleting, Executes, TypeInv, Stored, SliceInv
<1>2. Started(obj) \in Object /\ Started(obj).schedules = obj.schedules
  BY <1>1, StartedObject
<1>3. CASE ReconcileQueued
  BY <1>1, <1>2, <1>3, BeginSlice DEF ReconcileQueued
<1>4. CASE ReconcileInvalidCron
  <2> DEFINE o == [Started(obj) EXCEPT !.reason = TRUE]
  <2>1. o.schedules = obj.schedules
    BY <1>2, ObjectUpdates
  <2>2. Begin("patch", o, FALSE)
    BY <1>4 DEF ReconcileInvalidCron
  <2> HIDE DEF o
  <2> QED BY <1>1, <2>1, <2>2, BeginSlice
<1>5. CASE ReconcileNotDue
  BY <1>1, <1>2, <1>5, BeginSlice DEF ReconcileNotDue
<1>6. CASE ReconcileReserve
  <2> DEFINE s == AddEmpty(Started(obj).schedules, now)
             o == [Started(obj) EXCEPT !.schedules = s]
  <2>1. obj.schedules \in Seq(Entry) /\ now \in Nat
    BY <1>1 DEF Object, TypeInv, RestOK
  <2>2. obj.schedules = <<>> \/ ~HasQueued(obj.schedules)
    BY <1>6 DEF ReconcileReserve
  <2>3. s \in Seq(Entry) /\ Listed(s)
    BY <1>1, <1>2, <2>1, <2>2, AddEmptyNames, AddEmptyListed
  <2>4. Begin("cleanup", o, TRUE)
    BY <1>6 DEF ReconcileReserve
  <2> HIDE DEF s
  <2>5. o.schedules = s
    BY <1>2, <2>3, ObjectUpdates
  <2> HIDE DEF o
  <2> QED BY <2>3, <2>4, <2>5, BeginSlice
<1>7. CASE ReconcileOnce
  BY <1>1, <1>2, <1>7, BeginSlice DEF ReconcileOnce
<1>8. CASE ReconcileMade
  BY <1>1, <1>2, <1>8, BeginSlice DEF ReconcileMade
<1>9. CASE ReconcileDeleting
  <2>1. PICK pc \in {"finalize", "patch"} : Begin(pc, Started(obj), FALSE)
    BY <1>9 DEF ReconcileDeleting
  <2> QED BY <1>1, <1>2, <2>1, BeginSlice
<1> QED BY <1>3, <1>4, <1>5, <1>6, <1>7, <1>8, <1>9 DEF Reconcile

\* A call that goes on with another list.
LEMMA ContinueSlice ==
  ASSUME SliceInv, UNCHANGED obj, op'.pc # "create", Listed(op'.dbkp.schedules),
         op'.pc = "deleteOld" => HasTwoActive(op'.dbkp.schedules)
  PROVE  SliceInv'
  BY DEF SliceInv, Stored

LEMMA CreatedSlice ==
  ASSUME OpOK, SliceInv, UNCHANGED obj, op.pc = "create", NEW t \in Nat, Created(t)
  PROVE  SliceInv'
<1> DEFINE s == UpdateEmpty(op.dbkp.schedules, t)
           o == [op.dbkp EXCEPT !.schedules = s]
           pc == IF Periodic(op.dbkp) /\ HasPrevious(s) THEN "deleteOld" ELSE "cleanup"
<1>1. /\ op.dbkp \in Object /\ op.dbkp.schedules # <<>>
      /\ op.dbkp.schedules \in Seq(Entry)
  BY DEF OpOK, Object
<1>2. s \in Seq(Entry) /\ Listed(s) /\ (HasPrevious(s) => HasTwoActive(s))
  BY <1>1, CreatedList, UpdateEmptyListed DEF SliceInv
<1>3. o \in Object /\ o.schedules = s
  BY <1>1, <1>2, ObjectUpdates
<1>4. Continue(pc, o)
  BY DEF Created
<1>5. pc \in {"deleteOld", "cleanup"} /\ (pc = "deleteOld" => HasPrevious(s))
  OBVIOUS
<1> HIDE DEF s, o, pc
<1>6. op'.dbkp = o /\ op'.pc = pc
  BY <1>3, <1>4, <1>5, ContinueOpOK
<1> QED BY <1>2, <1>3, <1>5, <1>6, ContinueSlice

LEMMA GiveUpSlice ==
  ASSUME OpOK, SliceInv, UNCHANGED obj, op.pc # "idle", GiveUp
  PROVE  SliceInv'
<1>1. op'.pc = "patch" /\ op'.dbkp.schedules = op.dbkp.schedules
  BY GiveUpOpOK
<1> QED BY <1>1, ContinueSlice DEF SliceInv

LEMMA MarkedSlice ==
  ASSUME OpOK, SliceInv, DeleteOld
  PROVE  SliceInv'
<1> DEFINE s == MarkPreviousDeleted(op.dbkp.schedules)
           o == [op.dbkp EXCEPT !.schedules = s]
<1>1. /\ op.dbkp \in Object /\ op.dbkp.schedules \in Seq(Entry)
      /\ HasPrevious(op.dbkp.schedules) /\ op.pc # "idle"
  BY DEF DeleteOld, OpOK, Object
<1>2. s \in Seq(Entry) /\ Listed(s)
  BY <1>1, MarkNames, MarkListed DEF SliceInv, DeleteOld
<1>3. o \in Object /\ o.schedules = s
  BY <1>1, <1>2, ObjectUpdates
<1>4. Continue("cleanup", o) /\ UNCHANGED obj
  BY DEF DeleteOld
<1> HIDE DEF s, o
<1>5. op'.dbkp = o /\ op'.pc = "cleanup"
  BY <1>1, <1>3, <1>4, ContinueOpOK
<1> QED BY <1>2, <1>3, <1>4, <1>5, ContinueSlice

LEMMA CleanedSlice ==
  ASSUME TypeInv, SliceInv, UNCHANGED obj, op.pc = "cleanup",
         Continue("patch", CleanedUp(op.dbkp))
  PROVE  SliceInv'
<1> DEFINE o == op.dbkp
           m == Erase(o.schedules, o.spec.keep, o.spec.check, cache)
           e == [o EXCEPT !.schedules = m]
<1>1. o \in Object /\ o.schedules \in Seq(Entry) /\ Listed(o.schedules) /\ OpOK
        /\ cache \in SUBSET Backup
  BY DEF TypeInv, OpOK, Object, SliceInv, RestOK
<1>2. m \in Seq(Entry) /\ Listed(m)
  BY <1>1, EraseNames, EraseListed
<1>3. e.schedules = m
  <2> HIDE DEF m
  <2> QED BY <1>1, <1>2, ObjectUpdates
<1>4. CleanedUp(o) \in {o, e}
  BY DEF CleanedUp
<1> HIDE DEF m, e
<1>5. Listed(CleanedUp(o).schedules)
  BY <1>1, <1>2, <1>3, <1>4
<1>6. CleanedUp(o) \in Object
  BY <1>1, CleanupEffect
<1>7. op'.dbkp = CleanedUp(o) /\ op'.pc = "patch"
  BY <1>1, <1>6, ContinueOpOK
<1> QED BY <1>5, <1>7, ContinueSlice

LEMMA PatchSlice == TypeInv /\ SliceInv /\ Patch => SliceInv'
<1> SUFFICES ASSUME TypeInv, SliceInv, Patch PROVE SliceInv'
  OBVIOUS
<1>1. /\ op.pc = "patch" /\ Stored /\ obj \in Object
      /\ op.orig \in Object /\ op.dbkp \in Object
  BY DEF Patch, Accepted, TypeInv, OpOK, Stored
<1> DEFINE d == Patched(obj)
<1>2. /\ d \in Object
      /\ d.schedules = Merged(obj.schedules, op.orig.schedules, op.dbkp.schedules)
  BY <1>1, PatchedObject
<1>3. obj' = Settle(d) /\ op' = IdleOp
  BY DEF Patch
<1> HIDE DEF d
<1>4. Listed(d.schedules)
  BY <1>1, <1>2 DEF Merged, SliceInv
<1>5. Stored' => obj' = d
  BY <1>2, <1>3, SettledObject DEF Stored
<1> QED BY <1>3, <1>4, <1>5, SameListSlice

LEMMA CallSlice == TypeInv /\ SliceInv /\ Call => SliceInv'
<1> SUFFICES ASSUME TypeInv, SliceInv, Call PROVE SliceInv'
  OBVIOUS
<1>1. OpOK /\ now \in Nat /\ 0 \in Nat
  BY DEF TypeInv, RestOK
<1>2. CASE CreateSchedule
  BY <1>1, <1>2, CreatedSlice DEF CreateSchedule
<1>3. CASE CreateScheduleExists
  BY <1>1, <1>3, CreatedSlice DEF CreateScheduleExists
<1>4. CASE CreateScheduleFails \/ DeleteOldFails \/ CreateBackupFails \/ FinalizeFails
  <2>1. UNCHANGED obj /\ op.pc # "idle" /\ GiveUp
    BY <1>4 DEF CreateScheduleFails, DeleteOldFails, CreateBackupFails, FinalizeFails
  <2> QED BY <1>1, <2>1, GiveUpSlice
<1>5. CASE DeleteOld
  BY <1>1, <1>5, MarkedSlice
<1>6. CASE CreateBackup
  <2>1. UNCHANGED obj /\ op.pc = "createBackup"
    BY <1>6 DEF CreateBackup
  <2>2. op'.pc = "cleanup" /\ op'.dbkp.schedules = op.dbkp.schedules
    BY <1>1, <1>6, <2>1, BackedUpOpOK
  <2> QED BY <2>1, <2>2, ContinueSlice DEF SliceInv
<1>7. CASE Cleanup \/ CleanupSomeFail
  <2>1. UNCHANGED obj /\ op.pc = "cleanup" /\ Continue("patch", CleanedUp(op.dbkp))
    BY <1>7 DEF Cleanup, CleanupSomeFail
  <2> QED BY <2>1, CleanedSlice
<1>8. CASE Finalize
  <2>1. UNCHANGED obj /\ op.pc = "finalize"
    BY <1>8 DEF Finalize
  <2>2. op'.pc = "patch" /\ op'.dbkp.schedules = op.dbkp.schedules
    BY <1>1, <1>8, <2>1, FinalizedOpOK
  <2> QED BY <2>1, <2>2, ContinueSlice DEF SliceInv
<1>9. CASE PatchRejected \/ PatchFails
  <2>1. UNCHANGED obj /\ op' = IdleOp
    BY <1>9 DEF PatchRejected, PatchFails, DropPatch
  <2> QED BY <2>1, SameListSlice DEF SliceInv, Stored
<1> QED
  BY <1>2, <1>3, <1>4, <1>5, <1>6, <1>7, <1>8, <1>9, PatchSlice DEF Call

LEMMA NextSlice == TypeInv /\ SliceInv /\ [Next]_vars => SliceInv'
<1> SUFFICES ASSUME TypeInv, SliceInv, [Next]_vars PROVE SliceInv'
  OBVIOUS
<1>1. CASE UNCHANGED vars
  BY <1>1, SameListSlice DEF vars, SliceInv, Stored
<1>2. CASE Sync \/ Skip \/ SyncCache \/ Tick
  BY <1>2, SameListSlice DEF Sync, Skip, SyncCache, Tick, SliceInv, Stored
<1>3. CASE Velero
  BY <1>3, SameListSlice
     DEF Velero, RunSchedule, FinishBackup, StartDeletion, EndDeletion, RejectRequest,
         SliceInv, Stored
<1>4. CASE Crash
  BY <1>4, SameListSlice DEF Crash, SliceInv, Stored
<1>5. CASE User \/ Reconcile \/ Call
  BY <1>5, UserSlice, ReconcileSlice, CallSlice
<1> QED BY <1>1, <1>2, <1>3, <1>4, <1>5 DEF Next

LEMMA SliceInvBounds == TypeInv /\ SliceInv => SliceInBounds
<1> SUFFICES ASSUME TypeInv, SliceInv, op.pc = "cleanup", op.dbkp.spec.keep # 0
             PROVE  SliceExists(op.dbkp.schedules, op.dbkp.spec.keep, op.dbkp.spec.check, cache)
  BY DEF SliceInBounds
<1>1. op.dbkp.schedules \in Seq(Entry) /\ op.dbkp.spec.keep \in Nat \ {0}
  BY DEF TypeInv, OpOK, Object, SpecType
<1> QED BY <1>1, ListedSlice DEF SliceInv

\* cleanupPeriodicSchedule never slices VeleroSchedules beyond its length, so it
\* does not panic, whatever the threshold, the backups in the cache, the edits
\* of the spec and the faults before it.
THEOREM NoSlicePanic == Spec => []SliceInBounds
<1>1. TypeInv /\ SliceInv /\ [Next]_vars => SliceInv'
  BY NextSlice
<1>2. TypeInv /\ SliceInv => SliceInBounds
  BY SliceInvBounds
<1> QED BY InitSlice, <1>1, <1>2, AlwaysTypeInv, PTL DEF Spec

-----------------------------------------------------------------------------
(* Completed means backed up.                                              *)

\* CompletedMeansBackedUp is about what is stored; the copy in memory is what
\* the next patch stores, whatever happened to the object since it was read.
DoneInv ==
  /\ CompletedMeansBackedUp
  /\ op.pc # "idle" /\ op.dbkp.phase = "Completed" => oneShot

LEMMA InitDone == Init => DoneInv
  BY DEF Init, IdleOp, Stored, DoneInv, CompletedMeansBackedUp

\* Writing another field of a record with an object's fields leaves its phase.
LEMMA PhaseKept ==
  ASSUME NEW P, NEW B,
         NEW o \in [spec : SpecType, deleting : BOOLEAN, finalizers : SUBSET Finalizer,
                    phase : P, reason : BOOLEAN, schedules : Seq(Entry), backupName : B]
  PROVE  /\ \A s : [o EXCEPT !.schedules = s].phase = o.phase
         /\ \A f : [o EXCEPT !.finalizers = f].phase = o.phase
         /\ \A sp : [o EXCEPT !.spec = sp].phase = o.phase
         /\ \A r : [o EXCEPT !.reason = r].phase = o.phase
         /\ \A d : [o EXCEPT !.deleting = d].phase = o.phase
         /\ Started(o).phase = "InProgress"
         /\ Patched(o).phase = Merged(o.phase, op.orig.phase, op.dbkp.phase)
  BY DEF Started, Patched

\* The phase of an object after each write but the one that completes it.
LEMMA ObjectPhase ==
  ASSUME NEW o \in Object
  PROVE  /\ \A s : [o EXCEPT !.schedules = s].phase = o.phase
         /\ \A f : [o EXCEPT !.finalizers = f].phase = o.phase
         /\ \A sp : [o EXCEPT !.spec = sp].phase = o.phase
         /\ \A r : [o EXCEPT !.reason = r].phase = o.phase
         /\ \A d : [o EXCEPT !.deleting = d].phase = o.phase
         /\ Started(o).phase = "InProgress"
         /\ Patched(o).phase = Merged(o.phase, op.orig.phase, op.dbkp.phase)
         /\ CleanedUp(o).phase = o.phase
<1>1. /\ \A s : [o EXCEPT !.schedules = s].phase = o.phase
      /\ \A f : [o EXCEPT !.finalizers = f].phase = o.phase
      /\ \A sp : [o EXCEPT !.spec = sp].phase = o.phase
      /\ \A r : [o EXCEPT !.reason = r].phase = o.phase
      /\ \A d : [o EXCEPT !.deleting = d].phase = o.phase
      /\ Started(o).phase = "InProgress"
      /\ Patched(o).phase = Merged(o.phase, op.orig.phase, op.dbkp.phase)
  BY PhaseKept DEF Object
<1>2. CleanedUp(o).phase = o.phase
  BY <1>1 DEF CleanedUp
<1> QED BY <1>1, <1>2

\* What leaves the phases alone, or stores nothing new, keeps the invariant.
LEMMA SamePhaseDone ==
  ASSUME DoneInv, op' = op \/ op' = IdleOp, oneShot => oneShot',
         Stored' /\ obj'.phase = "Completed" => oneShot
  PROVE  DoneInv'
<1>1. CompletedMeansBackedUp'
  BY DEF CompletedMeansBackedUp
<1>2. op' = IdleOp => op'.pc = "idle"
  BY DEF IdleOp
<1>3. op'.pc # "idle" /\ op'.dbkp.phase = "Completed" => oneShot'
  BY <1>2 DEF DoneInv
<1> QED BY <1>1, <1>3 DEF DoneInv

\* No step takes the one backup away.
LEMMA BackupStays == Next /\ oneShot => oneShot'
<1> SUFFICES ASSUME Next, oneShot PROVE oneShot'
  OBVIOUS
<1>1. CASE CreateBackup \/ CreateBackupFails
  BY <1>1 DEF CreateBackup, CreateBackupFails
<1>2. CASE ~CreateBackup /\ ~CreateBackupFails
  BY <1>2 DEF Next, User, UserCreate, UserEdit, UserDelete, OtherFinalizerRemoved, Sync, Skip,
              Crash, SyncCache, Tick, Reconcile, ReconcileQueued, ReconcileInvalidCron,
              ReconcileNotDue, ReconcileReserve, ReconcileOnce, ReconcileMade,
              ReconcileDeleting, Begin, Call, CreateSchedule, CreateScheduleExists,
              CreateScheduleFails, DeleteOld, DeleteOldFails, Cleanup, CleanupSomeFail,
              Finalize, FinalizeFails, Patch, PatchRejected, PatchFails, DropPatch, Velero,
              RunSchedule, FinishBackup, StartDeletion, EndDeletion, RejectRequest, server
<1> QED BY <1>1, <1>2

LEMMA UserDone == TypeInv /\ DoneInv /\ User => DoneInv'
<1> SUFFICES ASSUME TypeInv, DoneInv, User PROVE DoneInv'
  OBVIOUS
<1>1. op' = op /\ oneShot' = oneShot
  BY DEF User, UserCreate, UserEdit, UserDelete, OtherFinalizerRemoved, server
<1>2. CASE UserCreate
  <2>1. PICK sp \in Specs, f \in FinalizerSets : obj' = NewObject(sp, f)
    BY <1>2 DEF UserCreate
  <2>2. obj'.phase = ""
    BY <2>1 DEF NewObject
  <2>3. obj'.phase # "Completed"
    BY <2>2
  <2> QED BY <1>1, <2>3, SamePhaseDone
<1>3. CASE UserEdit
  <2>1. PICK sp \in Specs : obj' = [obj EXCEPT !.spec = sp]
    BY <1>3 DEF UserEdit
  <2>2. obj \in Object /\ sp \in SpecType /\ Stored
    BY <1>3, ConstantsAssumption DEF UserEdit, TypeInv, Stored
  <2>3. obj'.phase = obj.phase
    BY <2>1, <2>2, ObjectPhase
  <2> QED BY <1>1, <2>2, <2>3, SamePhaseDone DEF DoneInv, CompletedMeansBackedUp
<1>4. CASE UserDelete \/ OtherFinalizerRemoved
  <2> DEFINE d == [obj EXCEPT !.deleting = TRUE]
             f == obj.finalizers \ {"other"}
             e == [obj EXCEPT !.finalizers = f]
  <2>1. obj \in Object /\ Stored
    BY <1>4 DEF UserDelete, OtherFinalizerRemoved, TypeInv, Stored
  <2>2. obj' = Settle(d) \/ obj' = Settle(e)
    BY <1>4 DEF UserDelete, OtherFinalizerRemoved
  <2> HIDE DEF f
  <2>3. d.phase = obj.phase /\ e.phase = obj.phase
    BY <2>1, ObjectPhase
  <2> HIDE DEF d, e
  <2>4. Stored' => obj'.phase = obj.phase
    BY <2>2, <2>3 DEF Settle, Stored
  <2> QED BY <1>1, <2>1, <2>4, SamePhaseDone DEF DoneInv, CompletedMeansBackedUp
<1> QED BY <1>2, <1>3, <1>4 DEF User

\* A reconciliation starts with the phase InProgress.
LEMMA BeginDone ==
  ASSUME DoneInv, NEW pc, NEW o, NEW requeue, Begin(pc, o, requeue), o.phase = "InProgress"
  PROVE  DoneInv'
<1>1. obj' = obj /\ oneShot' = oneShot
  BY DEF Begin, server
<1>2. op'.dbkp.phase # "Completed"
  BY DEF Begin
<1>3. CompletedMeansBackedUp'
  BY <1>1 DEF DoneInv, CompletedMeansBackedUp, Stored
<1> QED BY <1>2, <1>3 DEF DoneInv

LEMMA ReconcileDone == TypeInv /\ DoneInv /\ Reconcile => DoneInv'
<1> SUFFICES ASSUME TypeInv, DoneInv, Reconcile PROVE DoneInv'
  OBVIOUS
<1> DEFINE r == [Started(obj) EXCEPT !.reason = TRUE]
           a == [Started(obj) EXCEPT !.schedules = AddEmpty(Started(obj).schedules, now)]
<1>1. obj \in Object
  BY DEF Reconcile, ReconcileQueued, ReconcileInvalidCron, ReconcileNotDue, ReconcileReserve,
         ReconcileOnce, ReconcileMade, ReconcileDeleting, Executes, TypeInv, Stored
<1>2. /\ Started(obj) \in Object /\ Started(obj).schedules = obj.schedules
      /\ Started(obj).phase = "InProgress"
  BY <1>1, StartedObject, ObjectPhase
<1>3. r.phase = "InProgress"
  BY <1>2, ObjectPhase
<1>4. a.phase = "InProgress"
  BY <1>2, ObjectPhase
<1> HIDE DEF r, a
<1>5. CASE ReconcileQueued
  BY <1>2, <1>5, BeginDone DEF ReconcileQueued
<1>6. CASE ReconcileInvalidCron
  BY <1>3, <1>6, BeginDone DEF ReconcileInvalidCron, r
<1>7. CASE ReconcileNotDue
  BY <1>2, <1>7, BeginDone DEF ReconcileNotDue
<1>8. CASE ReconcileReserve
  BY <1>4, <1>8, BeginDone DEF ReconcileReserve, a
<1>9. CASE ReconcileOnce
  BY <1>2, <1>9, BeginDone DEF ReconcileOnce
<1>10. CASE ReconcileMade
  BY <1>2, <1>10, BeginDone DEF ReconcileMade
<1>11. CASE ReconcileDeleting
  BY <1>2, <1>11, BeginDone DEF ReconcileDeleting
<1> QED BY <1>5, <1>6, <1>7, <1>8, <1>9, <1>10, <1>11 DEF Reconcile

\* A call that goes on with a copy in the same phase.
LEMMA ContinueDone ==
  ASSUME OpOK, DoneInv, op.pc # "idle", UNCHANGED obj, oneShot => oneShot',
         NEW pc, NEW o, Continue(pc, o), o.phase = op.dbkp.phase
  PROVE  DoneInv'
<1>1. op' = [op EXCEPT !.pc = pc, !.dbkp = o] /\ op \in OpType
  BY DEF Continue, OpOK
<1>2. op'.dbkp = o
  BY <1>1 DEF OpType
<1> QED BY <1>2 DEF DoneInv, CompletedMeansBackedUp, Stored

\* The phase is Completed only once the backup is there.
LEMMA BackedUpDone ==
  ASSUME DoneInv, CreateBackup
  PROVE  DoneInv'
<1>1. oneShot' /\ UNCHANGED obj
  BY DEF CreateBackup
<1> QED BY <1>1 DEF DoneInv, CompletedMeansBackedUp

LEMMA PatchDone == TypeInv /\ DoneInv /\ Patch => DoneInv'
<1> SUFFICES ASSUME TypeInv, DoneInv, Patch PROVE DoneInv'
  OBVIOUS
<1>1. op.pc # "idle" /\ Stored /\ obj \in Object
  BY DEF Patch, Accepted, TypeInv, Stored
<1> DEFINE d == Patched(obj)
<1>2. d.phase = Merged(obj.phase, op.orig.phase, op.dbkp.phase)
  BY <1>1, ObjectPhase
<1>3. obj' = Settle(d) /\ op' = IdleOp /\ oneShot' = oneShot
  BY DEF Patch, server
<1> HIDE DEF d
<1>4. d.phase \in {obj.phase, op.dbkp.phase}
  BY <1>2 DEF Merged
<1>5. Stored' => obj' = d
  BY <1>3 DEF Settle, Stored
<1> QED BY <1>1, <1>3, <1>4, <1>5, SamePhaseDone DEF DoneInv, CompletedMeansBackedUp

LEMMA CallDone == TypeInv /\ DoneInv /\ Call => DoneInv'
<1> SUFFICES ASSUME TypeInv, DoneInv, Call PROVE DoneInv'
  OBVIOUS
<1>1. OpOK
  BY DEF TypeInv
<1>2. ASSUME op.pc = "create", NEW t, Created(t), UNCHANGED <<obj, oneShot>>
      PROVE  DoneInv'
  <2> DEFINE s == UpdateEmpty(op.dbkp.schedules, t)
             o == [op.dbkp EXCEPT !.schedules = s]
             pc == IF Periodic(op.dbkp) /\ HasPrevious(s) THEN "deleteOld" ELSE "cleanup"
  <2>1. op.dbkp \in Object
    BY <1>1, <1>2 DEF OpOK
  <2>2. Continue(pc, o)
    BY <1>2 DEF Created
  <2> HIDE DEF s, pc
  <2>3. o.phase = op.dbkp.phase
    BY <2>1, ObjectPhase
  <2> HIDE DEF o
  <2> QED BY <1>1, <1>2, <2>2, <2>3, ContinueDone
<1>3. CASE CreateSchedule \/ CreateScheduleExists
  BY <1>1, <1>2, <1>3 DEF CreateSchedule, CreateScheduleExists, server
<1>4. CASE CreateScheduleFails \/ DeleteOldFails \/ CreateBackupFails \/ FinalizeFails
  <2> DEFINE o == [op.dbkp EXCEPT !.reason = TRUE]
  <2>1. /\ UNCHANGED obj /\ op.pc # "idle" /\ Continue("patch", o)
        /\ oneShot => oneShot'
    BY <1>4 DEF CreateScheduleFails, DeleteOldFails, CreateBackupFails, FinalizeFails, GiveUp
  <2>2. o.phase = op.dbkp.phase
    BY <1>1, <2>1, ObjectPhase DEF OpOK
  <2> HIDE DEF o
  <2> QED BY <1>1, <2>1, <2>2, ContinueDone
<1>5. CASE DeleteOld
  <2> DEFINE o == [op.dbkp EXCEPT !.schedules = MarkPreviousDeleted(op.dbkp.schedules)]
  <2>1. /\ op.pc = "deleteOld" /\ UNCHANGED <<obj, oneShot>>
        /\ Continue("cleanup", o)
    BY <1>5 DEF DeleteOld
  <2>2. op.dbkp \in Object
    BY <1>1, <2>1 DEF OpOK
  <2>3. o.phase = op.dbkp.phase
    BY <2>2, ObjectPhase
  <2> HIDE DEF o
  <2> QED BY <1>1, <2>1, <2>3, ContinueDone
<1>6. CASE Cleanup \/ CleanupSomeFail
  <2>1. /\ op.pc = "cleanup" /\ UNCHANGED <<obj, oneShot>>
        /\ Continue("patch", CleanedUp(op.dbkp))
    BY <1>6 DEF Cleanup, CleanupSomeFail
  <2>2. CleanedUp(op.dbkp).phase = op.dbkp.phase
    BY <1>1, <2>1, ObjectPhase DEF OpOK
  <2> QED BY <1>1, <2>1, <2>2, ContinueDone
<1>7. CASE Finalize
  <2> DEFINE o == [op.dbkp EXCEPT !.finalizers = op.dbkp.finalizers \ {"dmaas"}]
  <2>1. op.pc = "finalize" /\ UNCHANGED <<obj, oneShot>> /\ Continue("patch", o)
    BY <1>7 DEF Finalize
  <2>2. op.dbkp \in Object
    BY <1>1, <2>1 DEF OpOK
  <2>3. o.phase = op.dbkp.phase
    BY <2>2, ObjectPhase
  <2> HIDE DEF o
  <2> QED BY <1>1, <2>1, <2>3, ContinueDone
<1>8. CASE PatchRejected \/ PatchFails
  <2>1. UNCHANGED obj /\ oneShot' = oneShot /\ op' = IdleOp
    BY <1>8 DEF PatchRejected, PatchFails, DropPatch, server
  <2> QED BY <2>1, SamePhaseDone DEF DoneInv, CompletedMeansBackedUp, Stored
<1> QED
  BY <1>3, <1>4, <1>5, <1>6, <1>7, <1>8, BackedUpDone, PatchDone DEF Call

LEMMA NextDone == TypeInv /\ DoneInv /\ [Next]_vars => DoneInv'
<1> SUFFICES ASSUME TypeInv, DoneInv, [Next]_vars PROVE DoneInv'
  OBVIOUS
<1> USE DEF server
<1>1. CASE User \/ Reconcile \/ Call
  BY <1>1, UserDone, ReconcileDone, CallDone
<1>2. CASE Crash
  BY <1>2, SamePhaseDone DEF Crash, DoneInv, CompletedMeansBackedUp, Stored
<1>3. CASE Sync \/ Skip \/ SyncCache \/ Tick \/ Velero \/ UNCHANGED vars
  <2>1. op' = op /\ oneShot' = oneShot /\ obj' = obj
    BY <1>3 DEF Sync, Skip, SyncCache, Tick, Velero, RunSchedule, FinishBackup, StartDeletion,
                EndDeletion, RejectRequest, vars
  <2> QED BY <2>1, SamePhaseDone DEF DoneInv, CompletedMeansBackedUp, Stored
<1> QED BY <1>1, <1>2, <1>3 DEF Next

\* Whatever fails, is answered too late, is edited or dies in between: an
\* object whose phase is Completed has its Velero backup.
THEOREM CompletedBackedUp == Spec => []CompletedMeansBackedUp
<1>1. TypeInv /\ DoneInv /\ [Next]_vars => DoneInv'
  BY NextDone
<1>2. DoneInv => CompletedMeansBackedUp
  BY DEF DoneInv
<1> QED BY InitDone, <1>1, <1>2, AlwaysTypeInv, PTL DEF Spec

-----------------------------------------------------------------------------
(* Completed means named.                                                  *)

\* What a reconciliation has done gets recorded: no crash, no lost patch, and no
\* creation that is answered with an error after it was carried out.
NoResultLost == Faults \intersect {"crash", "createLost", "patchFails"} = {}

\* No object takes the name of one that has been deleted.
CreatedOnce == [][~Stored /\ Stored' => edits = 0]_vars

\* The reconciliation in hand has not made the backup, or has it to record.
NoNews == op.dbkp.backupName = op.orig.backupName /\ op.dbkp.phase # "Completed"

BackupInHand ==
  /\ op.pc \in {"cleanup", "patch"}
  /\ op.dbkp.backupName = "named" /\ op.orig.backupName = "nil"
  /\ op.dbkp.finalizers = op.orig.finalizers

\* The name of a backup that was made is on its way to the object or has got
\* there, so that Create is never called for one that exists.
NamedInv ==
  /\ CompletedMeansNamed
  /\ edits = 0 => ~Stored /\ ~oneShot /\ op.pc = "idle"
  /\ op.pc = "createBackup" =>
       /\ ~oneShot /\ op.orig.backupName = "nil"
       /\ op.dbkp.finalizers = op.orig.finalizers
  /\ op.pc # "idle" => NoNews \/ BackupInHand
  /\ Stored /\ oneShot => obj.backupName = "named" \/ BackupInHand

LEMMA InitNamed == Init => NamedInv
  BY DEF Init, IdleOp, Stored, NamedInv, CompletedMeansNamed

\* What the properties of a name tell apart in an object.
SameRecord(u, o) ==
  u.phase = o.phase /\ u.backupName = o.backupName /\ u.finalizers = o.finalizers

\* Which of them each write leaves alone, or changes.
WritesRecord(o) ==
  /\ \A s : SameRecord([o EXCEPT !.schedules = s], o)
  /\ \A sp : SameRecord([o EXCEPT !.spec = sp], o)
  /\ \A r : SameRecord([o EXCEPT !.reason = r], o)
  /\ \A d : SameRecord([o EXCEPT !.deleting = d], o)
  /\ \A f : LET u == [o EXCEPT !.finalizers = f]
            IN  u.phase = o.phase /\ u.backupName = o.backupName
  /\ \A n : LET u == [o EXCEPT !.phase = "Completed", !.backupName = n]
            IN  u.backupName = n /\ u.finalizers = o.finalizers
  /\ LET u == Started(o)
     IN  /\ u.phase = "InProgress"
         /\ u.backupName = o.backupName /\ u.finalizers = o.finalizers
  /\ LET u == Patched(o)
     IN  /\ u.phase = Merged(o.phase, op.orig.phase, op.dbkp.phase)
         /\ u.backupName = Merged(o.backupName, op.orig.backupName, op.dbkp.backupName)
         /\ u.finalizers = Merged(o.finalizers, op.orig.finalizers, op.dbkp.finalizers)

LEMMA RecordKept ==
  ASSUME NEW P, NEW B,
         NEW o \in [spec : SpecType, deleting : BOOLEAN, finalizers : SUBSET Finalizer,
                    phase : P, reason : BOOLEAN, schedules : Seq(Entry), backupName : B]
  PROVE  WritesRecord(o)
  BY DEF WritesRecord, SameRecord, Started, Patched

LEMMA ObjectRecord ==
  ASSUME NEW o \in Object
  PROVE  WritesRecord(o) /\ SameRecord(CleanedUp(o), o)
<1>1. WritesRecord(o)
  BY RecordKept, Zenon DEF Object
<1>2. SameRecord(CleanedUp(o), o)
  <2>1. \A s : SameRecord([o EXCEPT !.schedules = s], o)
    BY <1>1 DEF WritesRecord
  <2>2. SameRecord(o, o)
    BY DEF SameRecord
  <2> QED BY <2>1, <2>2, Zenon DEF CleanedUp
<1> QED BY <1>1, <1>2

\* A step of others that writes none of these fields.
LEMMA OthersNamed ==
  ASSUME NamedInv, UNCHANGED <<op, oneShot>>, edits' = 0 => edits = 0 /\ ~Stored',
         Stored' => Stored /\ obj'.phase = obj.phase /\ obj'.backupName = obj.backupName
  PROVE  NamedInv'
  BY DEF NamedInv, CompletedMeansNamed, NoNews, BackupInHand

LEMMA UserNamed ==
  TypeInv /\ NamedInv /\ User /\ (~Stored /\ Stored' => edits = 0) => NamedInv'
<1> SUFFICES ASSUME TypeInv, NamedInv, User, ~Stored /\ Stored' => edits = 0
             PROVE  NamedInv'
  OBVIOUS
<1>1. op' = op /\ oneShot' = oneShot
  BY DEF User, UserCreate, UserEdit, UserDelete, OtherFinalizerRemoved, server
<1>2. CASE UserCreate
  <2>1. PICK sp \in Specs, f \in FinalizerSets : obj' = NewObject(sp, f)
    BY <1>2 DEF UserCreate
  <2>2. obj'.phase # "Completed"
    BY <2>1 DEF NewObject
  <2>3. edits' # 0 /\ (Stored' => ~oneShot)
    BY <1>2 DEF UserCreate, TypeInv, RestOK, NamedInv
  <2> QED BY <1>1, <2>2, <2>3 DEF NamedInv, CompletedMeansNamed, NoNews, BackupInHand
<1>3. CASE UserEdit
  <2>1. PICK sp \in Specs : obj' = [obj EXCEPT !.spec = sp]
    BY <1>3 DEF UserEdit
  <2>2. Stored /\ edits' # 0 /\ obj \in Object
    BY <1>3 DEF UserEdit, TypeInv, RestOK, Stored
  <2>3. SameRecord(obj', obj)
    BY <2>1, <2>2, ObjectRecord DEF WritesRecord
  <2> QED BY <1>1, <2>2, <2>3, OthersNamed DEF SameRecord
<1>4. CASE UserDelete \/ OtherFinalizerRemoved
  <2> DEFINE d == [obj EXCEPT !.deleting = TRUE]
             f == obj.finalizers \ {"other"}
             e == [obj EXCEPT !.finalizers = f]
  <2>1. obj \in Object /\ Stored /\ edits' = edits
    BY <1>4 DEF UserDelete, OtherFinalizerRemoved, TypeInv, Stored
  <2>2. obj' = Settle(d) \/ obj' = Settle(e)
    BY <1>4 DEF UserDelete, OtherFinalizerRemoved
  <2> HIDE DEF f
  <2>3. /\ d.phase = obj.phase /\ d.backupName = obj.backupName
        /\ e.phase = obj.phase /\ e.backupName = obj.backupName
    BY <2>1, ObjectRecord DEF WritesRecord, SameRecord
  <2> HIDE DEF d, e
  <2>4. Stored' => obj'.phase = obj.phase /\ obj'.backupName = obj.backupName
    BY <2>2, <2>3 DEF Settle, Stored
  <2>5. edits' # 0
    BY <2>1 DEF NamedInv
  <2> QED BY <1>1, <2>1, <2>4, <2>5, OthersNamed
<1> QED BY <1>2, <1>3, <1>4 DEF User

\* A reconciliation makes the backup only if the object has no name for it.
LEMMA BeginNamed ==
  ASSUME NamedInv, NEW pc, NEW o, NEW requeue, Begin(pc, o, requeue), Stored,
         o.phase = "InProgress", o.backupName = obj.backupName,
         o.finalizers = obj.finalizers, pc = "createBackup" => obj.backupName = "nil"
  PROVE  NamedInv'
<1>1. /\ obj' = obj /\ oneShot' = oneShot /\ edits' = edits /\ op.pc = "idle"
      /\ op'.pc = pc /\ op'.orig = obj /\ op'.dbkp = o
  BY DEF Begin, server
<1>2. edits # 0 /\ (oneShot => obj.backupName = "named")
  BY <1>1 DEF NamedInv, BackupInHand
<1>3. pc = "createBackup" => ~oneShot
  BY <1>2
<1>4. NoNews'
  BY <1>1 DEF NoNews
<1>5. Stored' /\ CompletedMeansNamed'
  BY <1>1 DEF NamedInv, CompletedMeansNamed, Stored
<1> QED BY <1>1, <1>2, <1>3, <1>4, <1>5 DEF NamedInv

LEMMA ReconcileNamed == TypeInv /\ NamedInv /\ Reconcile => NamedInv'
<1> SUFFICES ASSUME TypeInv, NamedInv, Reconcile PROVE NamedInv'
  OBVIOUS
<1> DEFINE s == Started(obj)
           r == [s EXCEPT !.reason = TRUE]
           list == AddEmpty(s.schedules, now)
           a == [s EXCEPT !.schedules = list]
           News(o) == /\ o.phase = "InProgress" /\ o.backupName = obj.backupName
                      /\ o.finalizers = obj.finalizers
<1>1. obj \in Object /\ Stored
  BY DEF Reconcile, ReconcileQueued, ReconcileInvalidCron, ReconcileNotDue, ReconcileReserve,
         ReconcileOnce, ReconcileMade, ReconcileDeleting, Executes, TypeInv, Stored
<1>2. s \in Object /\ News(s)
  BY <1>1, StartedObject, ObjectRecord DEF WritesRecord
<1> HIDE DEF s, list
<1>3. News(r) /\ News(a)
  BY <1>2, ObjectRecord DEF WritesRecord, SameRecord
<1> HIDE DEF r, a
<1>4. \/ \E pc \in {"create", "cleanup", "finalize", "patch"} : Begin(pc, s, FALSE)
      \/ Begin("patch", r, FALSE) \/ Begin("cleanup", a, TRUE)
      \/ Begin("createBackup", s, FALSE) /\ obj.backupName = "nil"
  BY DEF Reconcile, ReconcileQueued, ReconcileInvalidCron, ReconcileNotDue, ReconcileReserve,
         ReconcileOnce, ReconcileMade, ReconcileDeleting, s, r, a, list
<1>5. CASE \E pc \in {"create", "cleanup", "finalize", "patch"} : Begin(pc, s, FALSE)
  <2>1. PICK pc \in {"create", "cleanup", "finalize", "patch"} : Begin(pc, s, FALSE)
    BY <1>5
  <2>2. pc # "createBackup"
    OBVIOUS
  <2> QED BY <1>1, <1>2, <2>1, <2>2, BeginNamed
<1>6. CASE Begin("patch", r, FALSE) \/ Begin("cleanup", a, TRUE)
  BY <1>1, <1>3, <1>6, BeginNamed
<1>7. CASE Begin("createBackup", s, FALSE) /\ obj.backupName = "nil"
  BY <1>1, <1>2, <1>7, BeginNamed
<1> QED BY <1>4, <1>5, <1>6, <1>7

\* A call that goes on with a copy that records the same.
LEMMA ContinueNamed ==
  ASSUME OpOK, NamedInv, op.pc # "idle", UNCHANGED <<obj, oneShot, edits>>,
         NEW pc \in {"deleteOld", "cleanup", "patch"}, NEW o, Continue(pc, o),
         o.phase = op.dbkp.phase, o.backupName = op.dbkp.backupName,
         BackupInHand => pc # "deleteOld" /\ o.finalizers = op.dbkp.finalizers
  PROVE  NamedInv'
<1>1. op'.pc = pc /\ op'.dbkp = o /\ op'.orig = op.orig
  BY DEF Continue, OpOK, OpType
<1>2. BackupInHand => BackupInHand'
  BY <1>1 DEF BackupInHand
<1>3. NoNews => NoNews'
  BY <1>1 DEF NoNews
<1>4. CompletedMeansNamed' /\ (Stored' => Stored)
  BY DEF NamedInv, CompletedMeansNamed, Stored
<1> QED BY <1>1, <1>2, <1>3, <1>4 DEF NamedInv

\* Create finds no backup of that name, and returns the one it made.
LEMMA BackedUpNamed ==
  ASSUME TypeInv, NamedInv, CreateBackup
  PROVE  NamedInv'
<1> DEFINE o == [op.dbkp EXCEPT !.phase = "Completed", !.backupName = "named"]
<1>1. op.pc = "createBackup" /\ UNCHANGED <<obj, edits>>
  BY DEF CreateBackup
<1>2. ~oneShot /\ op.orig.backupName = "nil" /\ op.dbkp.finalizers = op.orig.finalizers
  BY <1>1 DEF NamedInv
<1>3. Continue("cleanup", o)
  BY <1>2 DEF CreateBackup
<1>4. op \in OpType /\ op.dbkp \in Object
  BY <1>1 DEF TypeInv, OpOK
<1>5. o.backupName = "named" /\ o.finalizers = op.dbkp.finalizers
  BY <1>4, ObjectRecord DEF WritesRecord
<1> HIDE DEF o
<1>6. op'.pc = "cleanup" /\ op'.dbkp = o /\ op'.orig = op.orig
  BY <1>3, <1>4 DEF Continue, OpType
<1>7. BackupInHand'
  BY <1>2, <1>5, <1>6 DEF BackupInHand
<1>8. CompletedMeansNamed' /\ edits' # 0
  BY <1>1 DEF NamedInv, CompletedMeansNamed, Stored
<1> QED BY <1>6, <1>7, <1>8 DEF NamedInv

\* The patch records the name and the phase together, and no patch takes the
\* name away.
LEMMA PatchNamed == TypeInv /\ NamedInv /\ Patch => NamedInv'
<1> SUFFICES ASSUME TypeInv, NamedInv, Patch PROVE NamedInv'
  OBVIOUS
<1> DEFINE d == Patched(obj)
<1>1. op.pc = "patch" /\ Stored /\ obj \in Object
  BY DEF Patch, Accepted, TypeInv, Stored
<1>2. /\ obj' = Settle(d) /\ op'.pc = "idle"
      /\ oneShot' = oneShot /\ edits' = edits
  BY DEF Patch, server, IdleOp
<1>3. /\ d.phase = Merged(obj.phase, op.orig.phase, op.dbkp.phase)
      /\ d.backupName = Merged(obj.backupName, op.orig.backupName, op.dbkp.backupName)
  BY <1>1, ObjectRecord DEF WritesRecord
<1> HIDE DEF d
<1>4. Stored' => obj' = d
  BY <1>2 DEF Settle, Stored
<1>5. CASE BackupInHand
  <2>1. d.backupName = "named"
    BY <1>3, <1>5 DEF BackupInHand, Merged
  <2> QED BY <1>1, <1>2, <1>4, <2>1 DEF NamedInv, CompletedMeansNamed
<1>6. CASE NoNews /\ ~BackupInHand
  <2>1. d.backupName = obj.backupName /\ (d.phase = "Completed" => obj.phase = "Completed")
    BY <1>3, <1>6 DEF NoNews, Merged
  <2>2. oneShot => obj.backupName = "named"
    BY <1>1, <1>6 DEF NamedInv
  <2>3. obj.phase = "Completed" => obj.backupName = "named"
    BY <1>1 DEF NamedInv, CompletedMeansNamed
  <2> QED BY <1>1, <1>2, <1>4, <2>1, <2>2, <2>3 DEF NamedInv, CompletedMeansNamed
<1> QED BY <1>1, <1>5, <1>6 DEF NamedInv

\* The patch with the name is only rejected when the object is gone.
LEMMA RejectedNamed == TypeInv /\ NamedInv /\ PatchRejected => NamedInv'
<1> SUFFICES ASSUME TypeInv, NamedInv, PatchRejected PROVE NamedInv'
  OBVIOUS
<1>1. /\ op.pc = "patch" /\ ~Accepted /\ op'.pc = "idle"
      /\ UNCHANGED <<obj, oneShot, edits>>
  BY DEF PatchRejected, DropPatch, server, IdleOp
<1>2. ASSUME BackupInHand, Stored
      PROVE  FALSE
  <2>1. obj \in Object
    BY <1>2 DEF TypeInv, Stored
  <2>2. Patched(obj).finalizers = Merged(obj.finalizers, op.orig.finalizers, op.dbkp.finalizers)
    BY <2>1, ObjectRecord DEF WritesRecord
  <2>3. Patched(obj).finalizers = obj.finalizers
    BY <1>2, <2>2 DEF BackupInHand, Merged
  <2> QED BY <1>1, <1>2, <2>3 DEF Accepted
<1> QED BY <1>1, <1>2 DEF NamedInv, CompletedMeansNamed, Stored

LEMMA CallNamed ==
  ASSUME NoResultLost, TypeInv, NamedInv, Call
  PROVE  NamedInv'
<1>1. OpOK
  BY DEF TypeInv
<1>2. \A kind \in {"crash", "createLost", "patchFails"} : ~Fault(kind)
  BY DEF NoResultLost, Fault
<1>3. ASSUME op.pc = "create", NEW t, Created(t), UNCHANGED <<obj, oneShot, edits>>
      PROVE  NamedInv'
  <2> DEFINE s == UpdateEmpty(op.dbkp.schedules, t)
             o == [op.dbkp EXCEPT !.schedules = s]
             pc == IF Periodic(op.dbkp) /\ HasPrevious(s) THEN "deleteOld" ELSE "cleanup"
  <2>1. op.dbkp \in Object
    BY <1>1, <1>3 DEF OpOK
  <2>2. Continue(pc, o)
    BY <1>3 DEF Created
  <2>3. pc \in {"deleteOld", "cleanup", "patch"}
    OBVIOUS
  <2> HIDE DEF s, pc
  <2>4. SameRecord(o, op.dbkp)
    BY <2>1, ObjectRecord DEF WritesRecord
  <2> HIDE DEF o
  <2>5. ~BackupInHand
    BY <1>3 DEF BackupInHand
  <2> QED BY <1>1, <1>3, <2>2, <2>3, <2>4, <2>5, ContinueNamed DEF SameRecord
<1>4. CASE CreateSchedule \/ CreateScheduleExists
  BY <1>3, <1>4 DEF CreateSchedule, CreateScheduleExists, server
<1>5. CASE CreateScheduleFails \/ DeleteOldFails \/ CreateBackupFails \/ FinalizeFails
  <2> DEFINE o == [op.dbkp EXCEPT !.reason = TRUE]
  <2>1. /\ UNCHANGED <<obj, oneShot, edits>> /\ Continue("patch", o)
        /\ op.pc \notin {"idle", "cleanup", "patch"}
    BY <1>2, <1>5 DEF CreateScheduleFails, DeleteOldFails, CreateBackupFails, FinalizeFails,
                      GiveUp
  <2>2. SameRecord(o, op.dbkp)
    BY <1>1, <2>1, ObjectRecord DEF WritesRecord, OpOK
  <2> HIDE DEF o
  <2>3. ~BackupInHand
    BY <2>1 DEF BackupInHand
  <2> QED BY <1>1, <2>1, <2>2, <2>3, ContinueNamed DEF SameRecord
<1>6. CASE DeleteOld
  <2> DEFINE o == [op.dbkp EXCEPT !.schedules = MarkPreviousDeleted(op.dbkp.schedules)]
  <2>1. op.pc = "deleteOld" /\ UNCHANGED <<obj, oneShot, edits>> /\ Continue("cleanup", o)
    BY <1>6 DEF DeleteOld
  <2>2. SameRecord(o, op.dbkp)
    BY <1>1, <2>1, ObjectRecord DEF WritesRecord, OpOK
  <2> HIDE DEF o
  <2>3. ~BackupInHand
    BY <2>1 DEF BackupInHand
  <2> QED BY <1>1, <2>1, <2>2, <2>3, ContinueNamed DEF SameRecord
<1>7. CASE Cleanup \/ CleanupSomeFail
  <2>1. /\ op.pc = "cleanup" /\ UNCHANGED <<obj, oneShot, edits>>
        /\ Continue("patch", CleanedUp(op.dbkp))
    BY <1>7 DEF Cleanup, CleanupSomeFail
  <2>2. SameRecord(CleanedUp(op.dbkp), op.dbkp)
    BY <1>1, <2>1, ObjectRecord DEF OpOK
  <2> QED BY <1>1, <2>1, <2>2, ContinueNamed DEF SameRecord
<1>8. CASE Finalize
  <2> DEFINE o == [op.dbkp EXCEPT !.finalizers = op.dbkp.finalizers \ {"dmaas"}]
  <2>1. op.pc = "finalize" /\ UNCHANGED <<obj, oneShot, edits>> /\ Continue("patch", o)
    BY <1>8 DEF Finalize
  <2>2. o.phase = op.dbkp.phase /\ o.backupName = op.dbkp.backupName
    BY <1>1, <2>1, ObjectRecord DEF WritesRecord, OpOK
  <2> HIDE DEF o
  <2>3. ~BackupInHand
    BY <2>1 DEF BackupInHand
  <2> QED BY <1>1, <2>1, <2>2, <2>3, ContinueNamed
<1>9. ~PatchFails
  BY <1>2 DEF PatchFails
<1> QED
  BY <1>4, <1>5, <1>6, <1>7, <1>8, <1>9, BackedUpNamed, PatchNamed, RejectedNamed DEF Call

LEMMA NextNamed ==
  ASSUME NoResultLost, TypeInv, NamedInv, [Next]_vars, ~Stored /\ Stored' => edits = 0
  PROVE  NamedInv'
<1>1. CASE User \/ Reconcile \/ Call
  BY <1>1, UserNamed, ReconcileNamed, CallNamed
<1>2. ~Crash
  BY DEF Crash, NoResultLost, Fault
<1>3. CASE Sync \/ Skip \/ SyncCache \/ Tick \/ Velero \/ UNCHANGED vars
  <2>1. op' = op /\ oneShot' = oneShot /\ obj' = obj /\ edits' = edits
    BY <1>3 DEF Sync, Skip, SyncCache, Tick, Velero, RunSchedule, FinishBackup, StartDeletion,
                EndDeletion, RejectRequest, vars, server
  <2> QED BY <2>1 DEF NamedInv, CompletedMeansNamed, NoNews, BackupInHand, Stored
<1> QED BY <1>1, <1>2, <1>3 DEF Next

\* What loses the name of a completed backup is a lost result, as in the run
\* NameLost, or a new object under an old name, whose backup exists already,
\* and nothing else: no failed call, edit or deletion, however it falls.
THEOREM NameRecorded ==
  ASSUME NoResultLost
  PROVE  Spec /\ CreatedOnce => []CompletedMeansNamed
<1>1. TypeInv /\ NamedInv /\ [Next]_vars /\ (~Stored /\ Stored' => edits = 0) => NamedInv'
  BY NextNamed
<1>2. TypeInv /\ NamedInv /\ UNCHANGED vars => NamedInv'
  BY DEF vars, server, NamedInv, CompletedMeansNamed, NoNews, BackupInHand, Stored
<1>3. NamedInv => CompletedMeansNamed
  BY DEF NamedInv
<1> QED BY InitNamed, <1>1, <1>2, <1>3, AlwaysTypeInv, PTL DEF Spec, CreatedOnce

-----------------------------------------------------------------------------
(* One schedule without a full backup period.                              *)

\* An object that makes one schedule, and has.
Single(o) == o.spec \in Specs /\ Len(o.schedules) <= 1

\* The copy in memory has an entry the stored object may lack: the name that
\* is being reserved.  No patch puts the two lists together.
SingleInv ==
  /\ Stored => Single(obj)
  /\ op.pc # "idle" => Single(op.dbkp)

LEMMA InitSingle == Init => SingleInv
  BY DEF Init, IdleOp, Stored, SingleInv

\* Writing another field leaves the spec and the list alone.
LEMMA SpecKept ==
  ASSUME NEW P, NEW B,
         NEW o \in [spec : SpecType, deleting : BOOLEAN, finalizers : SUBSET Finalizer,
                    phase : P, reason : BOOLEAN, schedules : Seq(Entry), backupName : B]
  PROVE  /\ \A s : LET u == [o EXCEPT !.schedules = s] IN u.spec = o.spec /\ u.schedules = s
         /\ \A f : LET u == [o EXCEPT !.finalizers = f]
                   IN  u.spec = o.spec /\ u.schedules = o.schedules
         /\ \A r : LET u == [o EXCEPT !.reason = r]
                   IN  u.spec = o.spec /\ u.schedules = o.schedules
         /\ \A d : LET u == [o EXCEPT !.deleting = d]
                   IN  u.spec = o.spec /\ u.schedules = o.schedules
         /\ \A nm : LET u == [o EXCEPT !.phase = "Completed", !.backupName = nm]
                    IN  u.spec = o.spec /\ u.schedules = o.schedules
         /\ \A sp : LET u == [o EXCEPT !.spec = sp]
                    IN  u.spec = sp /\ u.schedules = o.schedules
         /\ Started(o).spec = o.spec /\ Started(o).schedules = o.schedules
         /\ Patched(o).spec = o.spec
         /\ Patched(o).schedules = Merged(o.schedules, op.orig.schedules, op.dbkp.schedules)
  BY DEF Started, Patched

\* So each write keeps the object single, if the list written is.
LEMMA SingleKept ==
  ASSUME NEW o \in Object, Single(o)
  PROVE  /\ \A s : Len(s) <= 1 => Single([o EXCEPT !.schedules = s])
         /\ \A f : Single([o EXCEPT !.finalizers = f])
         /\ \A r : Single([o EXCEPT !.reason = r])
         /\ \A d : Single([o EXCEPT !.deleting = d])
         /\ \A nm : Single([o EXCEPT !.phase = "Completed", !.backupName = nm])
         /\ \A sp \in Specs : Single([o EXCEPT !.spec = sp])
         /\ Single(Started(o))
         /\ Single(op.dbkp) => Single(Patched(o))
<1>1. /\ \A s : LET u == [o EXCEPT !.schedules = s] IN u.spec = o.spec /\ u.schedules = s
      /\ \A f : LET u == [o EXCEPT !.finalizers = f]
                IN  u.spec = o.spec /\ u.schedules = o.schedules
      /\ \A r : LET u == [o EXCEPT !.reason = r]
                IN  u.spec = o.spec /\ u.schedules = o.schedules
      /\ \A d : LET u == [o EXCEPT !.deleting = d]
                IN  u.spec = o.spec /\ u.schedules = o.schedules
      /\ \A nm : LET u == [o EXCEPT !.phase = "Completed", !.backupName = nm]
                 IN  u.spec = o.spec /\ u.schedules = o.schedules
      /\ \A sp : LET u == [o EXCEPT !.spec = sp]
                 IN  u.spec = sp /\ u.schedules = o.schedules
      /\ Started(o).spec = o.spec /\ Started(o).schedules = o.schedules
      /\ Patched(o).spec = o.spec
      /\ Patched(o).schedules = Merged(o.schedules, op.orig.schedules, op.dbkp.schedules)
  BY SpecKept DEF Object
<1>2. /\ \A s : Len(s) <= 1 => Single([o EXCEPT !.schedules = s])
      /\ \A f : Single([o EXCEPT !.finalizers = f])
      /\ \A r : Single([o EXCEPT !.reason = r])
      /\ \A d : Single([o EXCEPT !.deleting = d])
      /\ \A nm : Single([o EXCEPT !.phase = "Completed", !.backupName = nm])
      /\ \A sp \in Specs : Single([o EXCEPT !.spec = sp])
      /\ Single(Started(o))
  BY <1>1 DEF Single
<1>3. Single(op.dbkp) => Single(Patched(o))
  BY <1>1 DEF Single, Merged
<1> QED BY <1>2, <1>3

\* Whatever leaves the operator's memory alone, or clears it.
LEMMA StoredSingle ==
  ASSUME SingleInv, op' = op \/ op' = IdleOp, Stored' => Single(obj')
  PROVE  SingleInv'
<1>1. op' = IdleOp => op'.pc = "idle"
  BY DEF IdleOp
<1>2. op'.pc # "idle" => Single(op'.dbkp)
  BY <1>1 DEF SingleInv
<1> QED BY <1>2 DEF SingleInv, Single

LEMMA UserSingle == TypeInv /\ SingleInv /\ User => SingleInv'
<1> SUFFICES ASSUME TypeInv, SingleInv, User PROVE SingleInv'
  OBVIOUS
<1>1. op' = op
  BY DEF User, UserCreate, UserEdit, UserDelete, OtherFinalizerRemoved
<1>2. CASE UserCreate
  <2>1. PICK sp \in Specs, f \in FinalizerSets : obj' = NewObject(sp, f)
    BY <1>2 DEF UserCreate
  <2>2. obj'.spec = sp /\ obj'.schedules = <<>>
    BY <2>1 DEF NewObject
  <2>3. Len(obj'.schedules) <= 1
    BY <2>2
  <2> QED BY <1>1, <2>2, <2>3, StoredSingle DEF Single
<1>3. CASE UserEdit
  <2>1. PICK sp \in Specs : obj' = [obj EXCEPT !.spec = sp]
    BY <1>3 DEF UserEdit
  <2>2. obj \in Object /\ Single(obj)
    BY <1>3 DEF UserEdit, TypeInv, Stored, SingleInv
  <2>3. Single(obj')
    BY <2>1, <2>2, SingleKept
  <2> QED BY <1>1, <2>3, StoredSingle
<1>4. CASE UserDelete \/ OtherFinalizerRemoved
  <2> DEFINE d == [obj EXCEPT !.deleting = TRUE]
             e == [obj EXCEPT !.finalizers = obj.finalizers \ {"other"}]
  <2>1. obj \in Object /\ Single(obj)
    BY <1>4 DEF UserDelete, OtherFinalizerRemoved, TypeInv, Stored, SingleInv
  <2>2. obj' = Settle(d) \/ obj' = Settle(e)
    BY <1>4 DEF UserDelete, OtherFinalizerRemoved
  <2>3. Single(d) /\ Single(e)
    BY <2>1, SingleKept
  <2> HIDE DEF d, e
  <2>4. Stored' => Single(obj')
    BY <2>2, <2>3 DEF Settle, Stored
  <2> QED BY <1>1, <2>4, StoredSingle
<1> QED BY <1>2, <1>3, <1>4 DEF User

\* A reconciliation of a stored object starts with a single copy.
LEMMA BeginSingle ==
  ASSUME SingleInv, NEW pc, NEW o, NEW requeue, Begin(pc, o, requeue), Single(o)
  PROVE  SingleInv'
<1>1. obj' = obj /\ op'.dbkp = o
  BY DEF Begin
<1> QED BY <1>1 DEF SingleInv, Stored, Single

\* Only a list that is empty gets a name: no spec has a full backup period.
LEMMA ReserveSingle ==
  ASSUME TypeInv, SingleInv, ReconcileReserve, \A sp \in Specs : sp.cron = "none"
  PROVE  SingleInv'
<1> DEFINE s == AddEmpty(Started(obj).schedules, now)
           x == [name |-> now, created |-> 0, status |-> ""]
<1>1. obj \in Object /\ Single(obj) /\ now \in Nat
  BY DEF ReconcileReserve, Executes, TypeInv, RestOK, Stored, SingleInv
<1>2. Started(obj) \in Object /\ Single(Started(obj)) /\ Started(obj).schedules = obj.schedules
  BY <1>1, StartedObject, SingleKept
<1>3. obj.spec.cron = "none"
  BY <1>1 DEF Single
<1>4. obj.schedules = <<>>
  BY <1>3 DEF ReconcileReserve
<1>5. x \in Entry
  BY <1>1 DEF Entry, ScheduleStatus
<1>6. s = SortLast(<<>>, x)
  BY <1>2, <1>4 DEF AddEmpty
<1>7. Len(s) <= 1
  <2> HIDE DEF s, x
  <2>1. \A f \in Seq(Entry) : Len(SortLast(f, x)) = Len(f) + 1
    BY <1>5, SortLastNames
  <2>2. <<>> \in Seq(Entry) /\ Len(<<>>) = 0
    OBVIOUS
  <2>3. Len(SortLast(<<>>, x)) = 0 + 1
    BY <2>1, <2>2
  <2> QED BY <1>6, <2>3
<1>8. Single([Started(obj) EXCEPT !.schedules = s])
  <2> HIDE DEF s
  <2> QED BY <1>2, <1>7, SingleKept
<1>9. Begin("cleanup", [Started(obj) EXCEPT !.schedules = s], TRUE)
  BY DEF ReconcileReserve
<1> QED BY <1>8, <1>9, BeginSingle

LEMMA ReconcileSingle ==
  ASSUME TypeInv, SingleInv, Reconcile, \A sp \in Specs : sp.cron = "none"
  PROVE  SingleInv'
<1> DEFINE r == [Started(obj) EXCEPT !.reason = TRUE]
<1>1. obj \in Object /\ Single(obj)
  BY DEF Reconcile, ReconcileQueued, ReconcileInvalidCron, ReconcileNotDue, ReconcileReserve,
         ReconcileOnce, ReconcileMade, ReconcileDeleting, Executes, TypeInv, Stored, SingleInv
<1>2. Started(obj) \in Object /\ Single(Started(obj))
  BY <1>1, StartedObject, SingleKept
<1>3. Single(r)
  BY <1>2, SingleKept
<1>4. CASE ReconcileQueued
  BY <1>2, <1>4, BeginSingle DEF ReconcileQueued
<1>5. CASE ReconcileInvalidCron
  <2>1. Begin("patch", r, FALSE)
    BY <1>5 DEF ReconcileInvalidCron
  <2> HIDE DEF r
  <2> QED BY <1>3, <2>1, BeginSingle
<1>6. CASE ReconcileNotDue
  BY <1>2, <1>6, BeginSingle DEF ReconcileNotDue
<1>7. CASE ReconcileOnce
  BY <1>2, <1>7, BeginSingle DEF ReconcileOnce
<1>8. CASE ReconcileMade
  BY <1>2, <1>8, BeginSingle DEF ReconcileMade
<1>9. CASE ReconcileDeleting
  BY <1>2, <1>9, BeginSingle DEF ReconcileDeleting
<1> QED BY <1>4, <1>5, <1>6, <1>7, <1>8, <1>9, ReserveSingle DEF Reconcile

\* A call that goes on with a single copy.
LEMMA ContinueSingle ==
  ASSUME OpOK, SingleInv, UNCHANGED obj, NEW pc, NEW o, Continue(pc, o), Single(o)
  PROVE  SingleInv'
<1>1. op' = [op EXCEPT !.pc = pc, !.dbkp = o] /\ op \in OpType
  BY DEF Continue, OpOK
<1>2. op'.dbkp = o
  BY <1>1 DEF OpType
<1> QED BY <1>2 DEF SingleInv, Stored, Single

\* Recording a created schedule leaves the list as long as it is.
LEMMA CreatedSingle ==
  ASSUME OpOK, SingleInv, UNCHANGED obj, op.pc = "create", NEW t \in Nat, Created(t)
  PROVE  SingleInv'
<1> DEFINE old == op.dbkp.schedules
           x == [Last(old) EXCEPT !.created = t, !.status = "Active"]
           s == UpdateEmpty(old, t)
           o == [op.dbkp EXCEPT !.schedules = s]
           pc == IF Periodic(op.dbkp) /\ HasPrevious(s) THEN "deleteOld" ELSE "cleanup"
<1>1. op.dbkp \in Object /\ old \in Seq(Entry) /\ old # <<>>
  BY DEF OpOK, Object
<1>2. Single(op.dbkp)
  BY DEF SingleInv
<1>3. Front(old) \in Seq(Entry) /\ Len(Front(old)) = Len(old) - 1 /\ Last(old) \in Entry
  BY <1>1, FrontAndLast
<1>4. x \in Entry
  BY <1>3 DEF Entry, ScheduleStatus
<1>5. s = SortLast(Front(old), x)
  BY DEF UpdateEmpty
<1>6. Len(old) <= 1 /\ Len(old) \in Nat
  BY <1>1, <1>2 DEF Single
<1>7. Continue(pc, o)
  BY DEF Created
<1> HIDE DEF x, s, pc
<1>8. Len(s) = Len(Front(old)) + 1
  BY <1>3, <1>4, <1>5, SortLastNames
<1>9. Len(s) <= 1
  BY <1>3, <1>6, <1>8
<1>10. Single(o)
  BY <1>1, <1>2, <1>9, SingleKept
<1> HIDE DEF o
<1> QED BY <1>7, <1>10, ContinueSingle

LEMMA PatchSingle == TypeInv /\ SingleInv /\ Patch => SingleInv'
<1> SUFFICES ASSUME TypeInv, SingleInv, Patch PROVE SingleInv'
  OBVIOUS
<1>1. obj \in Object /\ Single(obj) /\ Single(op.dbkp)
  BY DEF Patch, Accepted, TypeInv, Stored, SingleInv
<1>2. Single(Patched(obj))
  BY <1>1, SingleKept
<1>3. obj' = Settle(Patched(obj)) /\ op' = IdleOp
  BY DEF Patch
<1>4. Stored' => Single(obj')
  BY <1>2, <1>3 DEF Settle, Stored
<1> QED BY <1>3, <1>4, StoredSingle

LEMMA CallSingle ==
  ASSUME TypeInv, SingleInv, Call, \A sp \in Specs : sp.cron = "none"
  PROVE  SingleInv'
<1>1. OpOK /\ now \in Nat /\ 0 \in Nat
  BY DEF TypeInv, RestOK
<1>2. op.pc # "idle" => op.dbkp \in Object /\ Single(op.dbkp)
  BY <1>1 DEF OpOK, SingleInv
<1>3. CASE CreateSchedule \/ CreateScheduleExists
  BY <1>1, <1>3, CreatedSingle DEF CreateSchedule, CreateScheduleExists
<1>4. CASE CreateScheduleFails \/ DeleteOldFails \/ CreateBackupFails \/ FinalizeFails
  <2>1. UNCHANGED obj /\ op.pc # "idle" /\ Continue("patch", [op.dbkp EXCEPT !.reason = TRUE])
    BY <1>4 DEF CreateScheduleFails, DeleteOldFails, CreateBackupFails, FinalizeFails, GiveUp
  <2>2. Single([op.dbkp EXCEPT !.reason = TRUE])
    BY <1>2, <2>1, SingleKept
  <2> QED BY <1>1, <2>1, <2>2, ContinueSingle
<1>5. ~DeleteOld
  <2>1. SUFFICES ASSUME DeleteOld PROVE FALSE
    OBVIOUS
  <2>2. HasPrevious(op.dbkp.schedules) /\ op.dbkp.schedules \in Seq(Entry)
    BY <1>1, <1>2, <2>1 DEF OpOK, DeleteOld, Object
  <2> QED BY <1>2, <2>1, <2>2 DEF Single, HasPrevious, DeleteOld
<1>6. CASE CreateBackup
  <2> DEFINE nm == IF oneShot THEN "empty" ELSE "named"
             o == [op.dbkp EXCEPT !.phase = "Completed", !.backupName = nm]
  <2>1. op.pc # "idle" /\ UNCHANGED obj /\ Continue("cleanup", o)
    BY <1>6 DEF CreateBackup
  <2> HIDE DEF nm
  <2>2. Single(o)
    BY <1>2, <2>1, SingleKept
  <2> HIDE DEF o
  <2> QED BY <1>1, <2>1, <2>2, ContinueSingle
<1>7. CASE Cleanup \/ CleanupSomeFail
  <2>1. op.pc # "idle" /\ UNCHANGED obj /\ Continue("patch", CleanedUp(op.dbkp))
    BY <1>7 DEF Cleanup, CleanupSomeFail
  <2>2. ~Periodic(op.dbkp)
    BY <1>2, <2>1 DEF Periodic, Single
  <2>3. CleanedUp(op.dbkp) = op.dbkp
    BY <2>2 DEF CleanedUp
  <2> QED BY <1>1, <1>2, <2>1, <2>3, ContinueSingle
<1>8. CASE Finalize
  <2> DEFINE o == [op.dbkp EXCEPT !.finalizers = op.dbkp.finalizers \ {"dmaas"}]
  <2>1. op.pc # "idle" /\ UNCHANGED obj /\ Continue("patch", o)
    BY <1>8 DEF Finalize
  <2>2. Single(o)
    BY <1>2, <2>1, SingleKept
  <2> HIDE DEF o
  <2> QED BY <1>1, <2>1, <2>2, ContinueSingle
<1>9. CASE PatchRejected \/ PatchFails
  <2>1. UNCHANGED obj /\ op' = IdleOp
    BY <1>9 DEF PatchRejected, PatchFails, DropPatch
  <2> QED BY <2>1, StoredSingle DEF SingleInv, Stored
<1> QED BY <1>3, <1>4, <1>5, <1>6, <1>7, <1>8, <1>9, PatchSingle DEF Call

LEMMA NextSingle ==
  ASSUME TypeInv, SingleInv, [Next]_vars, \A sp \in Specs : sp.cron = "none"
  PROVE  SingleInv'
<1>1. CASE User \/ Reconcile \/ Call
  BY <1>1, UserSingle, ReconcileSingle, CallSingle
<1>2. CASE Crash
  BY <1>2, StoredSingle DEF Crash, SingleInv, Stored
<1>3. CASE Sync \/ Skip \/ SyncCache \/ Tick \/ Velero \/ UNCHANGED vars
  <2>1. op' = op /\ obj' = obj
    BY <1>3 DEF Sync, Skip, SyncCache, Tick, Velero, RunSchedule, FinishBackup, StartDeletion,
                EndDeletion, RejectRequest, vars, server
  <2> QED BY <2>1, StoredSingle DEF SingleInv, Stored
<1> QED BY <1>1, <1>2, <1>3 DEF Next

\* One entry in the list names one schedule at most.
LEMMA OneEntryOneSchedule ==
  ASSUME TypeInv, SingleInv, NoUntrackedSchedule
  PROVE  SingleSchedule
<1>1. CASE ~Stored
  <2>1. velero = {}
    BY <1>1 DEF NoUntrackedSchedule
  <2>2. Cardinality(velero) = 0
    BY <2>1, FS_EmptySet
  <2> QED BY <1>1, <2>2 DEF SingleSchedule
<1>2. CASE Stored
  <2> DEFINE s == obj.schedules
             N == {s[1].name}
  <2>1. obj \in Object /\ Len(s) <= 1
    BY <1>2 DEF TypeInv, Stored, SingleInv, Single
  <2>2. s \in Seq(Entry)
    BY <2>1 DEF Object
  <2>3. \A k \in DOMAIN s : k = 1
    BY <2>1, <2>2
  <2>4. Names(s) \subseteq N
    BY <2>3 DEF Names
  <2>5. velero \subseteq N
    BY <1>2, <2>4 DEF NoUntrackedSchedule
  <2>6. IsFiniteSet(N) /\ Cardinality(N) = 1
    BY FS_Singleton
  <2> HIDE DEF N
  <2>7. Cardinality(velero) <= Cardinality(N)
    BY <2>5, <2>6, FS_Subset
  <2>8. Cardinality(velero) <= 1
    BY <2>6, <2>7
  <2> QED BY <2>1, <2>8 DEF SingleSchedule
<1> QED BY <1>1, <1>2

\* If users write no full backup period and set the operator's finalizer, there
\* is never a second schedule, whichever call fails after it was carried out,
\* whichever patch is lost and wherever the process dies.
THEOREM OneScheduleOnly ==
  ASSUME \A sp \in Specs : sp.cron = "none", \A f \in FinalizerSets : "dmaas" \in f
  PROVE  Spec => []SingleSchedule
<1>1. TypeInv /\ SingleInv /\ [Next]_vars => SingleInv'
  BY NextSingle
<1>2. TypeInv /\ SingleInv /\ NoUntrackedSchedule => SingleSchedule
  BY OneEntryOneSchedule
<1>3. Spec => []NoUntrackedSchedule
  BY NothingUntracked
<1> QED BY InitSingle, <1>1, <1>2, <1>3, AlwaysTypeInv, PTL DEF Spec

-----------------------------------------------------------------------------
(* The lists stay sorted.                                                  *)

ListsSorted ==
  /\ Stored => Sorted(obj.schedules)
  /\ op.pc # "idle" => Sorted(op.dbkp.schedules)

LEMMA NextSorted ==
  ASSUME TypeInv, ListsSorted, [Next]_vars
  PROVE  ListsSorted'
<1>1. Stored' => Sorted(obj'.schedules)
  <2>1. Sorted(<<>>)
    BY DEF Sorted
  <2> QED BY <2>1, StoredSteps DEF ListsSorted
<1>2. ASSUME op'.pc # "idle" PROVE Sorted(op'.dbkp.schedules)
  <2>1. /\ now \in Nat /\ OpOK
        /\ Stored => obj \in Object /\ obj.schedules \in Seq(Entry) /\ Sorted(obj.schedules)
        /\ op.pc # "idle" => /\ op.dbkp \in Object /\ op.dbkp.schedules \in Seq(Entry)
                             /\ Sorted(op.dbkp.schedules)
    BY KnownLists DEF TypeInv, ListsSorted
  <2>2. CASE ReconcileReserve
    <3> DEFINE a == AddEmpty(Started(obj).schedules, now)
               o == [Started(obj) EXCEPT !.schedules = a]
    <3>1. Stored /\ Begin("cleanup", o, TRUE)
      BY <2>2 DEF ReconcileReserve, Executes
    <3>2. Started(obj) \in Object /\ Started(obj).schedules = obj.schedules
      BY <2>1, <3>1, StartedObject
    <3>3. a \in Seq(Entry) /\ Sorted(a)
      BY <2>1, <3>1, <3>2, AddEmptyNames, AddEmptySorted
    <3> HIDE DEF a
    <3>4. o.schedules = a
      BY ONLY <3>2, <3>3, ObjectUpdates
    <3> HIDE DEF o
    <3> QED BY <3>1, <3>3, <3>4 DEF Begin
  <2>3. CASE CreateSchedule \/ CreateScheduleExists
    <3>1. PICK t \in Nat : op.pc = "create" /\ Created(t)
      <4>1. 0 \in Nat
        OBVIOUS
      <4> QED BY <2>1, <2>3, <4>1 DEF CreateSchedule, CreateScheduleExists
    <3> DEFINE s == op.dbkp.schedules
               u == UpdateEmpty(s, t)
               o == [op.dbkp EXCEPT !.schedules = u]
               pc == IF Periodic(op.dbkp) /\ HasPrevious(u) THEN "deleteOld" ELSE "cleanup"
    <3>2. Continue(pc, o) /\ op.pc # "idle" /\ s # <<>>
      BY <2>1, <3>1 DEF Created, OpOK
    <3>3. u \in Seq(Entry) /\ Sorted(u)
      BY <2>1, <3>2, UpdateEmptyNames, UpdateEmptySorted
    <3>4. pc \in {"deleteOld", "cleanup"} /\ (pc = "deleteOld" => HasPrevious(u))
      OBVIOUS
    <3> HIDE DEF u, pc
    <3>5. o \in Object /\ o.schedules = u
      BY <2>1, <3>2, <3>3, ObjectUpdates
    <3> HIDE DEF o
    <3>6. op'.dbkp = o
      BY <2>1, <3>1, <3>2, <3>4, <3>5, ContinueOpOK
    <3> QED BY <3>3, <3>5, <3>6
  <2>4. CASE DeleteOld
    <3> DEFINE m == MarkPreviousDeleted(op.dbkp.schedules)
               o == [op.dbkp EXCEPT !.schedules = m]
    <3>1. op.pc = "deleteOld" /\ Continue("cleanup", o) /\ HasPrevious(op.dbkp.schedules)
      BY <2>1, <2>4 DEF DeleteOld, OpOK
    <3>2. m \in Seq(Entry) /\ Sorted(m)
      BY <2>1, <3>1, MarkNames, MarkSorted
    <3> HIDE DEF m
    <3>3. o \in Object /\ o.schedules = m
      BY <2>1, <3>1, <3>2, ObjectUpdates
    <3> HIDE DEF o
    <3>4. op'.dbkp = o
      BY <2>1, <3>1, <3>3, ContinueOpOK
    <3> QED BY <3>2, <3>3, <3>4
  <2>5. CASE op.pc = "cleanup" /\ Continue("patch", CleanedUp(op.dbkp))
    <3> DEFINE o == op.dbkp
               m == Erase(o.schedules, o.spec.keep, o.spec.check, cache)
               e == [o EXCEPT !.schedules = m]
               c == CleanedUp(o)
    <3>1. m \in Seq(Entry) /\ Sorted(m)
      BY <2>1, <2>5, EraseNames, EraseSorted
    <3>2. c \in {o, e}
      BY DEF CleanedUp
    <3> HIDE DEF m
    <3>3. e.schedules = m
      BY <2>1, <2>5, <3>1, ObjectUpdates
    <3>4. c \in Object
      BY <2>1, <2>5, CleanupEffect DEF TypeInv, RestOK
    <3> HIDE DEF c, e
    <3>5. op'.dbkp = c
      BY <2>1, <2>5, <3>4, ContinueOpOK DEF c
    <3> QED BY <2>1, <2>5, <3>1, <3>2, <3>3, <3>5
  <2> QED BY <1>2, <2>1, <2>2, <2>3, <2>4, <2>5, CopySteps
<1> QED BY <1>1, <1>2 DEF ListsSorted

\* The stored list and a reconciliation's copy are always sorted, whatever
\* fails, dies or is repeated: a list has its latest dated entry in front, where
\* the due time is taken from, and the list that sort.Sort is given is of the
\* kind for which SortLast is what it returns (SortIsInsertion).
THEOREM SortedThroughout == Spec => []ListsSorted
<1>1. Init => ListsSorted
  BY DEF Init, ListsSorted, Stored, IdleOp
<1>2. TypeInv /\ ListsSorted /\ [Next]_vars => ListsSorted'
  BY NextSorted
<1> QED BY <1>1, <1>2, AlwaysTypeInv, PTL DEF Spec
-----------------------------------------------------------------------------
(* The key is queued as client-go's work queue would have it.              *)

\* What the calls do to it.
LEMMA QueueCalls ==
  /\ WQ!Empty = QueueOf(FALSE, FALSE)
  /\ \A w, b \in BOOLEAN : Enqueued(QueueOf(w, b)) = QueueOf(TRUE, b)
  /\ QueueOf(TRUE, FALSE).items # <<>>
  /\ WQ!Get(QueueOf(TRUE, FALSE)) = QueueOf(FALSE, TRUE)
  /\ \A w \in BOOLEAN : /\ GivenBack(QueueOf(w, TRUE)) = QueueOf(w, FALSE)
                         /\ Key \in QueueOf(w, TRUE).processing
<1> DEFINE Fields(q, i, d, p) == /\ q.items = i /\ q.dirty = d /\ q.processing = p
                                 /\ q.delayed = {} /\ q.backoff = {} /\ q.down = FALSE
<1>0. <<>> \in Seq({Key}) /\ <<Key>> \in Seq({Key}) /\ <<Key>> # <<>>
  OBVIOUS
<1>1. ASSUME NEW w \in BOOLEAN, NEW b \in BOOLEAN
      PROVE  /\ QueueOf(w, b) \in WQ!Queue
             /\ Fields(QueueOf(w, b), IF w /\ ~b THEN <<Key>> ELSE <<>>,
                       IF w THEN {Key} ELSE {}, IF b THEN {Key} ELSE {})
  <2> DEFINE i == IF w /\ ~b THEN <<Key>> ELSE <<>>
             d == IF w THEN {Key} ELSE {}
             p == IF b THEN {Key} ELSE {}
  <2>1. i \in Seq({Key}) /\ d \in SUBSET {Key} /\ p \in SUBSET {Key}
    BY <1>0
  <2>2. QueueOf(w, b) = [items |-> i, dirty |-> d, processing |-> p,
                         delayed |-> {}, backoff |-> {}, down |-> FALSE]
    BY DEF QueueOf
  <2> HIDE DEF i, d, p
  <2>3. QueueOf(w, b) \in WQ!Queue /\ Fields(QueueOf(w, b), i, d, p)
    BY <2>1, <2>2 DEF WQ!Queue
  <2> QED BY <2>3 DEF i, d, p
<1>2. ASSUME NEW q \in WQ!Queue, NEW w \in BOOLEAN, NEW b \in BOOLEAN,
             Fields(q, IF w /\ ~b THEN <<Key>> ELSE <<>>,
                    IF w THEN {Key} ELSE {}, IF b THEN {Key} ELSE {})
      PROVE  q = QueueOf(w, b)
  BY <1>2 DEF QueueOf, WQ!Queue
<1>3. WQ!Empty = QueueOf(FALSE, FALSE)
  <2>1. WQ!Empty \in WQ!Queue /\ Fields(WQ!Empty, <<>>, {}, {})
    BY DEF WQ!Empty, WQ!Queue
  <2> QED BY <1>2, <2>1
<1>4. Append(<<>>, Key) = <<Key>> /\ Tail(<<Key>>) = <<>> /\ Head(<<Key>>) = Key
  BY DEF Key
<1>5. ASSUME NEW w \in BOOLEAN, NEW b \in BOOLEAN
      PROVE  Enqueued(QueueOf(w, b)) = QueueOf(TRUE, b)
  <2> DEFINE q == QueueOf(w, b)
  <2>1. CASE w
    BY <1>1, <2>1 DEF Enqueued, WQ!Add
  <2>2. CASE ~w
    <3>1. q \in WQ!Queue /\ Fields(q, <<>>, {}, IF b THEN {Key} ELSE {})
      BY <1>1, <2>2
    <3> HIDE DEF q
    <3>2. Enqueued(q) \in WQ!Queue
      <4>1. Append(<<>>, Key) \in Seq({Key}) /\ {Key} \in SUBSET {Key}
        BY <1>0, <1>4
      <4> QED BY <3>1, <4>1 DEF Enqueued, WQ!Add, WQ!Queue
    <3>3. Fields(Enqueued(q), IF b THEN <<>> ELSE Append(<<>>, Key), {Key}, IF b THEN {Key} ELSE {})
      BY <3>1 DEF Enqueued, WQ!Add, WQ!Queue
    <3>4. Enqueued(q) = QueueOf(TRUE, b)
      BY <1>2, <1>4, <3>2, <3>3
    <3> QED BY <3>4 DEF q
  <2> QED BY <2>1, <2>2
<1>6. QueueOf(TRUE, FALSE).items # <<>>
  BY <1>0, <1>1
<1>7. WQ!Get(QueueOf(TRUE, FALSE)) = QueueOf(FALSE, TRUE)
  <2> DEFINE q == QueueOf(TRUE, FALSE)
  <2>1. q \in WQ!Queue /\ Fields(q, <<Key>>, {Key}, {})
    BY <1>1
  <2> HIDE DEF q
  <2>2. Fields(WQ!Get(q), <<>>, {}, {Key})
    BY <1>4, <2>1 DEF WQ!Get, WQ!Queue
  <2>3. WQ!Get(q) \in WQ!Queue
    BY <1>0, <1>4, <2>1 DEF WQ!Get, WQ!Queue
  <2>4. WQ!Get(q) = QueueOf(FALSE, TRUE)
    BY <1>2, <2>2, <2>3
  <2> QED BY <2>4 DEF q
<1>8. ASSUME NEW w \in BOOLEAN
      PROVE  /\ GivenBack(QueueOf(w, TRUE)) = QueueOf(w, FALSE)
             /\ Key \in QueueOf(w, TRUE).processing
  <2> DEFINE q == QueueOf(w, TRUE)
  <2>1. q \in WQ!Queue /\ Fields(q, <<>>, IF w THEN {Key} ELSE {}, {Key})
    BY <1>1
  <2> HIDE DEF q
  <2>2. GivenBack(q) \in WQ!Queue
    BY <1>0, <1>4, <2>1 DEF GivenBack, WQ!Done, WQ!Queue
  <2>3. Fields(GivenBack(q), IF w THEN Append(<<>>, Key) ELSE <<>>, IF w THEN {Key} ELSE {}, {})
    BY <2>1 DEF GivenBack, WQ!Done, WQ!Queue
  <2>4. GivenBack(q) = QueueOf(w, FALSE)
    BY <1>2, <1>4, <2>2, <2>3
  <2> QED BY <2>1, <2>4 DEF q
<1> HIDE DEF Fields
<1> QED BY <1>3, <1>5, <1>6, <1>7, <1>8

\* A call of a reconciliation goes on with it.
LEMMA CallGoesOn ==
  ASSUME TypeInv, Call, ~Patch, ~PatchRejected, ~PatchFails
  PROVE  op.pc # "idle" /\ op'.pc # "idle" /\ queued' = queued
<1>1. OpOK /\ op.pc # "idle" /\ queued' = queued
  BY DEF TypeInv, Call, CreateSchedule, CreateScheduleExists, CreateScheduleFails, DeleteOld,
         DeleteOldFails, CreateBackup, CreateBackupFails, Cleanup, CleanupSomeFail, Finalize,
         FinalizeFails
<1>2. PICK pc \in {"deleteOld", "cleanup", "patch"} : \E o : Continue(pc, o)
  BY Zenon DEF Call, CreateSchedule, CreateScheduleExists, CreateScheduleFails, DeleteOld,
         DeleteOldFails, CreateBackup, CreateBackupFails, Cleanup, CleanupSomeFail, Finalize,
         FinalizeFails, Created, GiveUp
<1>3. op'.pc = pc
  BY <1>1, <1>2 DEF OpOK, OpType, Continue
<1> QED BY <1>1, <1>2, <1>3

LEMMA NextQueue == TypeInv /\ [Next]_vars => [QueueStep]_KeyQueue
<1> SUFFICES ASSUME TypeInv, [Next]_vars PROVE QueueStep \/ KeyQueue' = KeyQueue
  OBVIOUS
<1> DEFINE busy == op.pc # "idle"
<1>1. /\ KeyQueue = QueueOf(queued, busy) /\ KeyQueue' = QueueOf(queued', busy')
      /\ WQ!Empty = QueueOf(FALSE, FALSE)
  BY QueueCalls DEF KeyQueue
<1>2. queued \in BOOLEAN /\ queued' \in BOOLEAN
  BY NextTypeInv DEF TypeInv, RestOK
<1>3. ASSUME queued' = TRUE, op' = op PROVE QueueStep
  <2>1. KeyQueue' = Enqueued(KeyQueue)
    BY <1>1, <1>2, <1>3, QueueCalls
  <2> QED BY <2>1 DEF QueueStep
<1>4. ASSUME queued' = queued, busy' = busy PROVE KeyQueue' = KeyQueue
  BY <1>1, <1>4
<1>5. ASSUME queued' \in {queued, TRUE}, busy, ~busy' PROVE QueueStep
  <2>1. Key \in KeyQueue.processing /\ GivenBack(KeyQueue) = QueueOf(queued, FALSE)
          /\ GivenBack(Enqueued(KeyQueue)) = QueueOf(TRUE, FALSE)
    BY <1>1, <1>2, <1>5, QueueCalls
  <2>2. KeyQueue' = QueueOf(queued', FALSE)
    BY <1>1, <1>5
  <2> QED BY <1>5, <2>1, <2>2 DEF QueueStep
<1>6. CASE User \/ Sync
  BY <1>3, <1>6 DEF User, UserCreate, UserEdit, UserDelete, OtherFinalizerRemoved, Sync
<1>7. CASE Skip
  <2>1. queued = TRUE /\ ~busy /\ queued' = FALSE /\ ~busy'
    BY <1>2, <1>7 DEF Skip
  <2>2. KeyQueue.items # <<>> /\ GivenBack(WQ!Get(KeyQueue)) = QueueOf(FALSE, FALSE)
    BY <1>1, <2>1, QueueCalls
  <2>3. KeyQueue' = QueueOf(FALSE, FALSE)
    BY <1>1, <2>1
  <2> QED BY <2>2, <2>3 DEF QueueStep
<1>8. CASE Reconcile
  <2>1. PICK pc \in {"create", "createBackup", "cleanup", "finalize", "patch"} :
               \E o, r : Begin(pc, o, r)
    BY <1>8, Zenon DEF Reconcile, ReconcileQueued, ReconcileInvalidCron, ReconcileNotDue, ReconcileReserve,
                ReconcileOnce, ReconcileMade, ReconcileDeleting
  <2>2. queued = TRUE /\ ~busy /\ queued' = FALSE /\ busy'
    BY <1>2, <2>1 DEF Begin
  <2>3. KeyQueue.items # <<>> /\ WQ!Get(KeyQueue) = QueueOf(FALSE, TRUE)
    BY <1>1, <2>2, QueueCalls
  <2>4. KeyQueue' = QueueOf(FALSE, TRUE)
    BY <1>1, <2>2
  <2> QED BY <2>3, <2>4 DEF QueueStep
<1>9. CASE Patch \/ PatchRejected \/ PatchFails
  <2>1. op.pc = "patch" /\ op' = IdleOp
    BY <1>9 DEF Patch, PatchRejected, PatchFails, DropPatch
  <2>2. busy /\ ~busy'
    BY <2>1 DEF IdleOp
  <2>3. queued => queued'
    BY <1>9 DEF Patch, PatchRejected, PatchFails, DropPatch
  <2> QED BY <1>2, <1>5, <2>2, <2>3
<1>10. CASE Call /\ ~Patch /\ ~PatchRejected /\ ~PatchFails
  BY <1>4, <1>10, CallGoesOn
<1>11. CASE Crash
  <2>1. queued' = Stored /\ ~busy'
    BY <1>11 DEF Crash, IdleOp
  <2>2. Enqueued(WQ!Empty) = QueueOf(TRUE, FALSE)
    BY <1>1, QueueCalls
  <2>3. KeyQueue' = IF Stored THEN Enqueued(WQ!Empty) ELSE WQ!Empty
    BY <1>1, <1>2, <2>1, <2>2
  <2> QED BY <1>11, <2>3 DEF QueueStep
<1>12. CASE Velero \/ SyncCache \/ Tick \/ UNCHANGED vars
  BY <1>4, <1>12 DEF Velero, RunSchedule, FinishBackup, StartDeletion, EndDeletion, RejectRequest,
                     SyncCache, Tick, vars
<1> QED BY <1>6, <1>7, <1>8, <1>9, <1>10, <1>11, <1>12 DEF Next

\* The boolean and the reconciliation in hand behave as the queue of
\* BaseController does: a change that comes while the object is reconciled is
\* handled after it, under all faults.
THEOREM QueuesAsClientGo == Spec => QueueImplemented
<1>1. Init => KeyQueue = WQ!Empty
  <2> SUFFICES ASSUME Init PROVE KeyQueue = WQ!Empty
    OBVIOUS
  <2>1. queued = FALSE /\ op.pc = "idle"
    BY DEF Init, IdleOp
  <2> QED BY <2>1, QueueCalls DEF KeyQueue
<1>2. TypeInv /\ [Next]_vars => [QueueStep]_KeyQueue
  BY NextQueue
<1> QED BY <1>1, <1>2, AlwaysTypeInv, PTL DEF Spec, QueueImplemented

=============================================================================
