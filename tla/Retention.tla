------------------------------ MODULE Retention ------------------------------
(***************************************************************************)
(* Which backups the operator asks Velero to delete, and which schedules it *)
(* marks Erased: cleanupPeriodicSchedule (periodic_backup.go) and           *)
(* cleanupNonPeriodicSchedule (nonperiodic_backup.go), as functions of the  *)
(* schedule list and of the backups the informer's cache shows.            *)
(*                                                                         *)
(* A backup is [id, sched, phase]; ids grow with creation time, the order   *)
(* byBackupCreationTimeStamp sorts by.  "InProgress" also stands for the    *)
(* empty phase and New, "Failed" for PartiallyFailed and FailedValidation.  *)
(* `keep` is FullBackupRetentionThreshold, `check` the negation of          *)
(* DisableSuccessfulBackupCheckForRetention.                               *)
(***************************************************************************)
EXTENDS ScheduleList

BackupPhase == {"InProgress", "Completed", "Failed", "Deleting"}
Backup == [id : Nat, sched : Nat, phase : BackupPhase]

Finished(b) == b.phase \in {"Completed", "Failed"}

\* listScheduledBackups
BackupsOf(B, n) == {b \in B : b.sched = n}

\* getSuccessfulScheduleIdx stops at the first position for which this holds.
HasSuccessful(s, k, B) ==
  s[k].status # "Erased" /\ \E b \in BackupsOf(B, s[k].name) : b.phase = "Completed"

\* Seeded fault: the successful schedule does not move the boundary.
RequiredIgnoresSuccess(s, keep, check, B) == keep

\* The index, from 0, up to which cleanupPeriodicSchedule retains entries
\* whatever their status: the threshold, moved to the first schedule with a
\* successful backup when that one is further down.
Required(s, keep, check, B) ==
  IF check
  THEN Max({keep, Min({k \in DOMAIN s : HasSuccessful(s, k, B)}) - 1})
  ELSE keep

\* The early returns of cleanupPeriodicSchedule.
CleansUp(s, keep, check, B) ==
  /\ DeletedCount(s) >= keep
  /\ check => \E k \in DOMAIN s : HasSuccessful(s, k, B)

\* The slice VeleroSchedules[requiredSchedule+1:] exists; Go panics otherwise.
SliceExists(s, keep, check, B) ==
  CleansUp(s, keep, check, B) => Required(s, keep, check, B) + 1 <= Len(s)

\* Seeded fault: slice from requiredSchedule, not requiredSchedule+1.
ExpiredOffByOne(s, keep, check, B) ==
  IF CleansUp(s, keep, check, B)
  THEN {k \in DOMAIN s : k > Required(s, keep, check, B) /\ s[k].status = "Deleted"}
  ELSE {}

Expired(s, keep, check, B) ==
  IF CleansUp(s, keep, check, B)
  THEN {k \in DOMAIN s : k > Required(s, keep, check, B) + 1 /\ s[k].status = "Deleted"}
  ELSE {}

\* Seeded fault: do not wait for the backups to be gone.
EraseAtOnce(s, keep, check, B) ==
  [k \in DOMAIN s |->
     IF k \in Expired(s, keep, check, B) THEN [s[k] EXCEPT !.status = "Erased"] ELSE s[k]]

\* An expired schedule without a backup left becomes Erased ...
Erase(s, keep, check, B) ==
  [k \in DOMAIN s |->
     IF k \in Expired(s, keep, check, B) /\ BackupsOf(B, s[k].name) = {}
     THEN [s[k] EXCEPT !.status = "Erased"]
     ELSE s[k]]

\* ... and delete requests are made for the backups of the others.
ExpiredBackups(s, keep, check, B) ==
  UNION {BackupsOf(B, s[k].name) : k \in Expired(s, keep, check, B)}

\* Seeded fault: the keep-th finished backup is requested as well.
SurplusOffByOne(s, keep, check, B) ==
  IF s = <<>> \/ s[1].status # "Active" THEN {}
  ELSE LET own == BackupsOf(B, s[1].name)
           newer(b) == {c \in own : c.id >= b.id}
       IN  {b \in own :
              /\ Cardinality({c \in newer(b) : Finished(c)}) >= keep
              /\ check => \E c \in newer(b) : c.phase = "Completed"}

\* Seeded fault: no check for a successful backup.
SurplusUnchecked(s, keep, check, B) ==
  IF s = <<>> \/ s[1].status # "Active" THEN {}
  ELSE LET own == BackupsOf(B, s[1].name)
       IN  {b \in own : Cardinality({c \in own : Finished(c) /\ c.id > b.id}) >= keep}

(***************************************************************************)
(* cleanupNonPeriodicSchedule, getBackupCleanupIdx: the backups older than  *)
(* the keep-th finished one, counted from the newest, and (with the check)  *)
(* older than the newest successful one.  Nothing when there is no such     *)
(* backup, or when the newest schedule is not active.                      *)
(***************************************************************************)
SurplusBackups(s, keep, check, B) ==
  IF s = <<>> \/ s[1].status # "Active" THEN {}
  ELSE LET own == BackupsOf(B, s[1].name)
           newer(b) == {c \in own : c.id > b.id}
       IN  {b \in own :
              /\ Cardinality({c \in newer(b) : Finished(c)}) >= keep
              /\ check => \E c \in newer(b) : c.phase = "Completed"}

=============================================================================
