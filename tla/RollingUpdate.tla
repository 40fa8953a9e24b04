----------------------------- MODULE RollingUpdate -----------------------------
(***************************************************************************)
(* Two operator processes over one DMaaSBackup object, as while a           *)
(* Deployment with one replica and the default strategy is rolled: the new  *)
(* pod is started, and ready, before the old one is killed.  Each process   *)
(* is the operator of DMaaSBackup, with its own queue, informer cache and   *)
(* reconciliation in progress; the object, Velero and the clock are shared. *)
(* Nothing elects a leader, and the patch carries no resource version.      *)
(***************************************************************************)
EXTENDS Naturals

CONSTANTS NoObject, Specs, FinalizerSets, Faults, Period, SlowCalls,
          MaxTime, MaxEntries, MaxBackups, MaxFaults, MaxEdits

VARIABLES
  obj, velero, oneShot, backups, taken, requests, now, faults, edits,  \* shared
  queuedOld, opOld, cacheOld,   \* the old process
  queuedNew, opNew, cacheNew,   \* the new process
  rollout                       \* which of them run: "old", "both" or "new"

\* DMaaSBackupProofs extends DMaaSBackup: what it proves of one operator's steps
\* is known of the steps of either process (see RollingUpdateProofs).
Old == INSTANCE DMaaSBackupProofs WITH queued <- queuedOld, op <- opOld, cache <- cacheOld
New == INSTANCE DMaaSBackupProofs WITH queued <- queuedNew, op <- opNew, cache <- cacheNew

shared == <<obj, velero, oneShot, backups, taken, requests, now, faults, edits>>
oldVars == <<queuedOld, opOld, cacheOld>>
newVars == <<queuedNew, opNew, cacheNew>>
vars == <<shared, oldVars, newVars, rollout>>

Init == Old!Init /\ New!Init /\ rollout = "old"

OldRuns == rollout # "new"
NewRuns == rollout # "old"

\* The informer of a process that runs tells it of a change of the object.
OldNotices == queuedOld' = (queuedOld \/ (OldRuns /\ obj' # obj))
NewNotices == queuedNew' = (queuedNew \/ (NewRuns /\ obj' # obj))

\* A process that crashes is started again; KillOld ends the old one for good.
OldStep ==
  /\ OldRuns
  /\ Old!Sync \/ Old!Skip \/ Old!Reconcile \/ Old!Call \/ Old!SyncCache \/ Old!Crash
  /\ NewNotices /\ UNCHANGED <<opNew, cacheNew, rollout>>

NewStep ==
  /\ NewRuns
  /\ New!Sync \/ New!Skip \/ New!Reconcile \/ New!Call \/ New!SyncCache \/ New!Crash
  /\ OldNotices /\ UNCHANGED <<opOld, cacheOld, rollout>>

\* Start-up lists all objects, and Add handlers enqueue them.
StartNew ==
  /\ rollout = "old" /\ rollout' = "both"
  /\ queuedNew' = New!Stored /\ cacheNew' = backups
  /\ UNCHANGED <<shared, oldVars, opNew>>

\* The operator handles no signal: it is killed wherever it is.
KillOld ==
  /\ rollout = "both" /\ rollout' = "new"
  /\ queuedOld' = FALSE /\ opOld' = Old!IdleOp
  /\ UNCHANGED <<shared, newVars, cacheOld>>

\* The user and Velero act on the shared objects; each is written as a step
\* of the process that is sure to run, and the other one notices.
Outside ==
  \/ /\ OldRuns /\ (Old!User \/ Old!Velero)
     /\ NewNotices /\ UNCHANGED <<opNew, cacheNew, rollout>>
  \/ /\ ~OldRuns /\ (New!User \/ New!Velero)
     /\ UNCHANGED <<oldVars, rollout>>

\* Every informer that runs lags by less than a tick.
Tick ==
  /\ now < MaxTime /\ now' = now + 1
  /\ (OldRuns => cacheOld = backups) /\ (NewRuns => cacheNew = backups)
  /\ SlowCalls \/ (opOld.pc = "idle" /\ opNew.pc = "idle")
  /\ UNCHANGED <<obj, velero, oneShot, backups, taken, requests, faults, edits,
                 oldVars, newVars, rollout>>

Next == OldStep \/ NewStep \/ StartNew \/ KillOld \/ Outside \/ Tick

Spec == Init /\ [][Next]_vars

\* "VeleroSchedules represents the list of Velero Schedule created by
\* DMaaSBackup" (backup_schedule.go 122): once the update is over and the new
\* operator has nothing left to do, a schedule that runs for an object that
\* exists is in its list, so that a hand-over can retire it.
NothingUntrackedAfterwards ==
  rollout = "new" /\ opNew.pc = "idle" /\ ~queuedNew /\ New!Live
    => velero \subseteq New!Names(obj.schedules)
=============================================================================
