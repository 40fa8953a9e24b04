--------------------------- MODULE MCScheduleList ---------------------------
(***************************************************************************)
(* The closed forms of ScheduleList and Retention against the loops they    *)
(* stand for, on every schedule list the operator's calls can build up to   *)
(* MaxLen entries, and on every history of up to MaxLen backups.           *)
(***************************************************************************)
EXTENDS ObjectCopy

CONSTANTS MaxLen, MaxName, MaxStamp

ASSUME BoundsAssumption == MaxLen \in Nat /\ MaxName \in Nat /\ MaxStamp \in Nat

VARIABLES
  list,   \* a status.veleroSchedules
  phases  \* the phases of one schedule's backups, oldest first
vars == <<list, phases>>

-----------------------------------------------------------------------------
(* The references.                                                         *)

\* One round of Go's insertion sort, under Reverse: x moves towards the front
\* while the entry before it is less than x.
Insert(sorted, x) ==
  LET p == Max({0} \union {k \in DOMAIN sorted : ~Less(sorted[k], x)})
  IN  SubSeq(sorted, 1, p) \o <<x>> \o SubSeq(sorted, p + 1, Len(sorted))

InsertionSort(s) == FoldLeft(Insert, <<>>, s)

\* The loop of getBackupCleanupIdx, over backups sorted newest first.
CleanupIdx(s, keep) ==
  LET step(acc, k) ==
        IF ~Finished(s[k]) THEN acc
        ELSE [left |-> acc.left - 1,
              good |-> IF s[k].phase = "Completed" /\ acc.good = 0 THEN k ELSE acc.good,
              done |-> IF acc.left - 1 <= 0 /\ acc.done = 0 THEN k ELSE acc.done]
  IN  FoldLeft(step, [left |-> keep, good |-> 0, done |-> 0], [k \in DOMAIN s |-> k])

\* The rest of cleanupNonPeriodicSchedule.
LoopSurplus(s, keep, check) ==
  LET idx == CleanupIdx(s, keep)
      last == IF check THEN Max({idx.done, idx.good}) ELSE idx.done
  IN  IF Len(s) < keep \/ idx.done = 0 \/ (check /\ idx.good = 0)
      THEN {} ELSE {s[k] : k \in last + 1 .. Len(s)}

-----------------------------------------------------------------------------
Init == list = <<>> /\ phases = <<>>

Reserve ==
  /\ Len(list) < MaxLen
  /\ \E n \in 1 .. MaxName : list' = AddEmpty(list, n)

\* Stamp 0 is that of a schedule that existed already.
Confirm == HasQueued(list) /\ \E t \in 0 .. MaxStamp : list' = UpdateEmpty(list, t)

Retire == HasPrevious(list) /\ list' = MarkPreviousDeleted(list)

MakeBackup ==
  /\ Len(phases) < MaxLen
  /\ \E ph \in BackupPhase : phases' = Append(phases, ph)

Next ==
  \/ phases = <<>> /\ (Reserve \/ Confirm \/ Retire) /\ UNCHANGED phases
  \/ list = <<>> /\ MakeBackup /\ UNCHANGED list

Spec == Init /\ [][Next]_vars

-----------------------------------------------------------------------------
\* addEmptyVeleroSchedule and updateEmptyQueuedVeleroSchedule leave the list
\* as Go's sort would, the entries it cannot order (undated ones) included.
SortsAsGo ==
  /\ \A n \in 1 .. MaxName :
       AddEmpty(list, n)
         = InsertionSort(Append(list, [name |-> n, created |-> 0, status |-> ""]))
  /\ HasQueued(list) =>
       \A t \in 0 .. MaxStamp :
         UpdateEmpty(list, t)
           = InsertionSort([list EXCEPT ![Len(list)].created = t,
                                        ![Len(list)].status = "Active"])

\* The backups cleanupNonPeriodicSchedule would have deleted are those its
\* loop finds past the retained and the successful one.
SurplusAsLoop ==
  LET history == [k \in DOMAIN phases |-> [id |-> k, sched |-> 1, phase |-> phases[k]]]
      s == <<[name |-> 1, created |-> 1, status |-> "Active"]>>
  IN  \A keep \in 1 .. MaxLen, check \in BOOLEAN :
        SurplusBackups(s, keep, check, Range(history))
          = LoopSurplus(Reverse(history), keep, check)

\* Memory after decoding an object: arrays may have spare capacity.
Decoded(fs, spare) ==
  LET junk == [k \in 1 .. spare |-> [name |-> 0, created |-> 0, status |-> ""]]
  IN  [heap |-> <<list \o junk, fs>>,
       obj |-> [schedules |-> Slice(1, Len(list)), finalizers |-> Slice(2, Len(fs))]]

\* A reconciliation computes on its copy what the list operations say, and
\* leaves the original as it was read: otherwise patchBackup, which sends their
\* difference, would lose the change (processBackup 124, 155).
CopyIsolated ==
  \A spare \in 0 .. 2, fs \in {<<"dmaas">>, <<"other", "dmaas">>, <<"dmaas", "other">>} :
    LET read == Decoded(fs, spare)
        dbkp == DeepCopy(read.heap, read.obj)
        sl == dbkp.obj.schedules
        Isolated(r, expected) ==
          /\ Value(r.heap, r.slice) = expected
          /\ Value(r.heap, read.obj.schedules) = list
          /\ Value(r.heap, read.obj.finalizers) = fs
    IN  /\ \A n \in 1 .. MaxName : Isolated(AddEmptyTo(dbkp.heap, sl, n), AddEmpty(list, n))
        /\ HasQueued(list) =>
             \A t \in 0 .. MaxStamp :
               LET r == UpdateEmptyOf(dbkp.heap, sl, t)
               IN  /\ Isolated(r, UpdateEmpty(list, t))
                   /\ HasPrevious(list) =>
                        Isolated(MarkPreviousOf(r.heap, r.slice),
                                 MarkPreviousDeleted(UpdateEmpty(list, t)))
        /\ Len(list) > 1 =>
             Isolated(EraseOf(dbkp.heap, sl, 0, {}), Erase(list, 0, FALSE, {}))
        /\ Isolated(RemoveFinalizer(dbkp.heap, dbkp.obj.finalizers), Others(fs))
=============================================================================
