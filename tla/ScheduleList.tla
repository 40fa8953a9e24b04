---------------------------- MODULE ScheduleList ----------------------------
(***************************************************************************)
(* status.veleroSchedules of a DMaaSBackup: the list in which the operator  *)
(* records the Velero schedules it reserved, created, deleted and erased    *)
(* (pkg/dmaasbackup/veleroschedules.go).                                    *)
(*                                                                         *)
(* A schedule's name is "<object>-<clock>" and only its clock part varies,  *)
(* so a name is that number.  A creation timestamp is the API server's      *)
(* clock reading; 0 stands for the zero time (and for a nil pointer, which  *)
(* every function of that file treats alike).                              *)
(***************************************************************************)
EXTENDS Naturals, Sequences, FiniteSets, SequencesExt

ScheduleStatus == {"", "Active", "Deleted", "Erased"}
Entry == [name : Nat, created : Nat, status : ScheduleStatus]

Names(s) == {s[k].name : k \in DOMAIN s}

Undated(e) == e.created = 0

\* ScheduleByCreationTimestamp.Less: an undated entry is before everything,
\* another undated entry included.
Less(a, b) ==
  \/ Undated(a)
  \/ /\ ~Undated(b)
     /\ \/ a.created < b.created
        \/ a.created = b.created /\ a.name < b.name

Dated(s) == {k \in DOMAIN s : ~Undated(s[k])}

\* Seeded fault: a stable sort, which leaves undated entries in their order.
SortLastStable(front, x) ==
  LET p == Cardinality({k \in DOMAIN front : ~Less(front[k], x)})
  IN  SubSeq(front, 1, p) \o <<x>> \o SubSeq(front, p + 1, Len(front))

(***************************************************************************)
(* sort.Sort(sort.Reverse(ScheduleByCreationTimestamp(front \o <<x>>))) for *)
(* a front that an earlier call left sorted, dated entries first and newest *)
(* first.  Up to 6 entries the Go library sorts by insertion.  Less is not  *)
(* an ordering of undated entries (each is less than the other), so that    *)
(* sort does not leave them alone: it reverses their run, and x is put in   *)
(* front of it or among the dated entries.  MCScheduleList compares this    *)
(* closed form with the insertion sort itself.                             *)
(***************************************************************************)
SortLast(front, x) ==
  LET n == Len(front)
      d == Cardinality(Dated(front))
      p == Cardinality({k \in DOMAIN front : ~Less(front[k], x)})
  IN  [k \in 1 .. n + 1 |->
        CASE k <= p                 -> front[k]
          [] k = p + 1              -> x
          [] k > p + 1 /\ k <= d + 1 -> front[k - 1]
          [] OTHER                  -> front[n + d + 2 - k]]

\* Seeded fault: a status the API does not define.
AddEmptyPending(s, n) == SortLast(s, [name |-> n, created |-> 0, status |-> "Pending"])

\* addEmptyVeleroSchedule: reserve a name, with no timestamp and no status.
AddEmpty(s, n) == SortLast(s, [name |-> n, created |-> 0, status |-> ""])

\* Seeded fault: look at the first entry.
HasQueuedFirst(s) == s # <<>> /\ Undated(Head(s)) /\ Head(s).status = ""

\* getEmptyQueuedVeleroSchedule: only the last entry is ever looked at.
HasQueued(s) == s # <<>> /\ Undated(Last(s)) /\ Last(s).status = ""

\* updateEmptyQueuedVeleroSchedule, given the timestamp of the schedule that
\* the Create call returned.
UpdateEmpty(s, t) ==
  SortLast(Front(s), [Last(s) EXCEPT !.created = t, !.status = "Active"])

\* Seeded faults: an off-by-one in the length test, and in the index.
HasPreviousOffByOne(s) == Len(s) > 2
PreviousTakesFirst(s) == s[1]

\* getPreviousVeleroSchedule returns the second entry, whatever its status.
HasPrevious(s) == Len(s) >= 2
Previous(s) == s[2]
MarkPreviousDeleted(s) == [s EXCEPT ![2].status = "Deleted"]

\* Seeded fault: count everything that is not active.
DeletedCountInactive(s) == Cardinality({k \in DOMAIN s : s[k].status # "Active"})

\* getDeletedScheduleCount
DeletedCount(s) == Cardinality({k \in DOMAIN s : s[k].status = "Deleted"})

=============================================================================
