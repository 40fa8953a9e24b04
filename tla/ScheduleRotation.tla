--------------------------- MODULE ScheduleRotation ---------------------------
(***************************************************************************)
(* What a periodic backup promises, without objects, patches and clocks: a  *)
(* schedule's name is put on record before it runs, a new schedule runs      *)
(* before the old one is retired, it is the older of the two that is         *)
(* retired, at most two run, and only what is retired is ever erased.       *)
(* DMaaSBackup implements this unless a deletion fails or a result is lost   *)
(* (RotationImplemented).                                                   *)
(***************************************************************************)
EXTENDS Naturals, FiniteSets

VARIABLES
  reserved,  \* the name on record for the next schedule, if any
  live,      \* the schedules that make backups
  retired,   \* those that make none any more and may have backups left
  erased     \* those without backups

vars == <<reserved, live, retired, erased>>

Known == reserved \union live \union retired \union erased

Init == reserved = {} /\ live = {} /\ retired = {} /\ erased = {}

\* Put on record, in one write, the next name (later than any before) and
\* which schedules have been erased.
Record ==
  /\ \E N \in {{}} \union {{n} : n \in reserved' \ reserved}, S \in SUBSET retired :
       /\ N # {} => reserved = {} /\ \A n \in N, k \in Known : n > k
       /\ reserved' = reserved \union N
       /\ retired' = retired \ S /\ erased' = erased \union S
  /\ UNCHANGED live

Start ==
  /\ reserved # {} /\ Cardinality(live) <= 1
  /\ live' = live \union reserved /\ reserved' = {}
  /\ UNCHANGED <<retired, erased>>

Retire ==
  /\ \E old, new \in live :
       /\ old < new /\ live = {old, new}
       /\ live' = {new} /\ retired' = retired \union {old}
  /\ UNCHANGED <<reserved, erased>>

\* The object is being deleted: first the schedules go, then their record.
StopAll ==
  /\ live' = {} /\ retired' = retired \union live
  /\ UNCHANGED <<reserved, erased>>

Forget == live = {} /\ Init'

Next == Record \/ Start \/ Retire \/ StopAll \/ Forget

Spec == Init /\ [][Next]_vars
=============================================================================
