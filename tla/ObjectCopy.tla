------------------------------ MODULE ObjectCopy ------------------------------
(***************************************************************************)
(* The copy of an object that a reconciliation works on, and what the       *)
(* functions that change it do to the memory it shares, or not, with the    *)
(* original (zz_generated.deepcopy.go, veleroschedules.go).  The patch is    *)
(* the difference of the two, so a change that reached the original as well *)
(* would never be written.                                                 *)
(*                                                                         *)
(* A heap is a sequence of arrays.  A slice is an array's place and a       *)
(* length; what the array has beyond that length is its spare capacity.     *)
(* Of an object only the two slices count that are changed in place.        *)
(***************************************************************************)
EXTENDS Retention

Slice(place, length) == [at |-> place, len |-> length]

Value(heap, sl) == SubSeq(heap[sl.at], 1, sl.len)

Result(heap, sl) == [heap |-> heap, slice |-> sl]

NewArray(heap, s) == Result(Append(heap, s), Slice(Len(heap) + 1, Len(s)))

\* The elements of sl become those of s, which is no longer than sl.
Write(heap, sl, s) ==
  [heap EXCEPT ![sl.at] = [k \in DOMAIN @ |-> IF k \in DOMAIN s THEN s[k] ELSE @[k]]]

\* Go's append: into the spare capacity if there is any.
AppendTo(heap, sl, x) ==
  IF sl.len < Len(heap[sl.at])
  THEN Result([heap EXCEPT ![sl.at][sl.len + 1] = x], Slice(sl.at, sl.len + 1))
  ELSE NewArray(heap, Append(Value(heap, sl), x))

-----------------------------------------------------------------------------
\* Seeded fault: the slice is copied, its array is not.
CopySchedulesShallow(heap, sl) == Result(heap, sl)

\* DMaaSBackupStatus.DeepCopyInto makes an array of the slice's length.
CopySchedules(heap, sl) == NewArray(heap, Value(heap, sl))

\* ObjectMeta.DeepCopyInto does the same for the finalizers.
CopyFinalizers(heap, sl) == NewArray(heap, Value(heap, sl))

\* DMaaSBackup.DeepCopy
DeepCopy(heap, o) ==
  LET f == CopyFinalizers(heap, o.finalizers)
      s == CopySchedules(f.heap, o.schedules)
  IN  [heap |-> s.heap, obj |-> [schedules |-> s.slice, finalizers |-> f.slice]]

\* addEmptyVeleroSchedule appends, and sorts in place.
AddEmptyTo(heap, sl, n) ==
  LET a == AppendTo(heap, sl, [name |-> n, created |-> 0, status |-> ""])
  IN  Result(Write(a.heap, a.slice, AddEmpty(Value(heap, sl), n)), a.slice)

\* updateEmptyQueuedVeleroSchedule writes through a pointer to the entry, and
\* sorts in place.
UpdateEmptyOf(heap, sl, t) == Result(Write(heap, sl, UpdateEmpty(Value(heap, sl), t)), sl)

\* lastSchedule is a pointer to the second entry.
MarkPreviousOf(heap, sl) == Result(Write(heap, sl, MarkPreviousDeleted(Value(heap, sl))), sl)

\* cleanupPeriodicSchedule writes to the entries by their index in the list.
EraseOf(heap, sl, keep, B) == Result(Write(heap, sl, Erase(Value(heap, sl), keep, FALSE, B)), sl)

\* The finalizers but the operator's own.
Others(fs) == FoldLeft(LAMBDA kept, f : IF f = "dmaas" THEN kept ELSE Append(kept, f), <<>>, fs)

\* removeDMaaSFinalizer moves the finalizers it keeps to the front of the array
\* they are read from.
RemoveFinalizer(heap, sl) ==
  LET kept == Others(Value(heap, sl))
  IN  Result(Write(heap, sl, kept), Slice(sl.at, Len(kept)))
=============================================================================
