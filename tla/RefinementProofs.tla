--------------------------- MODULE RefinementProofs ---------------------------
(***************************************************************************)
(* DMaaSBackup implements ScheduleRotation, for objects that all have a     *)
(* full backup period, as long as no deletion of a schedule fails and no    *)
(* result is lost: the proof that initial states are initial states and     *)
(* that each step is a step of the rotation or leaves it as it is.          *)
(***************************************************************************)
EXTENDS RotationProofs

EveryPeriodic == \A sp \in Specs : sp.cron # "none"
DeletionsSucceed == Faults \intersect {"deleteFails", "deleteLost"} = {}

-----------------------------------------------------------------------------
(* The invariant: how the copy's list differs from the one that was read,   *)
(* and which schedule is live.                                             *)

\* The entry a became b, with the schedules in v live.
Became(a, b, v) ==
  \/ b.status = a.status
  \/ /\ a.status \in {"Active", "Deleted"} /\ b.status \in {"Deleted", "Erased"}
     /\ a.name \notin v
  \/ Waiting(a) /\ b.status = "Active" /\ a.name \in v

\* The list d was made of o, with one more name at most, later than the others.
MadeOf(o, d, v) ==
  /\ \A k \in DOMAIN o : \E j \in DOMAIN d : d[j].name = o[k].name /\ Became(o[k], d[j], v)
  /\ \A j \in DOMAIN d :
       \/ \E k \in DOMAIN o : o[k].name = d[j].name
       \/ /\ Waiting(d[j])
          /\ \A k \in DOMAIN o : ~Waiting(o[k]) /\ o[k].name < d[j].name

\* The schedule waiting at the end of o is the first of d.
Shifted(o, d) ==
  /\ Len(d) = Len(o) /\ o # <<>> /\ Waiting(o[Len(o)])
  /\ d[1].name = o[Len(o)].name /\ d[1].status = "Active"
  /\ \A k \in DOMAIN d \ {1} : d[k] = o[k - 1]

HeadActive(s) == s # <<>> => Waiting(s[1]) \/ s[1].status = "Active"

HeadNames(s) == {s[k].name : k \in DOMAIN s \intersect {1}}

read == op.orig.schedules
copy == op.dbkp.schedules

SpecsHeld ==
  /\ Stored => obj.spec \in Specs
  /\ op.pc = "create" => op.dbkp.spec \in Specs

HeadsActive ==
  /\ Stored => HeadActive(obj.schedules)
  /\ op.pc # "idle" => HeadActive(copy)

CopyMade ==
  /\ op.pc \notin {"idle", "deleteOld"} => MadeOf(read, copy, velero)
  /\ op.pc \in {"createBackup", "finalize"} => copy = read
  /\ op.pc = "deleteOld" => Shifted(read, copy) /\ copy[2].status = "Active"

\* What is live is the newest schedule, and during a hand-over the one before it.
LiveHeads ==
  /\ Busy \/ (op.pc = "patch" /\ copy # read)
       => velero \subseteq IF op.pc = "deleteOld" THEN {copy[1].name, copy[2].name}
                                                  ELSE HeadNames(copy)
  /\ Stored /\ (op.pc = "idle" \/ copy = read) => velero \subseteq HeadNames(obj.schedules)

RefInv == SpecsHeld /\ HeadsActive /\ CopyMade /\ LiveHeads

-----------------------------------------------------------------------------
(* How lists are made of one another.                                      *)

LEMMA MadeOfItself ==
  ASSUME NEW s \in Seq(Entry), NEW v
  PROVE  MadeOf(s, s, v)
  BY DEF MadeOf, Became

\* Reserving a name.
LEMMA AddedMade ==
  ASSUME NEW s \in Seq(Entry), Ordered(s), NEW n \in Nat, UpTo(s, n), NEW v,
         s = <<>> \/ (~HasQueued(s) /\ s[1].created < n), HeadActive(s)
  PROVE  LET a == AddEmpty(s, n)
         IN  MadeOf(s, a, v) /\ HeadActive(a) /\ HeadNames(s) \subseteq HeadNames(a)
<1> DEFINE a == AddEmpty(s, n)
<1>1. /\ a \in Seq(Entry)
      /\ \A k \in DOMAIN s : s[k].name < n /\ k \in DOMAIN a /\ a[k] = s[k]
      /\ \A k \in DOMAIN a \ DOMAIN s : Waiting(a[k]) /\ a[k].name = n
  BY AddEmptyOrdered
<1>2. \A k \in DOMAIN s : ~Waiting(s[k])
  <2>1. SUFFICES ASSUME NEW k \in DOMAIN s PROVE ~Waiting(s[k])
    OBVIOUS
  <2>2. ~HasQueued(s)
    OBVIOUS
  <2> QED BY <2>2, OrderedWaiting
<1> HIDE DEF a
<1>3. MadeOf(s, a, v)
  <2>1. \A k \in DOMAIN s : \E j \in DOMAIN a : a[j].name = s[k].name /\ Became(s[k], a[j], v)
    BY <1>1 DEF Became
  <2>2. ASSUME NEW j \in DOMAIN a
        PROVE  \/ \E k \in DOMAIN s : s[k].name = a[j].name
               \/ /\ Waiting(a[j])
                  /\ \A k \in DOMAIN s : ~Waiting(s[k]) /\ s[k].name < a[j].name
    <3>1. CASE j \in DOMAIN s
      BY <1>1, <3>1
    <3>2. CASE j \notin DOMAIN s
      BY <1>1, <1>2, <3>2
    <3> QED BY <3>1, <3>2
  <2> QED BY <2>1, <2>2 DEF MadeOf
<1>4. s # <<>> => 1 \in DOMAIN s
  OBVIOUS
<1>5. a # <<>> => 1 \in DOMAIN a
  BY <1>1
<1>6. HeadActive(a)
  BY <1>1, <1>4, <1>5 DEF HeadActive
<1>7. HeadNames(s) \subseteq HeadNames(a)
  BY <1>1 DEF HeadNames
<1> QED BY <1>3, <1>6, <1>7 DEF a

\* The names of the first two entries, after a creation is recorded.
LEMMA CreatedShifts ==
  ASSUME NEW s \in Seq(Entry), Ordered(s), HasQueued(s), NEW t \in Nat \ {0}, UpTo(s, t),
         HeadActive(s)
  PROVE  LET u == UpdateEmpty(s, t)
         IN  /\ HeadActive(u) /\ Last(s).name \in HeadNames(u)
             /\ HasPrevious(u) => /\ Shifted(s, u) /\ u[2].status = "Active"
                                  /\ HeadNames(s) = {u[2].name} /\ u[1].name = Last(s).name
             /\ ~HasPrevious(u) => /\ HeadNames(s) = {Last(s).name}
                                   /\ \A v : Last(s).name \in v => MadeOf(s, u, v)
<1> DEFINE u == UpdateEmpty(s, t)
<1>1. /\ u \in Seq(Entry)
      /\ 1 \in DOMAIN u /\ u[1].name = Last(s).name /\ u[1].status = "Active"
      /\ \A k \in DOMAIN u \ {1} : k - 1 \in DOMAIN s /\ k - 1 < Len(s) /\ u[k] = s[k - 1]
  BY UpdateEmptyOrdered
<1>2. /\ s # <<>> /\ Len(s) \in DOMAIN s /\ Waiting(s[Len(s)]) /\ Last(s) = s[Len(s)]
      /\ DOMAIN s = 1 .. Len(s) /\ Len(s) \in Nat
  BY OrderedWaiting
<1>3. Len(u) = Len(s)
  <2>1. Front(s) \in Seq(Entry) /\ Len(Front(s)) = Len(s) - 1
    BY <1>2, FrontAndLast
  <2> DEFINE f == Front(s)
             x == [Last(s) EXCEPT !.created = t, !.status = "Active"]
  <2>2. DOMAIN u = 1 .. Len(f) + 1
    BY DEF UpdateEmpty, SortLast
  <2> QED BY <1>1, <1>2, <2>1, <2>2
<1> HIDE DEF u
<1>4. HeadActive(u) /\ Last(s).name \in HeadNames(u)
  BY <1>1 DEF HeadActive, HeadNames
<1>5. HeadNames(s) = {s[1].name}
  BY <1>2 DEF HeadNames
<1>6. ASSUME HasPrevious(u)
      PROVE  /\ Shifted(s, u) /\ u[2].status = "Active"
             /\ HeadNames(s) = {u[2].name} /\ u[1].name = Last(s).name
  <2>1. 2 \in DOMAIN u /\ u[2] = s[1] /\ 1 \in DOMAIN s /\ Len(s) # 1
    BY <1>1, <1>2, <1>3, <1>6 DEF HasPrevious
  <2>2. ~Waiting(s[1])
    BY <2>1 DEF Ordered
  <2>3. s[1].status = "Active"
    BY <1>2, <2>2 DEF HeadActive
  <2>4. Shifted(s, u)
    BY <1>1, <1>2, <1>3 DEF Shifted
  <2> QED BY <1>1, <1>5, <2>1, <2>3, <2>4
<1>7. ASSUME ~HasPrevious(u)
      PROVE  /\ HeadNames(s) = {Last(s).name}
             /\ \A v : Last(s).name \in v => MadeOf(s, u, v)
  <2>1. Len(s) = 1 /\ Len(u) = 1
    <3>1. ~(Len(u) >= 2) /\ Len(s) >= 1
      BY <1>2, <1>7 DEF HasPrevious
    <3> QED BY <1>2, <1>3, <3>1
  <2>2. DOMAIN u = {1} /\ DOMAIN s = {1} /\ Last(s) = s[1] /\ Waiting(s[1])
    BY <1>1, <1>2, <2>1
  <2>3. ASSUME NEW v, Last(s).name \in v
        PROVE  MadeOf(s, u, v)
    BY <1>1, <2>2, <2>3 DEF MadeOf, Became
  <2> QED BY <1>5, <2>2, <2>3
<1> QED BY <1>4, <1>6, <1>7 DEF u

\* Marking the old schedule: with the new one live and the old one not, the
\* list is made of the one that was read.
LEMMA MarkedMade ==
  ASSUME NEW o \in Seq(Entry), NEW s \in Seq(Entry), Ordered(s), ~HasQueued(s), HasPrevious(s),
         NEW t \in Nat, UpTo(s, t), Shifted(o, s), s[2].status = "Active", HeadActive(s), NEW v,
         s[1].name \in v
  PROVE  LET m == MarkPreviousDeleted(s)
         IN  /\ MadeOf(o, m, v \ {s[2].name})
             /\ HeadActive(m) /\ HeadNames(m) = {s[1].name}
<1> DEFINE m == MarkPreviousDeleted(s)
           w == v \ {s[2].name}
           e == [s[2] EXCEPT !.status = "Deleted"]
<1>1. /\ DOMAIN s = 1 .. Len(s) /\ Len(s) \in Nat /\ 1 \in DOMAIN s /\ 2 \in DOMAIN s
      /\ DOMAIN o = DOMAIN s /\ Len(o) = Len(s)
  BY DEF HasPrevious, Shifted
<1>2. m = [k \in DOMAIN s |-> IF k = 2 THEN e ELSE s[k]]
  BY <1>1 DEF MarkPreviousDeleted
<1>3. s[2] \in Entry
  BY <1>1
<1>4. e.name = s[2].name /\ e.status = "Deleted"
  BY <1>3 DEF Entry
<1> HIDE DEF m, e
<1>5. s[1].name # s[2].name
  BY <1>1, OrderedDistinct
<1>6. /\ s[1].name = o[Len(o)].name /\ s[1].status = "Active" /\ Waiting(o[Len(o)])
      /\ \A k \in DOMAIN s \ {1} : s[k] = o[k - 1]
  BY DEF Shifted
<1>7. ASSUME NEW k \in DOMAIN o
      PROVE  \E j \in DOMAIN m : m[j].name = o[k].name /\ Became(o[k], m[j], w)
  <2>1. CASE k = Len(o)
    <3>1. 1 \in DOMAIN m /\ m[1] = s[1]
      BY <1>1, <1>2
    <3>2. Became(o[k], m[1], w)
      BY <1>5, <1>6, <2>1, <3>1 DEF Became
    <3> QED BY <1>6, <2>1, <3>1, <3>2
  <2>2. CASE k = 1 /\ k # Len(o)
    <3>1. 2 \in DOMAIN m /\ m[2] = e /\ s[2] = o[1]
      BY <1>1, <1>2, <1>6
    <3>2. Became(o[1], m[2], w)
      BY <1>4, <3>1 DEF Became
    <3> QED BY <1>4, <2>2, <3>1, <3>2
  <2>3. CASE k # 1 /\ k # Len(o)
    <3>1. k + 1 \in DOMAIN m /\ m[k + 1] = o[k]
      <4>1. k + 1 \in DOMAIN s /\ k + 1 # 1 /\ k + 1 # 2 /\ (k + 1) - 1 = k
        BY <1>1, <2>3
      <4>2. s[k + 1] = o[k]
        BY <1>6, <4>1
      <4> QED BY <1>2, <4>1, <4>2
    <3> QED BY <3>1 DEF Became
  <2> QED BY <2>1, <2>2, <2>3
<1>8. ASSUME NEW j \in DOMAIN m
      PROVE  \E k \in DOMAIN o : o[k].name = m[j].name
  <2>1. j \in DOMAIN s /\ m[j].name = s[j].name
    BY <1>2, <1>4
  <2>2. CASE j = 1
    BY <1>1, <1>6, <2>1, <2>2
  <2>3. CASE j # 1
    <3>1. j - 1 \in DOMAIN o /\ s[j] = o[j - 1]
      BY <1>1, <1>6, <2>1, <2>3
    <3> QED BY <2>1, <3>1
  <2> QED BY <2>2, <2>3
<1>9. MadeOf(o, m, w)
  BY <1>7, <1>8 DEF MadeOf
<1>10. 1 \in DOMAIN m /\ m[1] = s[1]
  BY <1>1, <1>2
<1>11. HeadActive(m) /\ HeadNames(m) = {s[1].name}
  BY <1>6, <1>10 DEF HeadActive, HeadNames
<1> QED BY <1>9, <1>11 DEF m

\* What a clean-up does to the entries.
LEMMA ErasedEntries ==
  ASSUME NEW s \in Seq(Entry), NEW keep, NEW check, NEW B
  PROVE  LET m == Erase(s, keep, check, B)
         IN  /\ m \in Seq(Entry) /\ DOMAIN m = DOMAIN s
             /\ \A k \in DOMAIN s :
                  /\ m[k].name = s[k].name
                  /\ \/ m[k].status = s[k].status
                     \/ s[k].status = "Deleted" /\ m[k].status = "Erased"
<1> DEFINE m == Erase(s, keep, check, B)
           e(k) == [s[k] EXCEPT !.status = "Erased"]
<1>1. m \in Seq(Entry)
  BY EraseNames
<1>2. DOMAIN m = DOMAIN s /\ \A k \in DOMAIN s : m[k] = s[k] \/ (m[k] = e(k) /\ s[k].status = "Deleted")
  BY DEF Erase, Expired
<1>3. \A k \in DOMAIN s : e(k).name = s[k].name /\ e(k).status = "Erased"
  BY EntryNumbers DEF Entry
<1> HIDE DEF m, e
<1> QED BY <1>1, <1>2, <1>3 DEF m

\* Erasing entries of a copy that are Deleted and whose schedules are gone.
LEMMA ErasedMade ==
  ASSUME NEW o, NEW d, NEW m, NEW v, MadeOf(o, d, v), Gone(d, v), DOMAIN m = DOMAIN d,
         \A k \in DOMAIN d :
           /\ m[k].name = d[k].name
           /\ m[k].status = d[k].status \/ (d[k].status = "Deleted" /\ m[k].status = "Erased")
  PROVE  MadeOf(o, m, v)
<1>1. ASSUME NEW k \in DOMAIN o
      PROVE  \E j \in DOMAIN m : m[j].name = o[k].name /\ Became(o[k], m[j], v)
  <2>1. PICK j \in DOMAIN d : d[j].name = o[k].name /\ Became(o[k], d[j], v)
    BY DEF MadeOf
  <2>2. Became(o[k], m[j], v)
    <3>1. CASE m[j].status = d[j].status
      BY <2>1, <3>1 DEF Became
    <3>2. CASE d[j].status = "Deleted" /\ m[j].status = "Erased"
      <4>1. o[k].name \notin v
        BY <2>1, <3>2 DEF Gone
      <4>2. o[k].status \in {"Active", "Deleted"}
        BY <2>1, <3>2 DEF Became
      <4> QED BY <3>2, <4>1, <4>2 DEF Became
    <3> QED BY <3>1, <3>2
  <2> QED BY <2>1, <2>2
<1>2. ASSUME NEW j \in DOMAIN m
      PROVE  \/ \E k \in DOMAIN o : o[k].name = m[j].name
             \/ /\ Waiting(m[j])
                /\ \A k \in DOMAIN o : ~Waiting(o[k]) /\ o[k].name < m[j].name
  <2>1. CASE \E k \in DOMAIN o : o[k].name = d[j].name
    BY <2>1
  <2>2. CASE Waiting(d[j]) /\ \A k \in DOMAIN o : ~Waiting(o[k]) /\ o[k].name < d[j].name
    <3>1. d[j].status # "Deleted"
      BY <2>2 DEF Waiting
    <3>2. m[j].status = d[j].status
      BY <3>1
    <3>3. Waiting(m[j])
      BY <2>2, <3>2 DEF Waiting
    <3> QED BY <2>2, <3>3
  <2> QED BY <2>1, <2>2 DEF MadeOf
<1> QED BY <1>1, <1>2 DEF MadeOf

-----------------------------------------------------------------------------
(* RefInv holds.                                                           *)

LEMMA InitRef == Init => RefInv
<1> SUFFICES ASSUME Init PROVE RefInv
  OBVIOUS
<1>1. ~Stored /\ op.pc = "idle"
  BY DEF Init, Stored, IdleOp
<1> QED BY <1>1 DEF RefInv, SpecsHeld, HeadsActive, CopyMade, LiveHeads, Busy

\* Which writes leave the spec alone.
LEMMA SpecWritten ==
  ASSUME NEW o \in Object
  PROVE  /\ \A f : [o EXCEPT !.finalizers = f].spec = o.spec
         /\ [o EXCEPT !.deleting = TRUE].spec = o.spec
         /\ \A sp : [o EXCEPT !.spec = sp].spec = sp
         /\ Started(o).spec = o.spec /\ Patched(o).spec = o.spec
  BY SpecKept DEF Object

\* Steps without a reconciliation, or besides it.
LEMMA QuietRef ==
  ASSUME RefInv, op' = op, velero' = velero, Stored' => obj'.spec \in Specs,
         Stored' => \/ obj'.schedules = <<>> /\ velero = {}
                    \/ Stored /\ obj'.schedules = obj.schedules
  PROVE  RefInv'
<1>1. SpecsHeld'
  BY DEF RefInv, SpecsHeld
<1>2. HeadActive(<<>>)
  BY DEF HeadActive
<1>3. HeadsActive'
  BY <1>2 DEF RefInv, HeadsActive, copy
<1>4. CopyMade'
  BY DEF RefInv, CopyMade, read, copy
<1>5. LiveHeads'
  BY DEF RefInv, LiveHeads, read, copy, Busy
<1> QED BY <1>1, <1>3, <1>4, <1>5 DEF RefInv

\* What the user writes.
LEMMA UserWrites ==
  ASSUME KnownInv, User
  PROVE  /\ op' = op /\ velero' = velero
         /\ Stored' => \/ obj'.schedules = <<>> /\ velero = {} /\ obj'.spec \in Specs
                       \/ /\ Stored /\ obj'.schedules = obj.schedules
                          /\ obj'.spec \in Specs \union {obj.spec}
<1>1. op' = op /\ velero' = velero
  BY DEF User, UserCreate, UserEdit, UserDelete, OtherFinalizerRemoved, server
<1>2. Stored => obj \in Object
  BY KnownLists DEF KnownInv
<1>3. CASE UserCreate
  <2>1. PICK sp \in Specs, f \in FinalizerSets : obj' = NewObject(sp, f)
    BY <1>3 DEF UserCreate
  <2>2. obj'.schedules = <<>> /\ obj'.spec = sp
    BY <2>1 DEF NewObject
  <2>3. velero = {}
    BY <1>3 DEF UserCreate, KnownInv, TrackInv, NoUntrackedSchedule
  <2> QED BY <1>1, <2>2, <2>3
<1>4. CASE UserEdit
  <2>1. PICK sp \in Specs : obj' = [obj EXCEPT !.spec = sp]
    BY <1>4 DEF UserEdit
  <2>2. obj \in Object /\ Stored /\ sp \in SpecType
    BY <1>2, <1>4, ConstantsAssumption DEF UserEdit
  <2>3. obj'.schedules = obj.schedules /\ obj'.spec = sp
    BY <2>1, <2>2, ObjectUpdates, SpecWritten
  <2> QED BY <1>1, <2>2, <2>3
<1>5. CASE UserDelete \/ OtherFinalizerRemoved
  <2> DEFINE g == obj.finalizers \ {"other"}
             d == [obj EXCEPT !.deleting = TRUE]
             e == [obj EXCEPT !.finalizers = g]
  <2>1. obj \in Object /\ Stored /\ (obj' = Settle(d) \/ obj' = Settle(e))
    BY <1>2, <1>5 DEF UserDelete, OtherFinalizerRemoved
  <2>2. g \in SUBSET Finalizer
    BY <2>1 DEF Object
  <2> HIDE DEF g
  <2>3. d.schedules = obj.schedules /\ d.spec = obj.spec
    BY <2>1, ObjectUpdates, SpecWritten
  <2>4. e.schedules = obj.schedules /\ e.spec = obj.spec
    BY <2>1, <2>2, ObjectUpdates, SpecWritten
  <2> HIDE DEF d, e
  <2>5. Stored' => obj'.schedules = obj.schedules /\ obj'.spec = obj.spec
    BY <2>1, <2>3, <2>4 DEF Settle, Stored
  <2> QED BY <1>1, <2>1, <2>5
<1> QED BY <1>3, <1>4, <1>5 DEF User

LEMMA UserRef ==
  ASSUME KnownInv, RefInv, User
  PROVE  RefInv'
<1>1. Stored => obj.spec \in Specs
  BY DEF RefInv, SpecsHeld
<1> QED BY <1>1, UserWrites, QuietRef

\* The start of a reconciliation.
LEMMA BeginRef ==
  ASSUME RefInv, Stored, NEW pc, NEW o, NEW requeue, Begin(pc, o, requeue),
         pc \in {"create", "createBackup", "cleanup", "finalize", "patch"},
         pc = "create" => o.spec \in Specs,
         MadeOf(obj.schedules, o.schedules, velero),
         pc \in {"createBackup", "finalize"} => o.schedules = obj.schedules,
         HeadActive(o.schedules), HeadNames(obj.schedules) \subseteq HeadNames(o.schedules)
  PROVE  RefInv'
<1>1. /\ obj' = obj /\ velero' = velero /\ op.pc = "idle"
      /\ op'.pc = pc /\ op'.dbkp = o /\ op'.orig = obj
  BY DEF Begin, server
<1>2. velero \subseteq HeadNames(obj.schedules)
  BY <1>1 DEF RefInv, LiveHeads
<1>3. SpecsHeld' /\ HeadsActive'
  BY <1>1 DEF RefInv, SpecsHeld, HeadsActive, copy, Stored
<1>4. CopyMade'
  BY <1>1 DEF CopyMade, read, copy
<1>5. LiveHeads'
  BY <1>1, <1>2 DEF LiveHeads, read, copy, Busy
<1> QED BY <1>3, <1>4, <1>5 DEF RefInv

LEMMA ReserveRef ==
  ASSUME KnownInv, RotInv, RefInv, ReconcileReserve
  PROVE  RefInv'
<1> DEFINE s == obj.schedules
           a == AddEmpty(Started(obj).schedules, now)
           o == [Started(obj) EXCEPT !.schedules = a]
<1>1. /\ Stored /\ op.pc = "idle" /\ Begin("cleanup", o, TRUE)
      /\ s = <<>> \/ (~HasQueued(s) /\ Due(obj))
  BY DEF ReconcileReserve, Executes, Begin
<1>2. /\ obj \in Object /\ s \in Seq(Entry) /\ now \in Nat
      /\ Ordered(s) /\ UpTo(s, now) /\ HeadActive(s)
  BY <1>1, KnownLists DEF KnownInv, RotInv, StoredList, InOrder, RefInv, HeadsActive
<1>3. Started(obj) \in Object /\ Started(obj).schedules = s
  BY <1>2, StartedObject
<1>4. a = AddEmpty(s, now)
  BY <1>3
<1>5. s # <<>> => ~HasQueued(s) /\ s[1].created < now
  BY <1>1, <1>2, DueLater
<1> HIDE DEF a
<1>6. /\ a \in Seq(Entry) /\ MadeOf(s, a, velero)
      /\ HeadActive(a) /\ HeadNames(s) \subseteq HeadNames(a)
  BY <1>2, <1>4, <1>5, AddedMade, AddEmptyOrdered
<1>7. o.schedules = a
  <2>1. a \in Seq(Entry)
    BY <1>6
  <2> QED BY ONLY <1>3, <2>1, ObjectUpdates
<1> HIDE DEF o
<1> QED BY <1>1, <1>6, <1>7, BeginRef

LEMMA ReconcileRef ==
  ASSUME KnownInv, RotInv, RefInv, Reconcile
  PROVE  RefInv'
<1> DEFINE r == [Started(obj) EXCEPT !.reason = TRUE]
           s == obj.schedules
<1>1. Stored /\ op.pc = "idle"
  BY DEF Reconcile, ReconcileQueued, ReconcileInvalidCron, ReconcileNotDue, ReconcileReserve,
         ReconcileOnce, ReconcileMade, ReconcileDeleting, Executes, Begin
<1>2. obj \in Object /\ s \in Seq(Entry) /\ HeadActive(s) /\ obj.spec \in Specs
  BY <1>1, KnownLists DEF KnownInv, RefInv, HeadsActive, SpecsHeld
<1>3. MadeOf(s, s, velero) /\ HeadNames(s) \subseteq HeadNames(s)
  BY <1>2, MadeOfItself
<1>4. /\ Started(obj) \in Object /\ Started(obj).schedules = s
      /\ Started(obj).spec \in Specs
  BY <1>2, StartedObject, SpecWritten
<1>5. r.schedules = s
  BY <1>4, ObjectUpdates
<1>6. CASE ReconcileInvalidCron
  <2>1. Begin("patch", r, FALSE)
    BY <1>6 DEF ReconcileInvalidCron
  <2> HIDE DEF r
  <2> QED BY <1>1, <1>2, <1>3, <1>5, <2>1, BeginRef
<1>7. CASE \/ ReconcileQueued \/ ReconcileNotDue \/ ReconcileOnce \/ ReconcileMade
           \/ ReconcileDeleting
  <2>1. PICK pc \in {"create", "createBackup", "cleanup", "finalize", "patch"} :
          Begin(pc, Started(obj), FALSE)
    BY <1>7 DEF ReconcileQueued, ReconcileNotDue, ReconcileOnce, ReconcileMade, ReconcileDeleting
  <2> QED BY <1>1, <1>2, <1>3, <1>4, <2>1, BeginRef
<1> QED
  BY <1>6, <1>7, ReserveRef DEF Reconcile

\* A call: what it does to the copy and to the live schedules.
LEMMA BusyRef ==
  ASSUME KnownInv, RefInv, Busy, obj' = obj, op'.orig = op.orig,
         op'.pc \in {"deleteOld", "cleanup", "patch"}, HeadActive(op'.dbkp.schedules),
         LET d == op'.dbkp.schedules
         IN  IF op'.pc = "deleteOld"
             THEN /\ Shifted(op.orig.schedules, d) /\ d[2].status = "Active"
                  /\ velero' \subseteq {d[1].name, d[2].name} /\ d # op.orig.schedules
             ELSE MadeOf(op.orig.schedules, d, velero') /\ velero' \subseteq HeadNames(d)
  PROVE  RefInv'
<1>1. Stored /\ obj.schedules = op.orig.schedules
  BY DEF KnownInv, TrackInv, ListHeld
<1>2. SpecsHeld' /\ HeadsActive'
  BY DEF RefInv, SpecsHeld, HeadsActive, copy, Stored
<1>3. CopyMade'
  BY DEF CopyMade, read, copy
<1>4. LiveHeads'
  BY <1>1 DEF LiveHeads, read, copy, Busy
<1> QED BY <1>2, <1>3, <1>4 DEF RefInv

\* A call that leaves the copy's list as it was read.
LEMMA SameListRef ==
  ASSUME KnownInv, RotInv, RefInv, Busy, obj' = obj, velero' \subseteq velero,
         op.pc \in {"create", "createBackup", "finalize"}, op'.orig = op.orig,
         op'.pc \in {"cleanup", "patch"}, op'.dbkp.schedules = op.dbkp.schedules
  PROVE  RefInv'
<1>1. op.dbkp.schedules = op.orig.schedules /\ op.dbkp.schedules \in Seq(Entry)
  BY BusyCopy DEF RefInv, CopyMade, read, copy, KnownInv, TrackInv, CreatesWhatIsStored
<1>2. MadeOf(op.orig.schedules, op'.dbkp.schedules, velero')
  BY <1>1, MadeOfItself
<1>3. HeadActive(op'.dbkp.schedules) /\ velero' \subseteq HeadNames(op'.dbkp.schedules)
  BY DEF RefInv, HeadsActive, LiveHeads, copy, Busy
<1> QED BY <1>2, <1>3, BusyRef

\* With one schedule live, the newest on the list, the next is created.
LEMMA CreateRef ==
  ASSUME KnownInv, RotInv, RefInv, CreateSchedule, EveryPeriodic
  PROVE  RefInv'
<1> DEFINE s == op.dbkp.schedules
           u == UpdateEmpty(s, now)
           o == [op.dbkp EXCEPT !.schedules = u]
           pc == IF Periodic(op.dbkp) /\ HasPrevious(u) THEN "deleteOld" ELSE "cleanup"
           q == Last(s).name
<1>1. /\ op.pc = "create" /\ Busy /\ velero' = velero \union {q} /\ Created(now) /\ obj' = obj
  BY DEF CreateSchedule, QueuedName, Busy
<1>2. /\ OpOK /\ op.dbkp \in Object /\ s \in Seq(Entry) /\ InOrder(s, now, velero)
      /\ now \in Nat \ {0} /\ op.pc # "idle"
  BY <1>1, BusyCopy
<1>3. op.orig.schedules = s /\ HasQueued(s) /\ HeadActive(s) /\ velero \subseteq HeadNames(s)
  BY <1>1 DEF KnownInv, TrackInv, CreatesWhatIsStored, SliceInv, RefInv, HeadsActive, LiveHeads,
              read, copy, Busy
<1>4. /\ u \in Seq(Entry) /\ ~HasQueued(u) /\ HeadActive(u) /\ q \in HeadNames(u)
      /\ HasPrevious(u) => /\ Shifted(s, u) /\ u[2].status = "Active"
                           /\ HeadNames(s) = {u[2].name} /\ u[1].name = q
      /\ ~HasPrevious(u) => HeadNames(s) = {q} /\ MadeOf(s, u, velero')
  BY <1>1, <1>2, <1>3, UpdateEmptyOrdered, CreatedShifts DEF InOrder
<1>5. Periodic(op.dbkp)
  BY <1>1 DEF Periodic, RefInv, SpecsHeld, EveryPeriodic
<1>6. Continue(pc, o)
  BY <1>1 DEF Created
<1>7. pc = IF HasPrevious(u) THEN "deleteOld" ELSE "cleanup"
  BY <1>5
<1> HIDE DEF u, pc
<1>8. o \in Object /\ o.schedules = u
  BY <1>2, <1>4, ObjectUpdates
<1> HIDE DEF o
<1>9. op'.orig = op.orig /\ op'.dbkp = o /\ op'.pc = pc
  BY <1>2, <1>6, <1>7, <1>8, ContinueOpOK
<1>10. CASE HasPrevious(u)
  BY <1>1, <1>3, <1>4, <1>7, <1>8, <1>9, <1>10, BusyRef
<1>11. CASE ~HasPrevious(u)
  BY <1>1, <1>3, <1>4, <1>7, <1>8, <1>9, <1>11, BusyRef
<1> QED BY <1>10, <1>11

\* The hand-over leaves the newest schedule.
LEMMA DeleteOldRef ==
  ASSUME KnownInv, RotInv, RefInv, DeleteOld
  PROVE  RefInv'
<1> DEFINE s == op.dbkp.schedules
           m == MarkPreviousDeleted(s)
           o == [op.dbkp EXCEPT !.schedules = m]
<1>1. /\ op.pc = "deleteOld" /\ Busy /\ velero' = velero \ {s[2].name}
      /\ Continue("cleanup", o) /\ obj' = obj
  BY DEF DeleteOld, OldName, Previous, Busy
<1>2. /\ OpOK /\ op.dbkp \in Object /\ s \in Seq(Entry) /\ InOrder(s, now, velero)
      /\ now \in Nat /\ op.pc # "idle"
  BY <1>1, BusyCopy
<1>3. /\ ~HasQueued(s) /\ HasPrevious(s) /\ s[1].name \in velero
      /\ Shifted(op.orig.schedules, s) /\ s[2].status = "Active" /\ HeadActive(s)
      /\ velero \subseteq {s[1].name, s[2].name} /\ op.orig.schedules \in Seq(Entry)
  BY <1>1, <1>2, KnownLists
     DEF RotInv, HandsOver, OpOK, RefInv, CopyMade, HeadsActive, LiveHeads, read, copy, KnownInv
<1>4. /\ m \in Seq(Entry) /\ MadeOf(op.orig.schedules, m, velero')
      /\ HeadActive(m) /\ HeadNames(m) = {s[1].name}
  BY <1>1, <1>2, <1>3, MarkOrdered, MarkedMade DEF InOrder
<1> HIDE DEF m
<1>5. o \in Object /\ o.schedules = m
  BY <1>2, <1>4, ObjectUpdates
<1> HIDE DEF o
<1>6. op'.orig = op.orig /\ op'.dbkp = o /\ op'.pc = "cleanup"
  BY <1>1, <1>2, <1>5, ContinueOpOK
<1> QED BY <1>1, <1>3, <1>4, <1>5, <1>6, BusyRef

LEMMA CleanedRef ==
  ASSUME KnownInv, RotInv, RefInv, op.pc = "cleanup", UNCHANGED <<obj, velero>>,
         Continue("patch", CleanedUp(op.dbkp))
  PROVE  RefInv'
<1> DEFINE o == op.dbkp
           s == o.schedules
           m == Erase(s, o.spec.keep, o.spec.check, cache)
           e == [o EXCEPT !.schedules = m]
<1>1. Busy /\ cache \in SUBSET Backup
  BY DEF Busy, KnownInv, TypeInv, RestOK
<1>2. /\ OpOK /\ o \in Object /\ s \in Seq(Entry) /\ InOrder(s, now, velero)
      /\ now \in Nat /\ op.pc # "idle"
      /\ MadeOf(op.orig.schedules, s, velero) /\ HeadActive(s) /\ velero \subseteq HeadNames(s)
  BY <1>1, BusyCopy DEF RefInv, CopyMade, HeadsActive, LiveHeads, read, copy
<1>3. /\ m \in Seq(Entry)
      /\ DOMAIN m = DOMAIN s
      /\ \A k \in DOMAIN s :
           /\ m[k].name = s[k].name
           /\ m[k].status = s[k].status \/ (s[k].status = "Deleted" /\ m[k].status = "Erased")
  BY <1>2, ErasedEntries
<1>4. CleanedUp(o) \in {o, e} /\ CleanedUp(o) \in Object
  BY <1>1, <1>2, CleanupEffect DEF CleanedUp
<1> HIDE DEF m
<1>5. e.schedules = m
  BY <1>2, <1>3, ObjectUpdates
<1>6. MadeOf(op.orig.schedules, m, velero)
  BY <1>2, <1>3, ErasedMade DEF InOrder
<1>7. HeadActive(m) /\ HeadNames(m) = HeadNames(s)
  <2>1. s # <<>> => 1 \in DOMAIN s /\ s[1].status # "Deleted"
    <3>1. Waiting(s[1]) => s[1].status # "Deleted"
      BY DEF Waiting
    <3> QED BY <1>2, <3>1 DEF HeadActive
  <2>2. m # <<>> => s # <<>> /\ m[1].status = s[1].status
    BY <1>2, <1>3, <2>1
  <2>3. HeadActive(m)
    BY <1>2, <2>2 DEF HeadActive, Waiting
  <2>4. HeadNames(m) = HeadNames(s)
    BY <1>3 DEF HeadNames
  <2> QED BY <2>3, <2>4
<1> HIDE DEF e
<1>8. op'.orig = op.orig /\ op'.dbkp = CleanedUp(o) /\ op'.pc = "patch"
  BY <1>2, <1>4, ContinueOpOK
<1> QED BY <1>1, <1>2, <1>4, <1>5, <1>6, <1>7, <1>8, BusyRef

LEMMA PatchRef ==
  ASSUME KnownInv, RefInv, Patch
  PROVE  RefInv'
<1>1. /\ op.pc = "patch" /\ Stored /\ obj \in Object
      /\ op.orig \in Object /\ op.dbkp \in Object
  BY KnownLists DEF Patch, Accepted, KnownInv
<1> DEFINE d == Patched(obj)
<1>2. /\ d.schedules = Merged(obj.schedules, op.orig.schedules, op.dbkp.schedules)
      /\ d.spec = obj.spec
  BY <1>1, PatchedObject, SpecWritten
<1>3. obj' = Settle(d) /\ op' = IdleOp /\ velero' = velero
  BY DEF Patch, server
<1> HIDE DEF d
<1>4. HeadActive(d.schedules) /\ velero \subseteq HeadNames(d.schedules)
  <2>1. CASE op.dbkp.schedules = op.orig.schedules
    BY <1>1, <1>2, <2>1 DEF Merged, RefInv, HeadsActive, LiveHeads, read, copy
  <2>2. CASE op.dbkp.schedules # op.orig.schedules
    BY <1>1, <1>2, <2>2 DEF Merged, RefInv, HeadsActive, LiveHeads, read, copy
  <2> QED BY <2>1, <2>2
<1>5. Stored' => obj' = d
  BY <1>3 DEF Settle, Stored
<1>6. op'.pc = "idle"
  BY <1>3 DEF IdleOp
<1>7. SpecsHeld' /\ HeadsActive'
  BY <1>1, <1>2, <1>4, <1>5, <1>6 DEF RefInv, SpecsHeld, HeadsActive
<1>8. CopyMade' /\ LiveHeads'
  BY <1>3, <1>4, <1>5, <1>6 DEF CopyMade, LiveHeads, Busy
<1> QED BY <1>7, <1>8 DEF RefInv

LEMMA RejectedRef ==
  ASSUME KnownInv, RefInv, PatchRejected
  PROVE  RefInv'
<1>1. op.pc = "patch" /\ op' = IdleOp /\ UNCHANGED <<obj, velero>>
  BY DEF PatchRejected, DropPatch, server
<1>2. op'.pc = "idle"
  BY <1>1 DEF IdleOp
<1>3. Stored => velero \subseteq HeadNames(obj.schedules)
  BY <1>1, RejectedLoses DEF RefInv, LiveHeads, read, copy
<1>4. SpecsHeld' /\ HeadsActive'
  BY <1>1, <1>2 DEF RefInv, SpecsHeld, HeadsActive, Stored
<1>5. CopyMade' /\ LiveHeads'
  BY <1>1, <1>2, <1>3 DEF CopyMade, LiveHeads, Busy, Stored
<1> QED BY <1>4, <1>5 DEF RefInv

\* The faults that are left.
LEMMA DeletionsLeft ==
  ASSUME DeletionsSucceed
  PROVE  ~Fault("deleteFails") /\ ~Fault("deleteLost")
  BY DEF DeletionsSucceed, Fault

LEMMA CallRef ==
  ASSUME KnownInv, RotInv, RefInv, Call, EveryPeriodic, NoResultLost, DeletionsSucceed
  PROVE  RefInv'
<1>1. CASE CreateScheduleExists
  BY <1>1, NotThereYet DEF CreateScheduleExists
<1>2. CASE CreateScheduleFails \/ CreateBackupFails
  <2>1. Busy /\ GiveUp /\ obj' = obj /\ op.pc \in {"create", "createBackup"}
    BY <1>2 DEF CreateScheduleFails, CreateBackupFails, Busy
  <2>2. velero' = velero
    BY <1>2, FaultsLeft DEF CreateScheduleFails, CreateBackupFails
  <2>3. OpOK /\ op.pc # "idle"
    BY <2>1, BusyCopy
  <2> QED BY <2>1, <2>2, <2>3, GiveUpOpOK, SameListRef
<1>3. CASE CreateBackup
  <2>1. Busy /\ OpOK /\ op.pc = "createBackup" /\ obj' = obj /\ velero' = velero
    BY <1>3 DEF CreateBackup, Busy, KnownInv, TypeInv
  <2> QED BY <1>3, <2>1, BackedUpOpOK, SameListRef
<1>4. CASE Finalize
  <2>1. Busy /\ OpOK /\ op.pc = "finalize" /\ obj' = obj /\ velero' \subseteq velero
    BY <1>4 DEF Finalize, Busy, KnownInv, TypeInv
  <2> QED BY <1>4, <2>1, FinalizedOpOK, SameListRef
<1>5. CASE Cleanup \/ CleanupSomeFail
  BY <1>5, CleanedRef DEF Cleanup, CleanupSomeFail
<1>6. CASE DeleteOldFails \/ FinalizeFails \/ PatchFails
  BY <1>6, FaultsLeft, DeletionsLeft DEF DeleteOldFails, FinalizeFails, PatchFails
<1> QED
  BY <1>1, <1>2, <1>3, <1>4, <1>5, <1>6, CreateRef, DeleteOldRef, PatchRef, RejectedRef DEF Call

LEMMA NextRef ==
  ASSUME KnownInv, RotInv, RefInv, [Next]_vars, EveryPeriodic, NoResultLost, DeletionsSucceed
  PROVE  RefInv'
<1>1. CASE User \/ Reconcile \/ Call
  BY <1>1, UserRef, ReconcileRef, CallRef
<1>2. CASE Crash
  BY <1>2, FaultsLeft DEF Crash
<1>3. CASE Sync \/ Skip \/ SyncCache \/ Tick \/ Velero \/ UNCHANGED vars
  <2>1. UNCHANGED <<obj, op, velero>>
    BY <1>3 DEF Sync, Skip, SyncCache, Tick, Velero, RunSchedule, FinishBackup, StartDeletion,
                EndDeletion, RejectRequest, vars, server
  <2> QED BY <2>1, QuietRef DEF Stored, RefInv, SpecsHeld
<1> QED BY <1>1, <1>2, <1>3 DEF Next

LEMMA AlwaysRef ==
  ASSUME OperatorFinalizer, NoResultLost, EveryPeriodic, DeletionsSucceed
  PROVE  Spec => []RefInv
<1>1. KnownInv /\ RotInv /\ RefInv /\ [Next]_vars => RefInv'
  BY NextRef
<1>2. Spec => []KnownInv /\ []RotInv
  BY AlwaysKnown, AlwaysRot
<1> QED BY InitRef, <1>1, <1>2, PTL DEF Spec

-----------------------------------------------------------------------------
(* The abstract state, as sets of names of the stored list.                *)

Made(e) == e.status \in {"Active", "Deleted"}
Done(e) == e.status = "Erased"

WaitingNames(s) == {s[k].name : k \in {j \in DOMAIN s : Waiting(s[j])}}
MadeNames(s) == {s[k].name : k \in {j \in DOMAIN s : Made(s[j])}}
DoneNames(s) == {s[k].name : k \in {j \in DOMAIN s : Done(s[j])}}

list == IF Stored THEN obj.schedules ELSE <<>>

Reserved == NamesWith({""}) \ velero
Retired == NamesWith({"Active", "Deleted"}) \ velero
Over == NamesWith({"Erased"})

LEMMA EmptyNames ==
  WaitingNames(<<>>) = {} /\ MadeNames(<<>>) = {} /\ DoneNames(<<>>) = {} /\ Names(<<>>) = {}
  BY DEF WaitingNames, MadeNames, DoneNames, Names

\* One of the three, each.
LEMMA Kinds ==
  ASSUME NEW e
  PROVE  /\ e \in Entry => Waiting(e) \/ Made(e) \/ Done(e)
         /\ ~(Waiting(e) /\ Made(e)) /\ ~(Waiting(e) /\ Done(e)) /\ ~(Made(e) /\ Done(e))
  BY Zenon DEF Entry, ScheduleStatus, Waiting, Made, Done

LEMMA Views ==
  /\ Reserved = WaitingNames(list) \ velero /\ Reserved' = WaitingNames(list') \ velero'
  /\ Retired = MadeNames(list) \ velero /\ Retired' = MadeNames(list') \ velero'
  /\ Over = DoneNames(list) /\ Over' = DoneNames(list')
<1>1. ASSUME NEW e
      PROVE  /\ e.status \in {""} <=> Waiting(e)
             /\ e.status \in {"Active", "Deleted"} <=> Made(e)
             /\ e.status \in {"Erased"} <=> Done(e)
  BY Zenon DEF Waiting, Made, Done
<1>2. ASSUME Stored
      PROVE  /\ NamesWith({""}) = WaitingNames(list)
             /\ NamesWith({"Active", "Deleted"}) = MadeNames(list)
             /\ NamesWith({"Erased"}) = DoneNames(list)
  BY Zenon, <1>1, <1>2 DEF NamesWith, list, WaitingNames, MadeNames, DoneNames
<1>3. ASSUME ~Stored
      PROVE  /\ NamesWith({""}) = {}
             /\ NamesWith({"Active", "Deleted"}) = {}
             /\ NamesWith({"Erased"}) = {} /\ list = <<>>
  BY Zenon, <1>3 DEF NamesWith, list
<1>4. ASSUME Stored'
      PROVE  /\ NamesWith({""})' = WaitingNames(list')
             /\ NamesWith({"Active", "Deleted"})' = MadeNames(list')
             /\ NamesWith({"Erased"})' = DoneNames(list')
  BY Zenon, <1>1, <1>4 DEF NamesWith, list, WaitingNames, MadeNames, DoneNames
<1>5. ASSUME ~Stored'
      PROVE  /\ NamesWith({""})' = {}
             /\ NamesWith({"Active", "Deleted"})' = {}
             /\ NamesWith({"Erased"})' = {} /\ list' = <<>>
  BY Zenon, <1>5 DEF NamesWith, list
<1>6. /\ NamesWith({""}) = WaitingNames(list)
      /\ NamesWith({"Active", "Deleted"}) = MadeNames(list)
      /\ NamesWith({"Erased"}) = DoneNames(list)
  BY Zenon, <1>2, <1>3, EmptyNames
<1>7. /\ NamesWith({""})' = WaitingNames(list')
      /\ NamesWith({"Active", "Deleted"})' = MadeNames(list')
      /\ NamesWith({"Erased"})' = DoneNames(list')
  BY Zenon, <1>4, <1>5, EmptyNames
<1> QED BY Zenon, <1>6, <1>7 DEF Reserved, Retired, Over

\* In an ordered list a name has one entry, so it is of one kind.
LEMMA NamesApart ==
  ASSUME NEW s \in Seq(Entry), Ordered(s), NEW j \in DOMAIN s, NEW k \in DOMAIN s,
         s[j].name = s[k].name
  PROVE  j = k
<1>1. ~(j < k) /\ ~(k < j)
  BY OrderedDistinct
<1>2. j \in Nat /\ k \in Nat
  OBVIOUS
<1> QED BY <1>1, <1>2

LEMMA KindNames ==
  ASSUME NEW s \in Seq(Entry), Ordered(s)
  PROVE  /\ Names(s) = WaitingNames(s) \union MadeNames(s) \union DoneNames(s)
         /\ WaitingNames(s) \intersect MadeNames(s) = {}
         /\ MadeNames(s) \intersect DoneNames(s) = {}
         /\ HeadActive(s) => HeadNames(s) \subseteq WaitingNames(s) \union MadeNames(s)
<1>1. \A k \in DOMAIN s : Waiting(s[k]) \/ Made(s[k]) \/ Done(s[k])
  BY EntryNumbers, Kinds
<1>2. Names(s) = WaitingNames(s) \union MadeNames(s) \union DoneNames(s)
  BY <1>1 DEF Names, WaitingNames, MadeNames, DoneNames
<1>3. /\ WaitingNames(s) \intersect MadeNames(s) = {}
      /\ MadeNames(s) \intersect DoneNames(s) = {}
  BY Kinds, NamesApart DEF WaitingNames, MadeNames, DoneNames
<1>4. ASSUME HeadActive(s) PROVE HeadNames(s) \subseteq WaitingNames(s) \union MadeNames(s)
  <2>1. \A k \in DOMAIN s \intersect {1} : Waiting(s[k]) \/ Made(s[k])
    BY <1>4 DEF HeadActive, Made
  <2> QED BY <2>1 DEF HeadNames, WaitingNames, MadeNames
<1> QED BY <1>2, <1>3, <1>4

\* At most one name waits, and HasQueued finds it.
LEMMA OneWaits ==
  ASSUME NEW s \in Seq(Entry), Ordered(s)
  PROVE  WaitingNames(s) = IF HasQueued(s) THEN {Last(s).name} ELSE {}
  BY OrderedWaiting DEF WaitingNames

\* What the names of a list d have become that was made of o.
LEMMA RecordedNames ==
  ASSUME NEW o \in Seq(Entry), Ordered(o), NEW d \in Seq(Entry), Ordered(d), NEW v,
         MadeOf(o, d, v), Unmade(d, v)
  PROVE  LET N == WaitingNames(d) \ Names(o)
             S == DoneNames(d) \ DoneNames(o)
         IN  /\ WaitingNames(d) \ v = (WaitingNames(o) \ v) \union N
             /\ S \subseteq MadeNames(o) \ v
             /\ MadeNames(d) \ v = (MadeNames(o) \ v) \ S
             /\ DoneNames(d) = DoneNames(o) \union S
             /\ N # {} => WaitingNames(o) = {} /\ \A n \in N, k \in Names(o) : n > k
             /\ \A n \in N : N = {n}
<1> DEFINE N == WaitingNames(d) \ Names(o)
           S == DoneNames(d) \ DoneNames(o)
<1>1. ASSUME NEW k \in DOMAIN o
      PROVE  \E j \in DOMAIN d : d[j].name = o[k].name /\ Became(o[k], d[j], v)
  BY DEF MadeOf
<1>2. ASSUME NEW j \in DOMAIN d, NEW k \in DOMAIN o, d[j].name = o[k].name
      PROVE  Became(o[k], d[j], v)
  <2>1. PICK i \in DOMAIN d : d[i].name = o[k].name /\ Became(o[k], d[i], v)
    BY <1>1
  <2>2. i = j
    BY <1>2, <2>1, NamesApart
  <2> QED BY <2>1, <2>2
<1>3. ASSUME NEW j \in DOMAIN d
      PROVE  \/ \E k \in DOMAIN o : o[k].name = d[j].name
             \/ /\ Waiting(d[j])
                /\ \A k \in DOMAIN o : ~Waiting(o[k]) /\ o[k].name < d[j].name
  BY DEF MadeOf
<1>4. ASSUME NEW a, NEW b, Became(a, b, v)
      PROVE  /\ Waiting(b) => Waiting(a)
             /\ Waiting(a) /\ a.name \notin v => Waiting(b)
             /\ Made(b) /\ a.name \notin v => Made(a)
             /\ Made(a) => Made(b) \/ Done(b)
             /\ Done(a) => Done(b)
             /\ Done(b) => Done(a) \/ (Made(a) /\ a.name \notin v)
  BY Zenon, <1>4 DEF Became, Waiting, Made, Done
<1>5. \A n \in WaitingNames(d) : n \notin v
  BY OneWaits DEF Unmade
<1>6. WaitingNames(d) \ v = (WaitingNames(o) \ v) \union N
  <2>1. ASSUME NEW n \in WaitingNames(o) \ v
        PROVE  n \in WaitingNames(d)
    <3>1. PICK k \in DOMAIN o : Waiting(o[k]) /\ o[k].name = n
      BY DEF WaitingNames
    <3>2. PICK j \in DOMAIN d : d[j].name = n /\ Became(o[k], d[j], v)
      BY <1>1, <3>1
    <3>3. Waiting(d[j])
      BY <1>4, <3>1, <3>2
    <3> QED BY <3>2, <3>3 DEF WaitingNames
  <2>2. ASSUME NEW n \in WaitingNames(d), n \in Names(o)
        PROVE  n \in WaitingNames(o)
    <3>1. PICK j \in DOMAIN d : Waiting(d[j]) /\ d[j].name = n
      BY DEF WaitingNames
    <3>2. PICK k \in DOMAIN o : o[k].name = n
      BY <2>2 DEF Names
    <3>3. Waiting(o[k])
      BY <1>2, <1>4, <3>1, <3>2
    <3> QED BY <3>2, <3>3 DEF WaitingNames
  <2> QED BY <1>5, <2>1, <2>2
<1>7. ASSUME NEW n, n \in DoneNames(d) \/ n \in MadeNames(d)
      PROVE  \E j \in DOMAIN d, k \in DOMAIN o :
               d[j].name = n /\ o[k].name = n /\ Became(o[k], d[j], v) /\ ~Waiting(d[j])
                 /\ (n \in DoneNames(d) => Done(d[j])) /\ (n \in MadeNames(d) => Made(d[j]))
  <2>1. PICK j \in DOMAIN d : d[j].name = n /\ (Done(d[j]) \/ Made(d[j]))
    BY <1>7 DEF DoneNames, MadeNames
  <2>2. ~Waiting(d[j])
    BY <2>1, Kinds
  <2>3. PICK k \in DOMAIN o : o[k].name = d[j].name
    BY <1>3, <2>2
  <2>4. Became(o[k], d[j], v)
    BY <1>2, <2>3
  <2>5. n \in DoneNames(d) => Done(d[j])
    BY <2>1, NamesApart DEF DoneNames
  <2>6. n \in MadeNames(d) => Made(d[j])
    BY <2>1, NamesApart DEF MadeNames
  <2> QED BY <2>1, <2>2, <2>3, <2>4, <2>5, <2>6
<1>8. S \subseteq MadeNames(o) \ v
  <2>1. SUFFICES ASSUME NEW n \in DoneNames(d), n \notin DoneNames(o)
                 PROVE  n \in MadeNames(o) /\ n \notin v
    OBVIOUS
  <2>2. PICK j \in DOMAIN d, k \in DOMAIN o :
          d[j].name = n /\ o[k].name = n /\ Became(o[k], d[j], v) /\ Done(d[j])
    BY <1>7
  <2>3. ~Done(o[k])
    BY <2>1, <2>2 DEF DoneNames
  <2> QED BY <1>4, <2>2, <2>3 DEF MadeNames
<1>9. MadeNames(d) \ v = (MadeNames(o) \ v) \ S
  <2>1. ASSUME NEW n \in MadeNames(d) \ v
        PROVE  n \in MadeNames(o) /\ n \notin S
    <3>1. PICK j \in DOMAIN d, k \in DOMAIN o :
            d[j].name = n /\ o[k].name = n /\ Became(o[k], d[j], v) /\ Made(d[j])
      BY <1>7
    <3>2. Made(o[k])
      BY <1>4, <3>1
    <3>3. n \notin DoneNames(d)
      BY KindNames
    <3> QED BY <3>1, <3>2, <3>3 DEF MadeNames
  <2>2. ASSUME NEW n \in MadeNames(o) \ v, n \notin S
        PROVE  n \in MadeNames(d)
    <3>1. PICK k \in DOMAIN o : Made(o[k]) /\ o[k].name = n
      BY DEF MadeNames
    <3>2. PICK j \in DOMAIN d : d[j].name = n /\ Became(o[k], d[j], v)
      BY <1>1, <3>1
    <3>3. n \notin DoneNames(o)
      BY KindNames
    <3>4. ~Done(d[j])
      BY <2>2, <3>2, <3>3 DEF DoneNames
    <3>5. Made(d[j])
      BY <1>4, <3>1, <3>2, <3>4
    <3> QED BY <3>2, <3>5 DEF MadeNames
  <2> QED BY <2>1, <2>2
<1>10. DoneNames(o) \subseteq DoneNames(d)
  <2>1. SUFFICES ASSUME NEW k \in DOMAIN o, Done(o[k]) PROVE o[k].name \in DoneNames(d)
    BY DEF DoneNames
  <2>2. PICK j \in DOMAIN d : d[j].name = o[k].name /\ Became(o[k], d[j], v)
    BY <1>1
  <2>3. Done(d[j])
    BY <1>4, <2>1, <2>2
  <2> QED BY <2>2, <2>3 DEF DoneNames
<1>11. ASSUME NEW n \in N
       PROVE  N = {n} /\ WaitingNames(o) = {} /\ \A k \in Names(o) : n > k
  <2>1. N = {n}
    BY OneWaits
  <2>2. PICK j \in DOMAIN d : d[j].name = n
    BY DEF WaitingNames
  <2>3. \A k \in DOMAIN o : ~Waiting(o[k]) /\ o[k].name < n
    BY <1>3, <2>2 DEF Names
  <2>4. \A k \in Names(o) : k < n
    BY <2>3 DEF Names
  <2>5. \A k \in Names(o) : k \in Nat
    BY EntryNumbers DEF Names
  <2>6. n \in Nat
    BY <2>2, EntryNumbers
  <2> QED BY <2>1, <2>3, <2>4, <2>5, <2>6 DEF WaitingNames
<1> HIDE DEF N
<1>12. N # {} => WaitingNames(o) = {} /\ \A n \in N, k \in Names(o) : n > k
  BY <1>11
<1>13. DoneNames(d) = DoneNames(o) \union S
  BY <1>10
<1>14. \A n \in N : N = {n}
  BY <1>11
<1> QED BY <1>6, <1>8, <1>9, <1>12, <1>13, <1>14 DEF N

-----------------------------------------------------------------------------
(* Every step is a step of the rotation, or leaves it as it is.            *)

LEMMA ListKnown ==
  ASSUME KnownInv, RotInv
  PROVE  /\ list \in Seq(Entry) /\ Ordered(list) /\ velero \subseteq Names(list)
         /\ Stored => list = obj.schedules
         /\ Rotation!Known = Names(list)
<1>1. Stored => list = obj.schedules
  BY DEF list
<1>2. ASSUME Stored
      PROVE  list \in Seq(Entry) /\ Ordered(list) /\ velero \subseteq Names(list)
  BY <1>1, <1>2, KnownLists
     DEF KnownInv, RotInv, StoredList, InOrder, TrackInv, NoUntrackedSchedule
<1>3. ASSUME ~Stored
      PROVE  list \in Seq(Entry) /\ Ordered(list) /\ velero \subseteq Names(list)
  <2>1. list = <<>> /\ velero = {}
    BY <1>3 DEF list, KnownInv, TrackInv, NoUntrackedSchedule
  <2> QED BY <1>3, <2>1, EmptyNames DEF Ordered
<1>4. list \in Seq(Entry) /\ Ordered(list) /\ velero \subseteq Names(list)
  BY <1>2, <1>3
<1>5. Rotation!Known = Reserved \union velero \union Retired \union Over
  BY Zenon DEF Rotation!Known, Reserved, Retired, Over
<1>6. Names(list) = WaitingNames(list) \union MadeNames(list) \union DoneNames(list)
  BY <1>4, KindNames
<1>7. Rotation!Known = Names(list)
  BY <1>4, <1>5, <1>6, Views
<1> QED BY <1>1, <1>4, <1>7

\* The steps of the rotation, in terms of the views.
LEMMA Stutters ==
  ASSUME list' = list, velero' = velero
  PROVE  UNCHANGED Rotation!vars
<1>1. Reserved' = Reserved /\ Retired' = Retired /\ Over' = Over
  BY Views
<1> QED BY Zenon, <1>1 DEF Rotation!vars, Reserved, Retired, Over

LEMMA Forgets ==
  ASSUME list' = <<>>, velero' = {}, velero = {}
  PROVE  Rotation!Forget
<1>1. Reserved' = {} /\ Retired' = {} /\ Over' = {}
  BY Views, EmptyNames
<1> QED BY Zenon, <1>1 DEF Rotation!Forget, Rotation!Init, Reserved, Retired, Over

LEMMA Records ==
  ASSUME NEW N, NEW S, velero' = velero, Reserved' = Reserved \union N,
         S \subseteq Retired, Retired' = Retired \ S, Over' = Over \union S,
         N # {} => Reserved = {} /\ \A n \in N, k \in Rotation!Known : n > k,
         \A n \in N : N = {n}
  PROVE  Rotation!Record
<1>1. N \in {{}} \union {{n} : n \in Reserved' \ Reserved}
  <2>1. CASE N = {}
    BY Zenon, <2>1
  <2>2. CASE N # {}
    <3>1. PICK n \in N : TRUE
      BY <2>2
    <3>2. N = {n} /\ n \in Reserved' \ Reserved
      BY <2>2, <3>1
    <3> QED BY Zenon, <3>2
  <2> QED BY Zenon, <2>1, <2>2
<1>2. S \in SUBSET Retired
  BY Zenon
<1> QED BY Zenon, <1>1, <1>2 DEF Rotation!Record, Reserved, Retired, Over

LEMMA Starts ==
  ASSUME list' = list, velero' = velero \union Reserved, Reserved # {}, Cardinality(velero) <= 1,
         Reserved \intersect MadeNames(list) = {}
  PROVE  Rotation!Start
<1>1. Reserved' = {} /\ Retired' = Retired /\ Over' = Over
  BY Views
<1>2. Rotation!Cardinality(velero) <= 1
  BY DEF Cardinality, Rotation!Cardinality
<1> QED BY Zenon, <1>1, <1>2 DEF Rotation!Start, Reserved, Retired, Over

LEMMA StopsAll ==
  ASSUME list' = list, velero' = {}, velero \subseteq MadeNames(list),
         velero \intersect WaitingNames(list) = {}
  PROVE  Rotation!StopAll
<1>1. Reserved' = Reserved /\ Retired' = Retired \union velero /\ Over' = Over
  BY Views
<1> QED BY Zenon, <1>1 DEF Rotation!StopAll, Reserved, Retired, Over

LEMMA RetiresOne ==
  ASSUME NEW old, NEW new, list' = list, velero = {old, new}, velero' = {new}, old < new,
         old # new, old \in MadeNames(list), old \notin WaitingNames(list)
  PROVE  Rotation!Retire
<1>1. Reserved' = Reserved /\ Retired' = Retired \union {old} /\ Over' = Over
  BY Views
<1>2. old \in velero /\ new \in velero
  OBVIOUS
<1> QED BY Zenon, <1>1, <1>2 DEF Rotation!Retire, Reserved, Retired, Over

LEMMA UserSim ==
  ASSUME KnownInv, KnownInv', User
  PROVE  UNCHANGED Rotation!vars \/ Rotation!Forget
<1>1. velero' = velero
  BY UserWrites
<1>2. CASE Stored' /\ Stored /\ obj'.schedules = obj.schedules
  <2>1. list' = list
    BY <1>2 DEF list
  <2> QED BY <1>1, <2>1, Stutters
<1>3. CASE Stored' /\ obj'.schedules = <<>> /\ velero = {}
  <2>1. list' = <<>>
    BY <1>3 DEF list
  <2> QED BY <1>1, <1>3, <2>1, Forgets
<1>4. CASE ~Stored'
  <2>1. list' = <<>> /\ velero' = {}
    BY <1>4 DEF list, KnownInv, TrackInv, NoUntrackedSchedule
  <2> QED BY <1>1, <2>1, Forgets
<1> QED BY <1>2, <1>3, <1>4, UserWrites

LEMMA AtMostOne ==
  ASSUME NEW v, v = {} \/ \E n : v = {n}
  PROVE  Cardinality(v) <= 1
<1>1. CASE v = {}
  BY <1>1, FS_EmptySet
<1>2. CASE \E n : v = {n}
  <2>1. PICK n : v = {n}
    BY <1>2
  <2>2. Cardinality({n}) = 1
    BY FS_Singleton
  <2> QED BY <2>1, <2>2
<1> QED BY <1>1, <1>2

\* One schedule at most is live, the newest.
LEMMA CreateSim ==
  ASSUME KnownInv, RotInv, RefInv, CreateSchedule
  PROVE  Rotation!Start
<1> DEFINE s == op.dbkp.schedules
           q == Last(s).name
<1>1. /\ op.pc = "create" /\ Busy /\ velero' = velero \union {q} /\ q \notin velero /\ obj' = obj
  BY DEF CreateSchedule, QueuedName, Busy
<1>2. list = s /\ HasQueued(s) /\ velero \subseteq HeadNames(s)
  BY <1>1, ListKnown DEF KnownInv, TrackInv, CreatesWhatIsStored, ListHeld, SliceInv, RefInv,
                         LiveHeads, read, copy, Busy
<1>3. list' = list
  BY <1>1 DEF list, Stored
<1>4. /\ WaitingNames(list) = {q}
      /\ WaitingNames(list) \intersect MadeNames(list) = {}
  BY <1>2, ListKnown, OneWaits, KindNames
<1>5. Reserved = {q}
  BY <1>1, <1>4, Views
<1>6. velero = {} \/ velero = {s[1].name}
  BY <1>2 DEF HeadNames
<1>7. Cardinality(velero) <= 1
  BY <1>6, AtMostOne
<1> QED BY <1>1, <1>3, <1>4, <1>5, <1>7, Starts

LEMMA DeleteOldSim ==
  ASSUME KnownInv, RotInv, RefInv, DeleteOld
  PROVE  UNCHANGED Rotation!vars \/ Rotation!Retire
<1> DEFINE s == op.dbkp.schedules
<1>1. op.pc = "deleteOld" /\ Busy /\ velero' = velero \ {s[2].name} /\ obj' = obj
  BY DEF DeleteOld, OldName, Previous, Busy
<1>2. /\ OpOK /\ s \in Seq(Entry) /\ Ordered(s) /\ list = op.orig.schedules
      /\ list \in Seq(Entry) /\ Ordered(list)
  BY <1>1, BusyCopy, ListKnown DEF InOrder, KnownInv, TrackInv, ListHeld
<1>3. /\ ~HasQueued(s) /\ HasPrevious(s) /\ s[1].name \in velero
      /\ Shifted(list, s) /\ s[2].status = "Active"
      /\ velero \subseteq {s[1].name, s[2].name}
  BY <1>1, <1>2
     DEF RotInv, HandsOver, OpOK, RefInv, CopyMade, LiveHeads, read, copy
<1>4. list' = list
  BY <1>1 DEF list, Stored
<1>5. 1 \in DOMAIN s /\ 2 \in DOMAIN s /\ 1 < 2 /\ 1 \in DOMAIN list /\ s[2] = list[1]
  <2>1. Len(list) = Len(s) /\ Len(s) \in Nat /\ Len(s) >= 2
    BY <1>2, <1>3 DEF HasPrevious, Shifted
  <2>2. 1 \in DOMAIN s /\ 2 \in DOMAIN s /\ 1 \in DOMAIN list
    BY <1>2, <2>1
  <2> QED BY <1>3, <2>2 DEF Shifted
<1>6. ~Waiting(s[2])
  BY <1>2, <1>3, <1>5, OrderedWaiting
<1>7. s[2].name < s[1].name /\ s[1].name # s[2].name
  BY <1>2, <1>5, <1>6, OrderedDistinct
<1>8. s[2].name \in MadeNames(list) /\ s[2].name \notin WaitingNames(list)
  <2>1. Made(s[2])
    BY <1>3 DEF Made
  <2>2. s[2].name \in MadeNames(list)
    BY <1>5, <2>1 DEF MadeNames
  <2> QED BY <1>2, <2>2, KindNames
<1>9. CASE s[2].name \in velero
  BY <1>1, <1>3, <1>4, <1>7, <1>8, <1>9, RetiresOne
<1>10. CASE s[2].name \notin velero
  BY <1>1, <1>4, <1>10, Stutters
<1> QED BY <1>9, <1>10

LEMMA FinalizeSim ==
  ASSUME KnownInv, RotInv, RefInv, Finalize
  PROVE  Rotation!StopAll
<1>1. op.pc = "finalize" /\ Busy /\ velero' = {} /\ obj' = obj
  BY DEF Finalize, Busy
<1>2. op.dbkp.schedules = op.orig.schedules /\ Stored /\ list = op.orig.schedules
  BY <1>1, ListKnown DEF RefInv, CopyMade, read, copy, KnownInv, TrackInv, ListHeld
<1>3. /\ list \in Seq(Entry) /\ Ordered(list) /\ HeadActive(list)
      /\ velero \subseteq HeadNames(list) /\ Unmade(list, velero)
  BY <1>1, <1>2, ListKnown, BusyCopy DEF RefInv, HeadsActive, LiveHeads, read, copy
<1>4. list' = list
  BY <1>1 DEF list, Stored
<1>5. velero \intersect WaitingNames(list) = {}
  BY <1>3, OneWaits DEF Unmade
<1>6. velero \subseteq MadeNames(list)
  BY <1>3, <1>5, KindNames
<1> QED BY <1>1, <1>4, <1>5, <1>6, StopsAll

\* The patch puts on record what the reconciliation has done, or reserved.
LEMMA PatchSim ==
  ASSUME KnownInv, KnownInv', RotInv, RefInv, Patch
  PROVE  UNCHANGED Rotation!vars \/ Rotation!Record \/ Rotation!Forget
<1>1. /\ op.pc = "patch" /\ Stored /\ obj \in Object
      /\ op.orig \in Object /\ op.dbkp \in Object
  BY KnownLists DEF Patch, Accepted, KnownInv
<1> DEFINE d == Patched(obj)
<1>2. d.schedules = Merged(obj.schedules, op.orig.schedules, op.dbkp.schedules)
  BY <1>1, PatchedObject
<1>3. obj' = Settle(d) /\ velero' = velero
  BY DEF Patch, server
<1> HIDE DEF d
<1>4. CASE ~Stored'
  <2>1. list' = <<>> /\ velero' = {}
    BY <1>4 DEF list, KnownInv, TrackInv, NoUntrackedSchedule
  <2> QED BY <1>3, <2>1, Forgets
<1>5. CASE Stored' /\ op.dbkp.schedules = op.orig.schedules
  <2>1. list' = list
    BY <1>1, <1>2, <1>3, <1>5 DEF list, Merged, Settle, Stored
  <2> QED BY <1>3, <2>1, Stutters
<1>6. CASE Stored' /\ op.dbkp.schedules # op.orig.schedules
  <2> DEFINE o == op.orig.schedules
             c == op.dbkp.schedules
             N == WaitingNames(c) \ Names(o)
             S == DoneNames(c) \ DoneNames(o)
  <2>1. list' = c /\ list = o
    BY <1>1, <1>2, <1>3, <1>6 DEF list, Merged, Settle, Stored, KnownInv, TrackInv, ListHeld
  <2>2. /\ o \in Seq(Entry) /\ Ordered(o) /\ c \in Seq(Entry) /\ Ordered(c)
        /\ MadeOf(o, c, velero) /\ Unmade(c, velero)
    BY <1>1, <2>1, ListKnown, KnownLists
       DEF KnownInv, RotInv, CopiedList, InOrder, RefInv, CopyMade, read, copy
  <2>3. /\ WaitingNames(c) \ velero = (WaitingNames(o) \ velero) \union N
        /\ S \subseteq MadeNames(o) \ velero
        /\ MadeNames(c) \ velero = (MadeNames(o) \ velero) \ S
        /\ DoneNames(c) = DoneNames(o) \union S
        /\ N # {} => WaitingNames(o) = {} /\ \A n \in N, k \in Names(o) : n > k
        /\ \A n \in N : N = {n}
    BY <2>2, RecordedNames
  <2> HIDE DEF N, S
  <2>4. /\ Reserved' = Reserved \union N /\ S \subseteq Retired
        /\ Retired' = Retired \ S /\ Over' = Over \union S
        /\ N # {} => Reserved = {}
    BY <1>3, <2>1, <2>3, Views
  <2>5. N # {} => \A n \in N, k \in Rotation!Known : n > k
    BY <2>1, <2>3, ListKnown
  <2> QED BY <1>3, <2>3, <2>4, <2>5, Records
<1> QED BY <1>4, <1>5, <1>6

LEMMA CallSim ==
  ASSUME KnownInv, KnownInv', RotInv, RefInv, Call, NoResultLost, DeletionsSucceed
  PROVE  Rotation!Next \/ UNCHANGED Rotation!vars
<1>1. CASE \/ CreateScheduleFails \/ CreateBackup \/ CreateBackupFails \/ Cleanup
           \/ CleanupSomeFail \/ PatchRejected
  <2>1. obj' = obj /\ velero' = velero
    BY <1>1, FaultsLeft DEF CreateScheduleFails, CreateBackup, CreateBackupFails, Cleanup,
                            CleanupSomeFail, PatchRejected, DropPatch, server
  <2>2. list' = list
    BY <2>1 DEF list, Stored
  <2> QED BY <2>1, <2>2, Stutters
<1>2. CASE CreateScheduleExists
  BY <1>2, NotThereYet DEF CreateScheduleExists
<1>3. CASE DeleteOldFails \/ FinalizeFails \/ PatchFails
  BY <1>3, FaultsLeft, DeletionsLeft DEF DeleteOldFails, FinalizeFails, PatchFails
<1>4. CASE CreateSchedule \/ DeleteOld \/ Finalize \/ Patch
  BY <1>4, CreateSim, DeleteOldSim, FinalizeSim, PatchSim DEF Rotation!Next
<1> QED BY <1>1, <1>2, <1>3, <1>4 DEF Call

LEMMA NextSim ==
  ASSUME KnownInv, KnownInv', RotInv, RefInv, [Next]_vars, NoResultLost, DeletionsSucceed
  PROVE  [Rotation!Next]_Rotation!vars
<1>1. CASE User
  BY <1>1, UserSim DEF Rotation!Next
<1>2. CASE Call
  BY <1>2, CallSim
<1>3. CASE Crash
  BY <1>3, FaultsLeft DEF Crash
<1>4. CASE Reconcile \/ Sync \/ Skip \/ SyncCache \/ Tick \/ Velero \/ UNCHANGED vars
  <2>1. Reconcile => obj' = obj /\ velero' = velero
    BY DEF Reconcile, ReconcileQueued, ReconcileInvalidCron, ReconcileNotDue, ReconcileReserve,
           ReconcileOnce, ReconcileMade, ReconcileDeleting, Begin, server
  <2>2. obj' = obj /\ velero' = velero
    BY <1>4, <2>1 DEF Sync, Skip, SyncCache, Tick, Velero, RunSchedule, FinishBackup,
                      StartDeletion, EndDeletion, RejectRequest, vars, server
  <2>3. list' = list
    BY <2>2 DEF list, Stored
  <2> QED BY <2>2, <2>3, Stutters
<1> QED BY <1>1, <1>2, <1>3, <1>4 DEF Next

LEMMA InitSim == Init => Rotation!Init
<1> SUFFICES ASSUME Init PROVE Rotation!Init
  OBVIOUS
<1>1. list = <<>> /\ velero = {}
  BY DEF Init, list, Stored
<1>2. Reserved = {} /\ Retired = {} /\ Over = {}
  BY <1>1, Views, EmptyNames
<1> QED BY Zenon, <1>1, <1>2 DEF Rotation!Init, Reserved, Retired, Over

\* The reconciliations of objects that have a full backup period rotate their
\* schedules as ScheduleRotation says, as long as no result is lost and no
\* deletion fails: whatever other calls fail, however long they take, and
\* whatever the user does in between.
THEOREM RotatesAsSpecified ==
  ASSUME OperatorFinalizer, NoResultLost, EveryPeriodic, DeletionsSucceed
  PROVE  Spec => RotationImplemented
<1>1. KnownInv /\ KnownInv' /\ RotInv /\ RefInv /\ [Next]_vars
        => [Rotation!Next]_Rotation!vars
  BY NextSim
<1>2. Spec => []KnownInv /\ []RotInv /\ []RefInv
  BY AlwaysKnown, AlwaysRot, AlwaysRef
<1> QED BY InitSim, <1>1, <1>2, PTL DEF Spec, RotationImplemented, Rotation!Spec

\* Outside a hand-over there is one live schedule at most, under the same
\* assumptions.
THEOREM OneLive ==
  ASSUME OperatorFinalizer, NoResultLost, EveryPeriodic, DeletionsSucceed
  PROVE  Spec => []OneLiveSchedule
<1>1. KnownInv /\ RefInv => OneLiveSchedule
  <2> SUFFICES ASSUME KnownInv, RefInv, op.pc # "deleteOld"
               PROVE  Cardinality(velero) <= 1
    BY DEF OneLiveSchedule
  <2>1. \A s : HeadNames(s) = {} \/ \E n : HeadNames(s) = {n}
    BY DEF HeadNames
  <2>2. \E s : velero \subseteq HeadNames(s)
    <3>1. CASE Busy \/ (op.pc = "patch" /\ copy # read)
      BY <3>1 DEF RefInv, LiveHeads
    <3>2. CASE Stored /\ (op.pc = "idle" \/ copy = read)
      BY <3>2 DEF RefInv, LiveHeads
    <3>3. CASE ~Stored
      BY <3>3 DEF KnownInv, TrackInv, NoUntrackedSchedule
    <3>4. op.pc \in {"idle", "patch"} \/ Busy
      BY DEF KnownInv, TypeInv, OpOK, OpType, Busy
    <3> QED BY <3>1, <3>2, <3>3, <3>4
  <2>3. velero = {} \/ \E n : velero = {n}
    BY <2>1, <2>2
  <2> QED BY <2>3, AtMostOne
<1>2. Spec => []KnownInv /\ []RefInv
  BY AlwaysKnown, AlwaysRef
<1> QED BY <1>1, <1>2, PTL

\* So a hand-over that succeeds leaves the new schedule alone, if none failed
\* before it: for objects with a full backup period it takes a failed deletion,
\* as in the run OldLeaked, or a lost result to leave an old schedule running
\* (processPeriodicConfigSchedule).
THEOREM HandOverComplete ==
  ASSUME OperatorFinalizer, NoResultLost, EveryPeriodic, DeletionsSucceed
  PROVE  Spec => HandOverLeavesOne
<1>1. OneLiveSchedule' /\ op.pc = "deleteOld" /\ op'.pc = "cleanup"
        => Cardinality(velero') <= 1
  BY DEF OneLiveSchedule
<1>2. Spec => []OneLiveSchedule
  BY OneLive
<1> QED BY <1>1, <1>2, PTL DEF HandOverLeavesOne

=============================================================================
