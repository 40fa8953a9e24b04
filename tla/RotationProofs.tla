---------------------------- MODULE RotationProofs ----------------------------
(***************************************************************************)
(* Proofs about the rotation of schedules as long as no result is lost: no  *)
(* crash, no lost patch, and no creation that is answered with an error     *)
(* after it was carried out.  Calls may fail, deletions also after they     *)
(* were carried out, and reconciliations may last as long as they like.     *)
(***************************************************************************)
EXTENDS DMaaSBackupProofs

OperatorFinalizer == \A f \in FinalizerSets : "dmaas" \in f

-----------------------------------------------------------------------------
(* The list, when it is in order.                                          *)

\* The name is reserved, and the schedule has yet to be created.
Waiting(e) == e.status = ""

\* b's name was reserved after a was created.
Follows(a, b) == a.created < b.name

\* The newest entry comes first, each reserved after the one below it was
\* created; a reserved name that waits to be created comes last.
Ordered(s) ==
  /\ \A k \in DOMAIN s : Waiting(s[k]) => k = Len(s) /\ Undated(s[k])
  /\ \A k \in DOMAIN s : ~Waiting(s[k]) => s[k].name <= s[k].created /\ ~Undated(s[k])
  /\ \A j, k \in DOMAIN s :
       j < k => IF Waiting(s[k]) THEN Follows(s[j], s[k]) ELSE Follows(s[k], s[j])

UpTo(s, t) == \A k \in DOMAIN s : s[k].name <= t /\ s[k].created <= t

\* An undated entry that is put into a list of dated ones goes to the end.
LEMMA SortedLast ==
  ASSUME NEW s \in Seq(Entry), \A k \in DOMAIN s : ~Undated(s[k]),
         NEW x \in Entry, Undated(x)
  PROVE  SortLast(s, x) = [k \in 1 .. Len(s) + 1 |-> IF k <= Len(s) THEN s[k] ELSE x]
<1> DEFINE n == Len(s)
           d == Cardinality(Dated(s))
           p == Cardinality({k \in DOMAIN s : ~Less(s[k], x)})
<1>1. n \in Nat /\ DOMAIN s = 1 .. n
  OBVIOUS
<1>2. Dated(s) = DOMAIN s
  BY DEF Dated
<1>3. {k \in DOMAIN s : ~Less(s[k], x)} = DOMAIN s
  BY DEF Less
<1>4. d = n /\ p = n
  BY <1>2, <1>3, Positions
<1>5. SortLast(s, x) = [k \in 1 .. n + 1 |->
                          CASE k <= p                 -> s[k]
                            [] k = p + 1              -> x
                            [] k > p + 1 /\ k <= d + 1 -> s[k - 1]
                            [] OTHER                  -> s[n + d + 2 - k]]
  BY DEF SortLast
<1> HIDE DEF d, p
<1> QED BY <1>1, <1>4, <1>5

\* A dated entry newer than all of a list of dated ones goes to the front.
LEMMA SortedFirst ==
  ASSUME NEW s \in Seq(Entry), NEW x \in Entry, ~Undated(x),
         \A k \in DOMAIN s : ~Undated(s[k]) /\ s[k].created < x.created
  PROVE  SortLast(s, x) = [k \in 1 .. Len(s) + 1 |-> IF k = 1 THEN x ELSE s[k - 1]]
<1> DEFINE n == Len(s)
           d == Cardinality(Dated(s))
           p == Cardinality({k \in DOMAIN s : ~Less(s[k], x)})
<1>1. n \in Nat /\ DOMAIN s = 1 .. n
  OBVIOUS
<1>2. Dated(s) = DOMAIN s
  BY DEF Dated
<1>3. {k \in DOMAIN s : ~Less(s[k], x)} = {}
  BY DEF Less
<1>4. d = n /\ p = 0
  BY <1>2, <1>3, Positions, FS_EmptySet
<1>5. SortLast(s, x) = [k \in 1 .. n + 1 |->
                          CASE k <= p                 -> s[k]
                            [] k = p + 1              -> x
                            [] k > p + 1 /\ k <= d + 1 -> s[k - 1]
                            [] OTHER                  -> s[n + d + 2 - k]]
  BY DEF SortLast
<1> HIDE DEF d, p
<1> QED BY <1>1, <1>4, <1>5

LEMMA QueuedWaits ==
  ASSUME NEW s
  PROVE  HasQueued(s) <=> s # <<>> /\ Undated(Last(s)) /\ Waiting(Last(s))
  BY DEF HasQueued, Waiting

\* In an ordered list only the last entry waits, and HasQueued finds it.
LEMMA OrderedWaiting ==
  ASSUME NEW s \in Seq(Entry), Ordered(s)
  PROVE  /\ \A k \in DOMAIN s : Waiting(s[k]) => k = Len(s) /\ HasQueued(s)
         /\ HasQueued(s) => s # <<>> /\ Len(s) \in DOMAIN s /\ Waiting(s[Len(s)])
                              /\ Undated(s[Len(s)]) /\ Last(s) = s[Len(s)]
<1>1. DOMAIN s = 1 .. Len(s) /\ Len(s) \in Nat
  OBVIOUS
<1>2. Last(s) = s[Len(s)]
  BY DEF Last
<1>3. ASSUME NEW k \in DOMAIN s, Waiting(s[k])
      PROVE  k = Len(s) /\ HasQueued(s)
  <2>1. k = Len(s) /\ Undated(s[k]) /\ s # <<>>
    BY <1>1, <1>3 DEF Ordered
  <2> QED BY <1>2, <1>3, <2>1, QueuedWaits
<1>4. ASSUME HasQueued(s)
      PROVE  s # <<>> /\ Len(s) \in DOMAIN s /\ Waiting(s[Len(s)]) /\ Undated(s[Len(s)])
  <2>1. s # <<>> /\ Waiting(s[Len(s)]) /\ Undated(s[Len(s)])
    BY <1>2, <1>4, QueuedWaits
  <2>2. Len(s) \in DOMAIN s
    BY <1>1, <2>1
  <2> QED BY <2>1, <2>2
<1> QED BY <1>2, <1>3, <1>4

\* The numbers of an entry.
LEMMA EntryNumbers ==
  ASSUME NEW s \in Seq(Entry)
  PROVE  \A k \in DOMAIN s : s[k] \in Entry /\ s[k].name \in Nat /\ s[k].created \in Nat
<1>1. \A k \in DOMAIN s : s[k] \in Entry
  OBVIOUS
<1>2. \A e \in Entry : e.name \in Nat /\ e.created \in Nat
  BY DEF Entry
<1> QED BY <1>1, <1>2

\* The names of an ordered list differ.
LEMMA OrderedDistinct ==
  ASSUME NEW s \in Seq(Entry), Ordered(s), NEW j \in DOMAIN s, NEW k \in DOMAIN s, j < k
  PROVE  /\ s[j].name # s[k].name
         /\ ~Waiting(s[k]) => s[k].name < s[j].name
<1>1. /\ s[j].name \in Nat /\ s[k].name \in Nat /\ s[j].created \in Nat /\ s[k].created \in Nat
      /\ DOMAIN s = 1 .. Len(s) /\ Len(s) \in Nat
  BY EntryNumbers
<1>2. ~Waiting(s[j])
  BY <1>1 DEF Ordered
<1>3. s[j].name <= s[j].created
  BY <1>2 DEF Ordered
<1>4. CASE Waiting(s[k])
  <2>1. s[j].created < s[k].name
    BY <1>4 DEF Ordered, Follows
  <2> QED BY <1>1, <1>3, <1>4, <2>1
<1>5. CASE ~Waiting(s[k])
  <2>1. s[k].created < s[j].name /\ s[k].name <= s[k].created
    BY <1>5 DEF Ordered, Follows
  <2> QED BY <1>1, <2>1
<1> QED BY <1>4, <1>5

\* Setting a status leaves the rest alone.
LEMMA EntryUpdates ==
  ASSUME NEW e \in Entry, NEW st \in {"Active", "Deleted", "Erased"}
  PROVE  LET u == [e EXCEPT !.status = st]
         IN  u \in Entry /\ u.name = e.name /\ u.created = e.created /\ ~Waiting(u)
<1> DEFINE u == [e EXCEPT !.status = st]
<1>1. u \in Entry /\ u.name = e.name /\ u.created = e.created /\ u.status = st
  BY DEF Entry, ScheduleStatus
<1>2. st # ""
  OBVIOUS
<1> HIDE DEF u
<1>3. ~Waiting(u)
  BY <1>1, <1>2 DEF Waiting
<1> QED BY <1>1, <1>3 DEF u

\* What a change of statuses leaves as it was.
LEMMA StatusesChanged ==
  ASSUME NEW s \in Seq(Entry), NEW m \in Seq(Entry), Ordered(s), NEW t \in Nat, UpTo(s, t),
         DOMAIN m = DOMAIN s,
         \A k \in DOMAIN s : /\ m[k].name = s[k].name /\ m[k].created = s[k].created
                             /\ Waiting(m[k]) <=> Waiting(s[k])
  PROVE  /\ Ordered(m) /\ UpTo(m, t)
         /\ HasQueued(m) <=> HasQueued(s)
         /\ HasQueued(m) => Last(m).name = Last(s).name
<1>1. Len(m) = Len(s)
  OBVIOUS
<1>2. Ordered(m)
  BY <1>1 DEF Ordered, Undated, Follows
<1>3. UpTo(m, t)
  BY DEF UpTo
<1>4. HasQueued(m) => HasQueued(s) /\ Last(m).name = Last(s).name
  BY <1>1, <1>2, OrderedWaiting
<1>5. HasQueued(s) => HasQueued(m)
  BY <1>1, <1>2, OrderedWaiting
<1> QED BY <1>2, <1>3, <1>4, <1>5

\* Reserving a name later than any creation on the list.
LEMMA AddEmptyOrdered ==
  ASSUME NEW s \in Seq(Entry), Ordered(s), NEW n \in Nat, UpTo(s, n),
         s = <<>> \/ (~HasQueued(s) /\ s[1].created < n)
  PROVE  LET a == AddEmpty(s, n)
         IN  /\ a \in Seq(Entry) /\ Ordered(a) /\ UpTo(a, n)
             /\ HasQueued(a) => Last(a).name = n
             /\ \A k \in DOMAIN a : Waiting(a[k]) \/ (k \in DOMAIN s /\ a[k] = s[k])
             /\ \A k \in DOMAIN s : s[k].name < n /\ k \in DOMAIN a /\ a[k] = s[k]
             /\ \A k \in DOMAIN a \ DOMAIN s : Waiting(a[k]) /\ a[k].name = n
<1> DEFINE a == AddEmpty(s, n)
           x == [name |-> n, created |-> 0, status |-> ""]
           len == Len(s)
<1>1. x \in Entry /\ x.name = n /\ x.created = 0 /\ x.status = ""
  BY DEF Entry, ScheduleStatus
<1>2. Undated(x) /\ Waiting(x)
  BY <1>1 DEF Undated, Waiting
<1>3. a = SortLast(s, x) /\ a \in Seq(Entry)
  BY AddEmptyNames DEF AddEmpty
<1> HIDE DEF a, x
<1>4. /\ DOMAIN s = 1 .. len /\ len \in Nat
      /\ \A k \in DOMAIN s : s[k] \in Entry /\ s[k].name \in Nat /\ s[k].created \in Nat
  BY EntryNumbers
<1>5. \A k \in DOMAIN s : ~Waiting(s[k]) /\ s[k].created < n
  <2>1. CASE s = <<>>
    BY <2>1
  <2>2. CASE ~HasQueued(s) /\ s[1].created < n
    <3>1. SUFFICES ASSUME NEW k \in DOMAIN s PROVE ~Waiting(s[k]) /\ s[k].created < n
      OBVIOUS
    <3>2. \A j \in DOMAIN s : ~Waiting(s[j])
      BY <2>2, OrderedWaiting
    <3>3. CASE k = 1
      BY <2>2, <3>2, <3>3
    <3>4. CASE k # 1
      <4>1. 1 \in DOMAIN s /\ 1 < k
        BY <1>4, <3>4
      <4>2. s[k].created < s[1].name /\ s[1].name <= s[1].created
        BY <3>2, <4>1 DEF Ordered, Follows
      <4> QED BY <1>4, <2>2, <3>2, <4>1, <4>2
    <3> QED BY <3>3, <3>4
  <2> QED BY <2>1, <2>2
<1>6. \A k \in DOMAIN s : s[k].name <= s[k].created /\ ~Undated(s[k])
  BY <1>5 DEF Ordered
<1>7. a = [k \in 1 .. len + 1 |-> IF k <= len THEN s[k] ELSE x]
  BY <1>1, <1>2, <1>3, <1>6, SortedLast
<1>8. /\ DOMAIN a = 1 .. len + 1 /\ Len(a) = len + 1 /\ a[len + 1] = x
      /\ \A k \in DOMAIN s : k \in DOMAIN a /\ a[k] = s[k]
      /\ \A k \in DOMAIN a : k # len + 1 => k \in DOMAIN s
  BY <1>3, <1>4, <1>7
<1>9. Ordered(a)
  <2>1. \A k \in DOMAIN a : Waiting(a[k]) => k = Len(a) /\ Undated(a[k])
    BY <1>2, <1>5, <1>8
  <2>2. \A k \in DOMAIN a : ~Waiting(a[k]) => a[k].name <= a[k].created /\ ~Undated(a[k])
    BY <1>2, <1>6, <1>8
  <2>3. ASSUME NEW j \in DOMAIN a, NEW k \in DOMAIN a, j < k
        PROVE  IF Waiting(a[k]) THEN Follows(a[j], a[k]) ELSE Follows(a[k], a[j])
    <3>1. j \in DOMAIN s
      BY <1>4, <1>8, <2>3
    <3>2. CASE k = len + 1
      BY <1>1, <1>2, <1>5, <1>8, <3>1, <3>2 DEF Follows
    <3>3. CASE k # len + 1
      <4>1. k \in DOMAIN s /\ a[k] = s[k] /\ a[j] = s[j]
        BY <1>8, <3>1, <3>3
      <4>2. ~Waiting(a[k]) /\ Follows(s[k], s[j])
        BY <1>5, <2>3, <3>1, <4>1 DEF Ordered
      <4> QED BY <4>1, <4>2
    <3> QED BY <3>2, <3>3
  <2> QED BY <2>1, <2>2, <2>3 DEF Ordered
<1>10. UpTo(a, n)
  <2>1. x.name = n /\ x.created = 0
    BY <1>1
  <2>2. x.name <= n /\ x.created <= n
    BY <2>1
  <2> QED BY <1>8, <2>2 DEF UpTo
<1>11. HasQueued(a) => Last(a).name = n
  BY <1>1, <1>3, <1>8, <1>9, OrderedWaiting
<1>12. \A k \in DOMAIN a : Waiting(a[k]) \/ (k \in DOMAIN s /\ a[k] = s[k])
  BY <1>2, <1>8
<1>13. \A k \in DOMAIN s : s[k].name < n /\ k \in DOMAIN a /\ a[k] = s[k]
  BY <1>4, <1>5, <1>6, <1>8
<1>14. \A k \in DOMAIN a \ DOMAIN s : Waiting(a[k]) /\ a[k].name = n
  BY <1>1, <1>2, <1>8
<1> QED BY <1>3, <1>9, <1>10, <1>11, <1>12, <1>13, <1>14 DEF a

\* Recording the creation of the schedule whose name waits at the end.
LEMMA UpdateEmptyOrdered ==
  ASSUME NEW s \in Seq(Entry), Ordered(s), HasQueued(s), NEW t \in Nat \ {0}, UpTo(s, t)
  PROVE  LET u == UpdateEmpty(s, t)
         IN  /\ u \in Seq(Entry) /\ Ordered(u) /\ UpTo(u, t) /\ ~HasQueued(u)
             /\ 1 \in DOMAIN u /\ u[1].name = Last(s).name /\ u[1].status = "Active"
             /\ u[1].created = t
             /\ \A k \in DOMAIN u \ {1} : /\ k - 1 \in DOMAIN s /\ k - 1 < Len(s)
                                          /\ u[k] = s[k - 1]
<1> DEFINE u == UpdateEmpty(s, t)
           x == [Last(s) EXCEPT !.created = t, !.status = "Active"]
           f == Front(s)
           n == Len(f)
<1>1. /\ s # <<>> /\ Len(s) \in DOMAIN s /\ Waiting(s[Len(s)]) /\ Last(s) = s[Len(s)]
      /\ DOMAIN s = 1 .. Len(s) /\ Len(s) \in Nat
      /\ \A k \in DOMAIN s : s[k] \in Entry /\ s[k].name \in Nat /\ s[k].created \in Nat
  BY OrderedWaiting, EntryNumbers
<1>2. f \in Seq(Entry) /\ Len(f) = Len(s) - 1 /\ Last(s) \in Entry
  BY <1>1, FrontAndLast
<1>3. x \in Entry /\ x.name = Last(s).name /\ x.created = t /\ x.status = "Active" /\ ~Waiting(x)
  <2>1. x \in Entry /\ x.name = Last(s).name /\ x.created = t /\ x.status = "Active"
    BY <1>2 DEF Entry, ScheduleStatus
  <2>2. "Active" # ""
    OBVIOUS
  <2>3. x.status # ""
    BY <2>1, <2>2
  <2> HIDE DEF x
  <2> QED BY <2>1, <2>3 DEF Waiting
<1>4. u = SortLast(f, x) /\ u \in Seq(Entry)
  BY <1>1, UpdateEmptyNames DEF UpdateEmpty
<1>5. \A k \in 1 .. n : f[k] = s[k]
  BY <1>1, <1>2 DEF Front
<1> HIDE DEF u, x, f
<1>6. n \in Nat /\ DOMAIN f = 1 .. n /\ Len(s) = n + 1
  BY <1>1, <1>2
<1>7. ASSUME NEW k \in DOMAIN f
      PROVE  /\ k \in DOMAIN s /\ ~Waiting(s[k]) /\ ~Undated(s[k]) /\ f[k] = s[k]
             /\ s[k].created < x.name /\ s[k].created < t
  <2>1. k \in DOMAIN s /\ k < Len(s) /\ f[k] = s[k]
    BY <1>1, <1>5, <1>6
  <2>2. ~Waiting(s[k])
    BY <1>1, <2>1 DEF Ordered
  <2>3. ~Undated(s[k])
    BY <2>1, <2>2 DEF Ordered
  <2>4. s[k].created < s[Len(s)].name
    BY <1>1, <2>1 DEF Ordered, Follows
  <2>5. s[Len(s)].name <= t
    BY <1>1 DEF UpTo
  <2> QED BY <1>1, <1>3, <2>1, <2>2, <2>3, <2>4, <2>5
<1>8. ~Undated(x)
  BY <1>3 DEF Undated
<1>9. u = [k \in 1 .. n + 1 |-> IF k = 1 THEN x ELSE f[k - 1]]
  BY <1>2, <1>3, <1>4, <1>7, <1>8, SortedFirst
<1>10. /\ DOMAIN u = 1 .. n + 1 /\ Len(u) = n + 1 /\ 1 \in DOMAIN u /\ u[1] = x
       /\ \A k \in DOMAIN u \ {1} : k - 1 \in DOMAIN f /\ u[k] = f[k - 1]
  BY <1>4, <1>6, <1>9
<1>11. \A k \in DOMAIN u \ {1} : k - 1 \in DOMAIN s /\ k - 1 < Len(s) /\ u[k] = s[k - 1]
  BY <1>6, <1>7, <1>10
<1>12. \A k \in DOMAIN u : ~Waiting(u[k]) /\ ~Undated(u[k])
  BY <1>3, <1>7, <1>8, <1>10
<1>13. x.name <= t
  BY <1>1, <1>3 DEF UpTo
<1>14. Ordered(u)
  <2>1. \A k \in DOMAIN u : u[k].name <= u[k].created
    <3>1. \A k \in DOMAIN f : s[k].name <= s[k].created
      BY <1>7 DEF Ordered
    <3> QED BY <1>3, <1>7, <1>10, <1>13, <3>1
  <2>2. ASSUME NEW j \in DOMAIN u, NEW k \in DOMAIN u, j < k
        PROVE  Follows(u[k], u[j])
    <3>1. k # 1 /\ k - 1 \in DOMAIN f /\ u[k] = s[k - 1]
      BY <1>7, <1>10, <2>2
    <3>2. CASE j = 1
      BY <1>7, <1>10, <3>1, <3>2 DEF Follows
    <3>3. CASE j # 1
      <4>1. j - 1 \in DOMAIN f /\ u[j] = s[j - 1]
        BY <1>7, <1>10, <3>3
      <4>2. j - 1 \in DOMAIN s /\ k - 1 \in DOMAIN s /\ j - 1 < k - 1 /\ ~Waiting(s[k - 1])
        BY <1>7, <1>10, <2>2, <3>1, <4>1
      <4> QED BY <3>1, <4>1, <4>2 DEF Ordered
    <3> QED BY <3>2, <3>3
  <2> QED BY <1>12, <2>1, <2>2 DEF Ordered
<1>15. UpTo(u, t)
  <2>1. \A k \in DOMAIN f : s[k].name <= t /\ s[k].created <= t
    BY <1>7 DEF UpTo
  <2> QED BY <1>3, <1>7, <1>10, <1>13, <2>1 DEF UpTo
<1>16. ~HasQueued(u)
  BY <1>4, <1>12, <1>14, OrderedWaiting
<1> QED BY <1>3, <1>4, <1>10, <1>11, <1>14, <1>15, <1>16 DEF u

\* Marking the second entry of a list on which no name waits.
LEMMA MarkOrdered ==
  ASSUME NEW s \in Seq(Entry), Ordered(s), ~HasQueued(s), HasPrevious(s), NEW t \in Nat, UpTo(s, t)
  PROVE  LET m == MarkPreviousDeleted(s)
         IN  /\ m \in Seq(Entry) /\ Ordered(m) /\ UpTo(m, t) /\ ~HasQueued(m)
             /\ \A k \in DOMAIN m : /\ k \in DOMAIN s
                                    /\ m[k].name = s[k].name /\ m[k].created = s[k].created
             /\ \A k \in DOMAIN m \ {2} : m[k].status = s[k].status
             /\ 2 \in DOMAIN s
<1> DEFINE m == MarkPreviousDeleted(s)
           e == [s[2] EXCEPT !.status = "Deleted"]
<1>1. DOMAIN s = 1 .. Len(s) /\ 2 \in DOMAIN s /\ \A k \in DOMAIN s : s[k] \in Entry
  BY DEF HasPrevious
<1>2. m \in Seq(Entry)
  BY MarkNames
<1>3. m = [k \in DOMAIN s |-> IF k = 2 THEN e ELSE s[k]]
  BY <1>1 DEF MarkPreviousDeleted
<1>4. e.name = s[2].name /\ e.created = s[2].created /\ ~Waiting(e)
  BY <1>1, EntryUpdates
<1>5. ~Waiting(s[2])
  BY <1>1, OrderedWaiting
<1> HIDE DEF m, e
<1>6. /\ DOMAIN m = DOMAIN s
      /\ \A k \in DOMAIN s : m[k].name = s[k].name /\ m[k].created = s[k].created
                               /\ (Waiting(m[k]) <=> Waiting(s[k]))
      /\ \A k \in DOMAIN s \ {2} : m[k].status = s[k].status
  BY <1>3, <1>4, <1>5
<1>7. Ordered(m) /\ UpTo(m, t) /\ ~HasQueued(m)
  BY <1>2, <1>6, StatusesChanged
<1> QED BY <1>1, <1>2, <1>6, <1>7 DEF m

\* Erasing entries that are Deleted.
LEMMA EraseOrdered ==
  ASSUME NEW s \in Seq(Entry), Ordered(s), NEW keep, NEW check, NEW B, NEW t \in Nat, UpTo(s, t)
  PROVE  LET m == Erase(s, keep, check, B)
         IN  /\ m \in Seq(Entry) /\ Ordered(m) /\ UpTo(m, t)
             /\ HasQueued(m) => HasQueued(s) /\ Last(m).name = Last(s).name
             /\ \A k \in DOMAIN m : /\ k \in DOMAIN s
                                    /\ m[k].name = s[k].name /\ m[k].created = s[k].created
             /\ \A k \in DOMAIN m : m[k].status = s[k].status \/ s[k].status = "Deleted"
<1> DEFINE m == Erase(s, keep, check, B)
           e(k) == [s[k] EXCEPT !.status = "Erased"]
<1>1. m \in Seq(Entry)
  BY EraseNames
<1>2. \A k \in Expired(s, keep, check, B) : s[k].status = "Deleted"
  BY DEF Expired
<1>3. DOMAIN m = DOMAIN s /\ \A k \in DOMAIN s : m[k] = s[k] \/ (m[k] = e(k) /\ s[k].status = "Deleted")
  BY <1>2 DEF Erase
<1>4. \A k \in DOMAIN s : e(k).name = s[k].name /\ e(k).created = s[k].created /\ ~Waiting(e(k))
  BY EntryUpdates, EntryNumbers
<1>5. \A k \in DOMAIN s : s[k].status = "Deleted" => ~Waiting(s[k])
  BY DEF Waiting
<1> HIDE DEF m, e
<1>6. \A k \in DOMAIN s : /\ m[k].name = s[k].name /\ m[k].created = s[k].created
                          /\ Waiting(m[k]) <=> Waiting(s[k])
  BY <1>3, <1>4, <1>5
<1>7. /\ Ordered(m) /\ UpTo(m, t)
      /\ HasQueued(m) => HasQueued(s) /\ Last(m).name = Last(s).name
  BY <1>1, <1>3, <1>6, StatusesChanged
<1>8. \A k \in DOMAIN m : m[k].status = s[k].status \/ s[k].status = "Deleted"
  BY <1>3
<1> QED BY <1>1, <1>3, <1>6, <1>7, <1>8 DEF m

-----------------------------------------------------------------------------
(* The invariant: the lists in order, and what is live of them.            *)

\* v is the set of live schedules, t the time.
Gone(s, v) == \A k \in DOMAIN s : s[k].status \in {"Deleted", "Erased"} => s[k].name \notin v
InOrder(s, t, v) == Ordered(s) /\ UpTo(s, t) /\ Gone(s, v)
Unmade(s, v) == HasQueued(s) => Last(s).name \notin v

StoredList == Stored => InOrder(obj.schedules, now, velero)

CopiedList ==
  op.pc # "idle" => InOrder(op.dbkp.schedules, now, velero) /\ Unmade(op.dbkp.schedules, velero)

\* A name that waits on the stored list has been created only if a copy that
\* says so is about to be stored.
Recorded ==
  Stored /\ (op.pc = "idle" \/ op.dbkp.schedules = op.orig.schedules)
    => Unmade(obj.schedules, velero)

\* The old schedule is deleted when the new one, first on the list, is live.
HandsOver ==
  op.pc = "deleteOld"
    => ~HasQueued(op.dbkp.schedules) /\ op.dbkp.schedules[1].name \in velero

RotInv == StoredList /\ CopiedList /\ Recorded /\ HandsOver /\ now # 0

\* What the lists are known to be besides.
KnownInv == TypeInv /\ TrackInv /\ SliceInv

LEMMA InitRot == Init => RotInv
<1> SUFFICES ASSUME Init PROVE RotInv
  OBVIOUS
<1>1. ~Stored /\ op.pc = "idle"
  BY DEF Init, Stored, IdleOp
<1>2. now # 0
  BY ConstantsAssumption DEF Init
<1> QED BY <1>1, <1>2 DEF RotInv, StoredList, CopiedList, Recorded, HandsOver

\* Later, and with fewer live schedules, a list is still in order.
LEMMA OrderKept ==
  ASSUME NEW s \in Seq(Entry), NEW t \in Nat, NEW v, InOrder(s, t, v),
         NEW u \in Nat, t <= u, NEW w \in SUBSET v
  PROVE  InOrder(s, u, w)
<1>1. UpTo(s, u)
  BY EntryNumbers DEF InOrder, UpTo
<1>2. Gone(s, w)
  BY DEF InOrder, Gone
<1> QED BY <1>1, <1>2 DEF InOrder

\* Steps without a reconciliation, or besides it.
LEMMA QuietRot ==
  ASSUME TypeInv, RotInv, op' = op, velero' = velero, now' \in Nat, now <= now',
         Stored' => \/ obj'.schedules = <<>>
                    \/ Stored /\ obj'.schedules = obj.schedules
  PROVE  RotInv'
<1>1. /\ now \in Nat /\ now' # 0
      /\ Stored => obj.schedules \in Seq(Entry)
      /\ op.pc # "idle" => op.dbkp.schedules \in Seq(Entry)
  BY KnownLists DEF RotInv
<1>2. InOrder(<<>>, now', velero) /\ Unmade(<<>>, velero)
  BY DEF InOrder, Ordered, UpTo, Gone, Unmade, HasQueued
<1>3. Stored => InOrder(obj.schedules, now', velero)
  BY <1>1, OrderKept DEF RotInv, StoredList
<1>4. StoredList'
  BY <1>2, <1>3 DEF StoredList
<1>5. CopiedList'
  BY <1>1, OrderKept DEF RotInv, CopiedList
<1>6. Recorded'
  BY <1>2 DEF RotInv, Recorded
<1>7. HandsOver'
  BY DEF RotInv, HandsOver
<1> QED BY <1>1, <1>4, <1>5, <1>6, <1>7 DEF RotInv

LEMMA UserRot == TypeInv /\ RotInv /\ User => RotInv'
<1> SUFFICES ASSUME TypeInv, RotInv, User PROVE RotInv'
  OBVIOUS
<1>1. op' = op /\ velero' = velero /\ now' = now /\ now \in Nat /\ now <= now
  BY KnownLists DEF User, UserCreate, UserEdit, UserDelete, OtherFinalizerRemoved, server
<1> QED BY <1>1, UserLists, QuietRot

\* The start of a reconciliation, whatever it will do.
LEMMA BeginRot ==
  ASSUME RotInv, Stored, NEW pc, NEW o, NEW requeue, Begin(pc, o, requeue), pc # "deleteOld",
         InOrder(o.schedules, now, velero), Unmade(o.schedules, velero)
  PROVE  RotInv'
<1>1. /\ obj' = obj /\ velero' = velero /\ now' = now /\ op.pc = "idle"
      /\ op'.pc = pc /\ op'.dbkp = o
  BY DEF Begin, server
<1>2. StoredList' /\ Recorded'
  BY <1>1 DEF RotInv, StoredList, Recorded, Stored
<1>3. CopiedList' /\ HandsOver'
  BY <1>1 DEF CopiedList, HandsOver
<1> QED BY <1>1, <1>2, <1>3 DEF RotInv

\* The next full backup is due after the schedule before it was created.
LEMMA NextSyncLater == \A t \in Nat : NextSync(t) \in Nat /\ t < NextSync(t)
<1> SUFFICES ASSUME NEW t \in Nat PROVE NextSync(t) \in Nat /\ t < NextSync(t)
  OBVIOUS
<1> DEFINE q == t \div Period
<1>1. Period \in Nat /\ Period > 0
  BY ConstantsAssumption
<1>2. q \in Nat /\ t = Period * q + (t % Period) /\ t % Period \in Nat /\ t % Period < Period
  BY <1>1
<1>3. (q + 1) * Period = Period * q + Period /\ Period * q \in Nat
  BY <1>1, <1>2
<1> HIDE DEF q
<1>4. (q + 1) * Period \in Nat /\ t < (q + 1) * Period
  BY <1>1, <1>2, <1>3
<1> QED BY <1>4 DEF NextSync, q

\* What is due was created before now.
LEMMA DueLater ==
  ASSUME NEW o, o.schedules \in Seq(Entry), o.schedules # <<>>, now \in Nat, Due(o)
  PROVE  o.schedules[1].created < now
<1> DEFINE s == o.schedules
<1>1. 1 \in DOMAIN s
  OBVIOUS
<1>2. s[1].created \in Nat
  BY <1>1, EntryNumbers
<1>3. now > NextSync(s[1].created)
  BY DEF Due
<1>4. NextSync(s[1].created) \in Nat /\ s[1].created < NextSync(s[1].created)
  BY <1>2, NextSyncLater
<1> QED BY <1>2, <1>3, <1>4

\* Reserving: the list is empty, or its newest schedule is a period old.
LEMMA ReserveRot ==
  ASSUME KnownInv, RotInv, ReconcileReserve
  PROVE  RotInv'
<1> DEFINE s == obj.schedules
           a == AddEmpty(Started(obj).schedules, now)
           o == [Started(obj) EXCEPT !.schedules = a]
<1>1. /\ Stored /\ op.pc = "idle" /\ Begin("cleanup", o, TRUE)
      /\ s = <<>> \/ (~HasQueued(s) /\ Due(obj))
  BY DEF ReconcileReserve, Executes, Begin
<1>2. obj \in Object /\ s \in Seq(Entry) /\ now \in Nat /\ InOrder(s, now, velero)
  BY <1>1, KnownLists DEF KnownInv, RotInv, StoredList
<1>3. Started(obj) \in Object /\ Started(obj).schedules = s
  BY <1>2, StartedObject
<1>4. a = AddEmpty(s, now)
  BY <1>3
<1>5. s # <<>> => ~HasQueued(s) /\ s[1].created < now
  BY <1>1, <1>2, DueLater
<1> HIDE DEF a
<1>6. /\ a \in Seq(Entry) /\ Ordered(a) /\ UpTo(a, now)
      /\ HasQueued(a) => Last(a).name = now
      /\ \A k \in DOMAIN a : Waiting(a[k]) \/ (k \in DOMAIN s /\ a[k] = s[k])
      /\ \A k \in DOMAIN s : s[k].name < now
  BY <1>2, <1>4, <1>5, AddEmptyOrdered DEF InOrder
<1>7. o.schedules = a
  <2>1. a \in Seq(Entry)
    BY <1>6
  <2> QED BY ONLY <1>3, <2>1, ObjectUpdates
<1>8. Gone(a, velero)
  <2>1. \A k \in DOMAIN a : Waiting(a[k]) => a[k].status \notin {"Deleted", "Erased"}
    BY DEF Waiting
  <2> QED BY <1>2, <1>6, <2>1 DEF InOrder, Gone
<1>9. Unmade(a, velero)
  <2>1. velero \subseteq Names(s)
    BY <1>1 DEF KnownInv, TrackInv, NoUntrackedSchedule
  <2>2. \A n \in Names(s) : n \in Nat /\ n < now
    BY <1>2, <1>6, EntryNumbers DEF Names
  <2>3. now \notin velero
    BY <1>2, <2>1, <2>2
  <2> QED BY <1>6, <2>3 DEF Unmade
<1> HIDE DEF o
<1> QED BY <1>1, <1>6, <1>7, <1>8, <1>9, BeginRot DEF InOrder

LEMMA ReconcileRot ==
  ASSUME KnownInv, RotInv, Reconcile
  PROVE  RotInv'
<1> DEFINE r == [Started(obj) EXCEPT !.reason = TRUE]
<1>1. Stored /\ op.pc = "idle"
  BY DEF Reconcile, ReconcileQueued, ReconcileInvalidCron, ReconcileNotDue, ReconcileReserve,
         ReconcileOnce, ReconcileMade, ReconcileDeleting, Executes, Begin
<1>2. /\ obj \in Object
      /\ InOrder(obj.schedules, now, velero) /\ Unmade(obj.schedules, velero)
  BY <1>1, KnownLists DEF KnownInv, RotInv, StoredList, Recorded
<1>3. Started(obj) \in Object /\ Started(obj).schedules = obj.schedules
  BY <1>2, StartedObject
<1>4. r.schedules = obj.schedules
  BY <1>3, ObjectUpdates
<1>5. CASE ReconcileQueued
  BY <1>1, <1>2, <1>3, <1>5, BeginRot DEF ReconcileQueued
<1>6. CASE ReconcileInvalidCron
  <2>1. Begin("patch", r, FALSE)
    BY <1>6 DEF ReconcileInvalidCron
  <2> HIDE DEF r
  <2> QED BY <1>1, <1>2, <1>4, <2>1, BeginRot
<1>7. CASE ReconcileNotDue
  BY <1>1, <1>2, <1>3, <1>7, BeginRot DEF ReconcileNotDue
<1>8. CASE ReconcileOnce
  BY <1>1, <1>2, <1>3, <1>8, BeginRot DEF ReconcileOnce
<1>9. CASE ReconcileMade
  BY <1>1, <1>2, <1>3, <1>9, BeginRot DEF ReconcileMade
<1>10. CASE ReconcileDeleting
  <2>1. PICK pc \in {"finalize", "patch"} : Begin(pc, Started(obj), FALSE)
    BY <1>10 DEF ReconcileDeleting
  <2> QED BY <1>1, <1>2, <1>3, <2>1, BeginRot
<1> QED
  BY <1>5, <1>6, <1>7, <1>8, <1>9, <1>10, ReserveRot DEF Reconcile

\* A call after which there are no more live schedules than before.
LEMMA BusyRot ==
  ASSUME KnownInv, RotInv, Busy, UNCHANGED <<obj, now>>, velero' \subseteq velero,
         op'.orig = op.orig, op'.pc \in {"cleanup", "patch"},
         InOrder(op'.dbkp.schedules, now, velero'), Unmade(op'.dbkp.schedules, velero')
  PROVE  RotInv'
<1>1. Stored /\ obj.schedules = op.orig.schedules
  BY DEF KnownInv, TrackInv, ListHeld
<1>2. obj.schedules \in Seq(Entry) /\ now \in Nat /\ now <= now
  BY <1>1, KnownLists DEF KnownInv
<1>3. InOrder(obj.schedules, now, velero')
  BY <1>1, <1>2, OrderKept DEF RotInv, StoredList
<1>4. StoredList' /\ CopiedList'
  BY <1>3 DEF StoredList, CopiedList, Stored
<1>5. Recorded' /\ HandsOver'
  BY <1>1 DEF Recorded, HandsOver
<1> QED BY <1>4, <1>5 DEF RotInv

\* What is known of the copy during a call.
LEMMA BusyCopy ==
  ASSUME KnownInv, RotInv, Busy
  PROVE  /\ op.pc # "idle" /\ OpOK /\ op.dbkp \in Object /\ op.dbkp.schedules \in Seq(Entry)
         /\ InOrder(op.dbkp.schedules, now, velero) /\ Unmade(op.dbkp.schedules, velero)
         /\ now \in Nat \ {0} /\ now <= now
<1>1. op.pc # "idle"
  BY DEF Busy
<1>2. OpOK /\ now # 0 /\ now \in Nat
  BY KnownLists DEF KnownInv, TypeInv, RotInv
<1> QED BY <1>1, <1>2, KnownLists DEF KnownInv, RotInv, CopiedList

\* A call that leaves the list alone.
LEMMA SameListRot ==
  ASSUME KnownInv, RotInv, Busy, UNCHANGED <<obj, now>>, velero' \subseteq velero,
         op'.orig = op.orig, op'.pc \in {"cleanup", "patch"},
         op'.dbkp.schedules = op.dbkp.schedules
  PROVE  RotInv'
<1>1. InOrder(op.dbkp.schedules, now, velero')
  BY BusyCopy, OrderKept
<1>2. Unmade(op.dbkp.schedules, velero')
  BY BusyCopy DEF Unmade
<1> QED BY <1>1, <1>2, BusyRot

\* The name that is created is not live, and differs from all the others.
LEMMA CreateRot ==
  ASSUME KnownInv, RotInv, CreateSchedule
  PROVE  RotInv'
<1> DEFINE s == op.dbkp.schedules
           u == UpdateEmpty(s, now)
           o == [op.dbkp EXCEPT !.schedules = u]
           pc == IF Periodic(op.dbkp) /\ HasPrevious(u) THEN "deleteOld" ELSE "cleanup"
           q == Last(s).name
<1>1. /\ op.pc = "create" /\ Busy /\ velero' = velero \union {q} /\ Created(now)
      /\ UNCHANGED <<obj, now>>
  BY DEF CreateSchedule, QueuedName, Busy
<1>2. /\ OpOK /\ op.dbkp \in Object /\ s \in Seq(Entry) /\ InOrder(s, now, velero)
      /\ now \in Nat \ {0} /\ op.pc # "idle"
  BY <1>1, BusyCopy
<1>3. /\ Stored /\ obj.schedules = s /\ op.orig.schedules = s
  BY <1>1 DEF KnownInv, TrackInv, ListHeld, CreatesWhatIsStored
<1>4. HasQueued(s)
  BY <1>1 DEF KnownInv, SliceInv
<1>5. /\ u \in Seq(Entry) /\ Ordered(u) /\ UpTo(u, now) /\ ~HasQueued(u)
      /\ 1 \in DOMAIN u /\ u[1].name = q /\ u[1].status = "Active"
      /\ \A k \in DOMAIN u \ {1} : k - 1 \in DOMAIN s /\ k - 1 < Len(s) /\ u[k] = s[k - 1]
  BY <1>2, <1>4, UpdateEmptyOrdered DEF InOrder
<1>6. Continue(pc, o)
  BY <1>1 DEF Created
<1>7. pc \in {"deleteOld", "cleanup"} /\ (pc = "deleteOld" => HasPrevious(u))
  OBVIOUS
<1> HIDE DEF u, pc
<1>8. o \in Object /\ o.schedules = u
  BY <1>2, <1>5, ObjectUpdates
<1> HIDE DEF o
<1>9. op'.orig = op.orig /\ op'.dbkp = o /\ op'.pc = pc
  BY <1>2, <1>6, <1>7, <1>8, ContinueOpOK
<1>10. Last(s) = s[Len(s)] /\ Len(s) \in DOMAIN s /\ Waiting(s[Len(s)])
  BY <1>2, <1>4, OrderedWaiting DEF InOrder
<1>11. \A k \in DOMAIN s : k < Len(s) => s[k].name # q
  BY <1>2, <1>10, OrderedDistinct DEF InOrder
<1>12. Gone(s, velero')
  <2>1. s[Len(s)].status \notin {"Deleted", "Erased"}
    BY <1>10 DEF Waiting
  <2>2. \A k \in DOMAIN s : k = Len(s) \/ k < Len(s)
    BY <1>2
  <2>3. Gone(s, velero)
    BY <1>2 DEF InOrder
  <2> HIDE DEF s, q
  <2> QED BY <1>1, <1>11, <2>1, <2>2, <2>3 DEF Gone
<1>13. Gone(u, velero')
  <2>1. u[1].status \notin {"Deleted", "Erased"}
    BY <1>5
  <2>2. ASSUME NEW k \in DOMAIN u \ {1}, u[k].status \in {"Deleted", "Erased"}
        PROVE  u[k].name \notin velero'
    <3>1. k - 1 \in DOMAIN s /\ u[k] = s[k - 1]
      BY <1>5
    <3> QED BY <1>12, <2>2, <3>1 DEF Gone
  <2> QED BY <2>1, <2>2 DEF Gone
<1>14. StoredList'
  BY <1>1, <1>2, <1>3, <1>12 DEF StoredList, InOrder, Stored
<1>15. CopiedList'
  BY <1>1, <1>5, <1>8, <1>9, <1>13 DEF CopiedList, InOrder, Unmade
<1>16. Recorded'
  <2>1. op'.pc # "idle" /\ op'.dbkp.schedules # op'.orig.schedules
    BY <1>3, <1>4, <1>5, <1>7, <1>8, <1>9
  <2> QED BY <2>1 DEF Recorded
<1>17. HandsOver'
  BY <1>1, <1>5, <1>8, <1>9 DEF HandsOver
<1> QED BY <1>1, <1>2, <1>14, <1>15, <1>16, <1>17 DEF RotInv

\* The old schedule goes, and its entry says so.
LEMMA DeleteOldRot ==
  ASSUME KnownInv, RotInv, DeleteOld
  PROVE  RotInv'
<1> DEFINE s == op.dbkp.schedules
           m == MarkPreviousDeleted(s)
           o == [op.dbkp EXCEPT !.schedules = m]
<1>1. /\ op.pc = "deleteOld" /\ Busy /\ velero' = velero \ {s[2].name}
      /\ Continue("cleanup", o) /\ UNCHANGED <<obj, now>>
  BY DEF DeleteOld, OldName, Previous, Busy
<1>2. /\ OpOK /\ op.dbkp \in Object /\ s \in Seq(Entry) /\ InOrder(s, now, velero)
      /\ now \in Nat /\ op.pc # "idle"
  BY <1>1, BusyCopy
<1>3. ~HasQueued(s) /\ HasPrevious(s)
  BY <1>1, <1>2 DEF RotInv, HandsOver, OpOK
<1>4. /\ m \in Seq(Entry) /\ Ordered(m) /\ UpTo(m, now) /\ ~HasQueued(m)
      /\ \A k \in DOMAIN m : k \in DOMAIN s /\ m[k].name = s[k].name
      /\ \A k \in DOMAIN m \ {2} : m[k].status = s[k].status
  BY <1>2, <1>3, MarkOrdered DEF InOrder
<1> HIDE DEF m
<1>5. o \in Object /\ o.schedules = m
  BY <1>2, <1>4, ObjectUpdates
<1> HIDE DEF o
<1>6. op'.orig = op.orig /\ op'.dbkp = o /\ op'.pc = "cleanup"
  BY <1>1, <1>2, <1>5, ContinueOpOK
<1>7. Gone(m, velero')
  BY <1>1, <1>2, <1>4 DEF InOrder, Gone
<1>8. InOrder(m, now, velero') /\ Unmade(m, velero')
  BY <1>4, <1>7 DEF InOrder, Unmade
<1> QED BY <1>1, <1>5, <1>6, <1>8, BusyRot

\* The end of a clean-up: only entries that are Deleted are erased.
LEMMA CleanedRot ==
  ASSUME KnownInv, RotInv, op.pc = "cleanup", UNCHANGED <<obj, velero, now>>,
         Continue("patch", CleanedUp(op.dbkp))
  PROVE  RotInv'
<1> DEFINE o == op.dbkp
           s == o.schedules
           m == Erase(s, o.spec.keep, o.spec.check, cache)
           e == [o EXCEPT !.schedules = m]
<1>1. Busy /\ cache \in SUBSET Backup
  BY DEF Busy, KnownInv, TypeInv, RestOK
<1>2. /\ OpOK /\ o \in Object /\ s \in Seq(Entry) /\ InOrder(s, now, velero)
      /\ Unmade(s, velero) /\ now \in Nat /\ op.pc # "idle"
  BY <1>1, BusyCopy
<1>3. /\ m \in Seq(Entry) /\ Ordered(m) /\ UpTo(m, now)
      /\ HasQueued(m) => HasQueued(s) /\ Last(m).name = Last(s).name
      /\ \A k \in DOMAIN m : k \in DOMAIN s /\ m[k].name = s[k].name
      /\ \A k \in DOMAIN m : m[k].status = s[k].status \/ s[k].status = "Deleted"
  BY <1>2, EraseOrdered DEF InOrder
<1>4. CleanedUp(o) \in {o, e} /\ CleanedUp(o) \in Object
  BY <1>1, <1>2, CleanupEffect DEF CleanedUp
<1> HIDE DEF m
<1>5. e.schedules = m
  BY <1>2, <1>3, ObjectUpdates
<1>6. Gone(m, velero) /\ Unmade(m, velero)
  BY <1>2, <1>3 DEF InOrder, Gone, Unmade
<1> HIDE DEF e
<1>7. InOrder(CleanedUp(o).schedules, now, velero) /\ Unmade(CleanedUp(o).schedules, velero)
  BY <1>2, <1>3, <1>4, <1>5, <1>6 DEF InOrder
<1>8. op'.orig = op.orig /\ op'.dbkp = CleanedUp(o) /\ op'.pc = "patch"
  BY <1>2, <1>4, ContinueOpOK
<1> QED BY <1>1, <1>7, <1>8, BusyRot

\* The merge stores the copy's list, or the list that is stored already.
LEMMA PatchRot ==
  ASSUME KnownInv, RotInv, Patch
  PROVE  RotInv'
<1>1. /\ op.pc = "patch" /\ Stored /\ obj \in Object
      /\ op.orig \in Object /\ op.dbkp \in Object
  BY KnownLists DEF Patch, Accepted, KnownInv
<1> DEFINE d == Patched(obj)
<1>2. d.schedules = Merged(obj.schedules, op.orig.schedules, op.dbkp.schedules)
  BY <1>1, PatchedObject
<1>3. obj' = Settle(d) /\ op' = IdleOp /\ velero' = velero /\ now' = now
  BY DEF Patch, server
<1> HIDE DEF d
<1>4. InOrder(d.schedules, now, velero) /\ Unmade(d.schedules, velero)
  <2>1. CASE op.dbkp.schedules = op.orig.schedules
    BY <1>1, <1>2, <2>1 DEF Merged, RotInv, StoredList, Recorded
  <2>2. CASE op.dbkp.schedules # op.orig.schedules
    BY <1>1, <1>2, <2>2 DEF Merged, RotInv, CopiedList
  <2> QED BY <2>1, <2>2
<1>5. Stored' => obj' = d
  BY <1>3 DEF Settle, Stored
<1>6. op'.pc = "idle"
  BY <1>3 DEF IdleOp
<1>7. StoredList' /\ Recorded'
  BY <1>3, <1>4, <1>5 DEF StoredList, Recorded
<1>8. CopiedList' /\ HandsOver'
  BY <1>6 DEF CopiedList, HandsOver
<1> QED BY <1>3, <1>7, <1>8 DEF RotInv

\* The API server rejects a patch only after everything live was deleted, or
\* when there is nothing in it about the list.
LEMMA RejectedLoses ==
  ASSUME KnownInv, PatchRejected, Stored
  PROVE  op.dbkp.schedules = op.orig.schedules \/ velero = {}
<1>1. op.pc = "patch" /\ ~Accepted /\ op.orig \in Object /\ op.dbkp \in Object /\ obj \in Object
  BY KnownLists DEF PatchRejected, KnownInv
<1>2. CASE op.dbkp.finalizers # op.orig.finalizers
  BY <1>1, <1>2 DEF KnownInv, TrackInv, FinalizerHeld
<1>3. CASE op.dbkp.finalizers = op.orig.finalizers
  <2>1. Patched(obj).finalizers = obj.finalizers
    BY <1>1, <1>3, PatchedObject DEF Merged
  <2>2. Accepted
    BY <2>1 DEF Accepted
  <2> QED BY <1>1, <2>2
<1> QED BY <1>2, <1>3

LEMMA RejectedRot ==
  ASSUME KnownInv, RotInv, PatchRejected
  PROVE  RotInv'
<1>1. /\ op.pc = "patch" /\ op' = IdleOp /\ UNCHANGED <<obj, velero, now>>
      /\ op.orig \in Object /\ op.dbkp \in Object
  BY KnownLists DEF PatchRejected, DropPatch, server, KnownInv
<1>2. Stored => Unmade(obj.schedules, velero)
  BY RejectedLoses DEF RotInv, Recorded, Unmade
<1>3. op'.pc = "idle"
  BY <1>1 DEF IdleOp
<1>4. StoredList' /\ Recorded'
  BY <1>1, <1>2 DEF StoredList, Recorded, Stored, RotInv
<1>5. CopiedList' /\ HandsOver'
  BY <1>3 DEF CopiedList, HandsOver
<1> QED BY <1>1, <1>4, <1>5 DEF RotInv

\* The faults that are left.
LEMMA FaultsLeft ==
  ASSUME NoResultLost
  PROVE  ~Fault("crash") /\ ~Fault("createLost") /\ ~Fault("patchFails")
  BY DEF NoResultLost, Fault

\* A schedule that is to be created is not there yet.
LEMMA NotThereYet ==
  ASSUME KnownInv, RotInv, op.pc = "create"
  PROVE  QueuedName \notin velero
<1>1. Busy /\ HasQueued(op.dbkp.schedules)
  BY DEF Busy, KnownInv, SliceInv
<1> QED BY <1>1, BusyCopy DEF Unmade, QueuedName

LEMMA CallRot ==
  ASSUME KnownInv, RotInv, Call, NoResultLost
  PROVE  RotInv'
<1>1. CASE CreateScheduleExists
  BY <1>1, NotThereYet DEF CreateScheduleExists
<1>2. CASE CreateScheduleFails \/ DeleteOldFails \/ CreateBackupFails \/ FinalizeFails
  <2>1. Busy /\ GiveUp /\ UNCHANGED <<obj, now>>
    BY <1>2 DEF CreateScheduleFails, DeleteOldFails, CreateBackupFails, FinalizeFails, Busy
  <2>2. velero' \subseteq velero
    BY <1>2, FaultsLeft
       DEF CreateScheduleFails, DeleteOldFails, CreateBackupFails, FinalizeFails
  <2>3. OpOK /\ op.pc # "idle"
    BY <2>1, BusyCopy
  <2> QED BY <2>1, <2>2, <2>3, GiveUpOpOK, SameListRot
<1>3. CASE CreateBackup
  <2>1. Busy /\ OpOK /\ op.pc = "createBackup" /\ UNCHANGED <<obj, now>> /\ velero' = velero
    BY <1>3 DEF CreateBackup, Busy, KnownInv, TypeInv
  <2> QED BY <1>3, <2>1, BackedUpOpOK, SameListRot
<1>4. CASE Cleanup \/ CleanupSomeFail
  BY <1>4, CleanedRot DEF Cleanup, CleanupSomeFail
<1>5. CASE Finalize
  <2>1. Busy /\ OpOK /\ op.pc = "finalize" /\ UNCHANGED <<obj, now>> /\ velero' \subseteq velero
    BY <1>5 DEF Finalize, Busy, KnownInv, TypeInv
  <2> QED BY <1>5, <2>1, FinalizedOpOK, SameListRot
<1>6. CASE PatchFails
  BY <1>6, FaultsLeft DEF PatchFails
<1> QED
  BY <1>1, <1>2, <1>3, <1>4, <1>5, <1>6, CreateRot, DeleteOldRot, PatchRot, RejectedRot DEF Call

LEMMA NextRot ==
  ASSUME KnownInv, RotInv, [Next]_vars, NoResultLost
  PROVE  RotInv'
<1>1. now \in Nat /\ now + 1 \in Nat /\ now <= now /\ now <= now + 1
  BY KnownLists DEF KnownInv
<1>2. CASE User
  BY <1>2, UserRot DEF KnownInv
<1>3. CASE Reconcile \/ Call
  BY <1>3, ReconcileRot, CallRot
<1>4. CASE Crash
  BY <1>4, FaultsLeft DEF Crash
<1>5. CASE Sync \/ Skip \/ SyncCache \/ Velero \/ UNCHANGED vars
  <2>1. UNCHANGED <<obj, op, velero, now>>
    BY <1>5 DEF Sync, Skip, SyncCache, Velero, RunSchedule, FinishBackup, StartDeletion,
                EndDeletion, RejectRequest, vars, server
  <2> QED BY <1>1, <2>1, QuietRot DEF KnownInv, Stored
<1>6. CASE Tick
  <2>1. UNCHANGED <<obj, op, velero>> /\ now' = now + 1
    BY <1>6 DEF Tick, server
  <2> QED BY <1>1, <2>1, QuietRot DEF KnownInv, Stored
<1> QED BY <1>2, <1>3, <1>4, <1>5, <1>6 DEF Next

\* Only two calls, and the deletion of the object, end a live schedule; of
\* the first two, the newer schedule that takes over stays.
LEMMA Retires ==
  ASSUME KnownInv, RotInv, [Next]_vars, NoResultLost, op.pc # "finalize",
         NEW n \in velero, n \notin velero'
  PROVE  op.pc = "deleteOld" /\ \E m \in velero' : m > n
<1>1. CASE DeleteOld \/ DeleteOldFails
  <2> DEFINE s == op.dbkp.schedules
  <2>1. op.pc = "deleteOld" /\ Busy /\ velero \ {s[2].name} \subseteq velero'
    BY <1>1 DEF DeleteOld, DeleteOldFails, OldName, Previous, Busy
  <2>2. n = s[2].name
    BY <2>1
  <2>3. OpOK /\ s \in Seq(Entry) /\ InOrder(s, now, velero)
    BY <2>1, BusyCopy
  <2>4. ~HasQueued(s) /\ s[1].name \in velero /\ HasPrevious(s)
    BY <2>1, <2>3 DEF RotInv, HandsOver, OpOK
  <2>5. 1 \in DOMAIN s /\ 2 \in DOMAIN s /\ 1 < 2
    BY <2>3, <2>4 DEF HasPrevious
  <2>6. ~Waiting(s[2])
    BY <2>3, <2>4, <2>5, OrderedWaiting DEF InOrder
  <2>7. s[2].name < s[1].name /\ s[1].name # s[2].name
    BY <2>3, <2>5, <2>6, OrderedDistinct DEF InOrder
  <2>8. s[1].name \in velero' /\ s[1].name > n
    BY <2>1, <2>2, <2>4, <2>7
  <2> QED BY <2>1, <2>8
<1>2. CASE Finalize \/ FinalizeFails
  BY <1>2 DEF Finalize, FinalizeFails
<1>3. CASE \/ CreateSchedule \/ CreateScheduleExists \/ CreateScheduleFails
           \/ CreateBackup \/ CreateBackupFails \/ Cleanup \/ CleanupSomeFail
           \/ Patch \/ PatchRejected \/ PatchFails
  <2>1. velero \subseteq velero'
    BY <1>3 DEF CreateSchedule, CreateScheduleExists, CreateScheduleFails, CreateBackup,
                CreateBackupFails, Cleanup, CleanupSomeFail, Patch, PatchRejected, PatchFails,
                DropPatch, server
  <2> QED BY <2>1
<1>4. CASE User \/ Reconcile \/ Crash \/ Sync \/ Skip \/ SyncCache \/ Tick \/ Velero
             \/ UNCHANGED vars
  <2>1. velero' = velero
    <3>1. User => velero' = velero
      BY DEF User, UserCreate, UserEdit, UserDelete, OtherFinalizerRemoved, server
    <3>2. Reconcile => velero' = velero
      BY DEF Reconcile, ReconcileQueued, ReconcileInvalidCron, ReconcileNotDue, ReconcileReserve,
             ReconcileOnce, ReconcileMade, ReconcileDeleting, Begin, server
    <3> QED
      BY <1>4, <3>1, <3>2
         DEF Crash, Sync, Skip, SyncCache, Tick, Velero, RunSchedule, FinishBackup,
             StartDeletion, EndDeletion, RejectRequest, vars, server
  <2> QED BY <2>1
<1> QED BY <1>1, <1>2, <1>3, <1>4 DEF Next, Call

-----------------------------------------------------------------------------
(* The properties.                                                         *)

LEMMA AlwaysKnown ==
  ASSUME OperatorFinalizer
  PROVE  Spec => []KnownInv
<1>1. TypeInv /\ TrackInv /\ [Next]_vars => TrackInv'
  BY NextTrack DEF OperatorFinalizer
<1>2. TypeInv /\ SliceInv /\ [Next]_vars => SliceInv'
  BY NextSlice
<1> QED
  BY InitTrack, InitSlice, <1>1, <1>2, AlwaysTypeInv, PTL DEF Spec, KnownInv

LEMMA AlwaysRot ==
  ASSUME OperatorFinalizer, NoResultLost
  PROVE  Spec => []RotInv
<1>1. KnownInv /\ RotInv /\ [Next]_vars => RotInv'
  BY NextRot
<1>2. Spec => []KnownInv
  BY AlwaysKnown
<1> QED BY InitRot, <1>1, <1>2, PTL DEF Spec

\* No two entries of the list ever ask for the same schedule: each name is
\* reserved after the schedule before it was created, however slow the calls
\* are and whichever of them fail, if only no result is lost.
THEOREM NamesStayDistinct ==
  ASSUME OperatorFinalizer, NoResultLost
  PROVE  Spec => []NamesDistinct
<1>1. KnownInv /\ RotInv => NamesDistinct
  <2> SUFFICES ASSUME KnownInv, RotInv, Stored,
                      NEW j \in DOMAIN obj.schedules, NEW k \in DOMAIN obj.schedules,
                      obj.schedules[j].name = obj.schedules[k].name
               PROVE  j = k
    BY DEF NamesDistinct
  <2>1. obj.schedules \in Seq(Entry) /\ Ordered(obj.schedules)
    BY KnownLists DEF KnownInv, RotInv, StoredList, InOrder
  <2>2. ~(j < k) /\ ~(k < j)
    BY <2>1, OrderedDistinct
  <2>3. j \in Nat /\ k \in Nat
    BY <2>1
  <2> QED BY <2>2, <2>3
<1>2. Spec => []KnownInv /\ []RotInv
  BY AlwaysKnown, AlwaysRot
<1> QED BY <1>1, <1>2, PTL

\* A schedule whose entry says Deleted or Erased does not run, and is not
\* created again under that name.
THEOREM DeletedStaysGone ==
  ASSUME OperatorFinalizer, NoResultLost
  PROVE  Spec => []DeletedMeansGone
<1>1. RotInv => DeletedMeansGone
  BY DEF RotInv, StoredList, InOrder, Gone, DeletedMeansGone
<1>2. Spec => []RotInv
  BY AlwaysRot
<1> QED BY <1>1, <1>2, PTL

\* The schedule a hand-over deletes is older than one that goes on running.
THEOREM OldRetired ==
  ASSUME OperatorFinalizer, NoResultLost
  PROVE  Spec => OldScheduleRetired
<1>1. KnownInv /\ RotInv /\ [Next]_vars
        => [\A n \in velero \ velero' :
              op.pc = "deleteOld" => \E m \in velero' : m > n]_vars
  BY Retires
<1>2. Spec => []KnownInv /\ []RotInv
  BY AlwaysKnown, AlwaysRot
<1> QED BY <1>1, <1>2, PTL DEF Spec, OldScheduleRetired

\* The last live schedule ends only with the object: replacing a schedule
\* leaves no time without one.
THEOREM AlwaysCovered ==
  ASSUME OperatorFinalizer, NoResultLost
  PROVE  Spec => NeverUncovered
<1>1. KnownInv /\ RotInv /\ [Next]_vars
        => [velero # {} /\ velero' = {} => op.pc = "finalize"]_vars
  <2> SUFFICES ASSUME KnownInv, RotInv, [Next]_vars, velero # {}, velero' = {},
                      op.pc # "finalize"
               PROVE  FALSE
    OBVIOUS
  <2>1. PICK n \in velero : TRUE
    OBVIOUS
  <2> QED BY <2>1, Retires
<1>2. Spec => []KnownInv /\ []RotInv
  BY AlwaysKnown, AlwaysRot
<1> QED BY <1>1, <1>2, PTL DEF Spec, NeverUncovered

=========================
