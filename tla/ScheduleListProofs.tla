------------------------- MODULE ScheduleListProofs -------------------------
(***************************************************************************)
(* What the operations on the schedule list preserve, for lists of any      *)
(* length: each returns a list of entries, none loses a name, and one entry *)
(* is always active, so that the clean-up stays inside the list.           *)
(***************************************************************************)
EXTENDS Retention, FiniteSetTheorems, WellFoundedInduction, TLAPS

\* A list has finitely many positions.
LEMMA Positions ==
  ASSUME NEW s \in Seq(Entry)
  PROVE  IsFiniteSet(DOMAIN s) /\ Cardinality(DOMAIN s) = Len(s)
<1>1. DOMAIN s = 1 .. Len(s) /\ Len(s) \in Nat
  OBVIOUS
<1> QED BY <1>1, FS_Interval

\* The two counts SortLast works with are positions of the list.
LEMMA SortCounts ==
  ASSUME NEW front \in Seq(Entry), NEW x \in Entry
  PROVE  LET d == Cardinality(Dated(front))
             p == Cardinality({k \in DOMAIN front : ~Less(front[k], x)})
         IN  d \in 0 .. Len(front) /\ p \in 0 .. d
<1> DEFINE D == Dated(front)
           P == {k \in DOMAIN front : ~Less(front[k], x)}
<1>1. IsFiniteSet(DOMAIN front) /\ Cardinality(DOMAIN front) = Len(front)
  BY Positions
<1>2. D \subseteq DOMAIN front /\ P \subseteq D
  BY DEF Dated, Less
<1>3. IsFiniteSet(D) /\ Cardinality(D) <= Len(front)
  BY <1>1, <1>2, FS_Subset
<1>4. IsFiniteSet(P) /\ Cardinality(P) <= Cardinality(D)
  BY <1>2, <1>3, FS_Subset
<1>5. Cardinality(D) \in Nat /\ Cardinality(P) \in Nat
  BY <1>3, <1>4, FS_CardinalityType
<1>6. Cardinality(D) \in 0 .. Len(front) /\ Cardinality(P) \in 0 .. Cardinality(D)
  BY <1>3, <1>4, <1>5
<1> QED BY <1>6

\* Sorting the list after its last entry changed yields a list of entries one
\* longer than its front, with the same names.
LEMMA SortLastNames ==
  ASSUME NEW front \in Seq(Entry), NEW x \in Entry
  PROVE  /\ SortLast(front, x) \in Seq(Entry)
         /\ Len(SortLast(front, x)) = Len(front) + 1
         /\ Names(SortLast(front, x)) = Names(front) \union {x.name}
<1> DEFINE n == Len(front)
           d == Cardinality(Dated(front))
           p == Cardinality({k \in DOMAIN front : ~Less(front[k], x)})
           at(k) == CASE k <= p                 -> front[k]
                      [] k = p + 1              -> x
                      [] k > p + 1 /\ k <= d + 1 -> front[k - 1]
                      [] OTHER                  -> front[n + d + 2 - k]
           s == [k \in 1 .. n + 1 |-> at(k)]
<1>1. n \in Nat /\ d \in 0 .. n /\ p \in 0 .. d
  BY SortCounts
<1>2. SortLast(front, x) = s
  BY DEF SortLast
<1> HIDE DEF n, d, p
<1>3. DOMAIN front = 1 .. n /\ \A k \in 1 .. n : front[k] \in Entry
  BY DEF n
<1>4. \A k \in 1 .. n + 1 : at(k) = x \/ \E i \in 1 .. n : at(k) = front[i]
  <2> SUFFICES ASSUME NEW k \in 1 .. n + 1
               PROVE  at(k) = x \/ \E i \in 1 .. n : at(k) = front[i]
    OBVIOUS
  <2>1. CASE k <= p
    <3>1. k \in 1 .. n /\ at(k) = front[k]
      BY <1>1, <2>1
    <3> QED BY <3>1
  <2>2. CASE k = p + 1
    BY <1>1, <2>2
  <2>3. CASE k > p + 1 /\ k <= d + 1
    <3>1. k - 1 \in 1 .. n /\ at(k) = front[k - 1]
      BY <1>1, <2>3
    <3> QED BY <3>1
  <2>4. CASE k > p + 1 /\ k > d + 1
    <3>1. n + d + 2 - k \in 1 .. n /\ at(k) = front[n + d + 2 - k]
      BY <1>1, <2>4
    <3> QED BY <3>1
  <2> QED BY <1>1, <2>1, <2>2, <2>3, <2>4
<1>5. \A i \in 1 .. n : \E k \in 1 .. n + 1 : at(k) = front[i]
  <2> SUFFICES ASSUME NEW i \in 1 .. n
               PROVE  \E k \in 1 .. n + 1 : at(k) = front[i]
    OBVIOUS
  <2>1. CASE i <= p
    <3>1. i \in 1 .. n + 1 /\ at(i) = front[i]
      BY <1>1, <2>1
    <3> QED BY <3>1
  <2>2. CASE i > p /\ i <= d
    <3>1. i + 1 \in 1 .. n + 1 /\ at(i + 1) = front[(i + 1) - 1]
      BY <1>1, <2>2
    <3>2. (i + 1) - 1 = i
      BY <1>1
    <3> QED BY <3>1, <3>2
  <2>3. CASE i > p /\ i > d
    <3>1. n + d + 2 - i \in 1 .. n + 1
      BY <1>1, <2>3
    <3>2. at(n + d + 2 - i) = front[n + d + 2 - (n + d + 2 - i)]
      BY <1>1, <2>3
    <3>3. n + d + 2 - (n + d + 2 - i) = i
      BY <1>1
    <3> QED BY <3>1, <3>2, <3>3
  <2> QED BY <1>1, <2>1, <2>2, <2>3
<1>6. p + 1 \in 1 .. n + 1 /\ at(p + 1) = x
  BY <1>1
<1> HIDE DEF at
<1>7. \A k \in 1 .. n + 1 : at(k) \in Entry
  BY <1>3, <1>4
<1>8. s \in Seq(Entry) /\ Len(s) = n + 1 /\ DOMAIN s = 1 .. n + 1
  <2>1. n + 1 \in Nat
    BY <1>1
  <2>2. s \in [1 .. n + 1 -> Entry]
    BY <1>7
  <2> QED BY <2>1, <2>2
<1>9. Names(s) = Names(front) \union {x.name}
  <2>1. \A k \in 1 .. n + 1 : s[k].name \in Names(front) \union {x.name}
    BY <1>3, <1>4 DEF Names
  <2>2. \A i \in 1 .. n : front[i].name \in Names(s)
    BY <1>5, <1>8 DEF Names
  <2>3. x.name \in Names(s)
    BY <1>6, <1>8 DEF Names
  <2> QED BY <1>3, <1>8, <2>1, <2>2, <2>3 DEF Names
<1> QED BY <1>2, <1>8, <1>9 DEF n

\* A list is its front and its last entry.
LEMMA FrontAndLast ==
  ASSUME NEW s \in Seq(Entry), s # <<>>
  PROVE  /\ Front(s) \in Seq(Entry) /\ Len(Front(s)) = Len(s) - 1
         /\ Last(s) \in Entry
         /\ Names(s) = Names(Front(s)) \union {Last(s).name}
<1> DEFINE n == Len(s)
<1>1. n \in Nat \ {0} /\ DOMAIN s = 1 .. n /\ \A k \in 1 .. n : s[k] \in Entry
  OBVIOUS
<1>2. Front(s) = [k \in 1 .. n - 1 |-> s[k]]
  BY <1>1 DEF Front
<1>3. Front(s) \in Seq(Entry) /\ Len(Front(s)) = n - 1 /\ DOMAIN Front(s) = 1 .. n - 1
  <2>1. [k \in 1 .. n - 1 |-> s[k]] \in [1 .. n - 1 -> Entry] /\ n - 1 \in Nat
    BY <1>1
  <2> QED BY <1>2, <2>1
<1>4. Last(s) = s[n] /\ s[n] \in Entry
  BY <1>1 DEF Last
<1> HIDE DEF n
<1>5. Names(s) = Names(Front(s)) \union {s[n].name}
  <2>1. \A k \in 1 .. n : k \in 1 .. n - 1 \/ k = n
    BY <1>1
  <2>2. 1 .. n - 1 \subseteq 1 .. n /\ n \in 1 .. n
    BY <1>1
  <2> QED BY <1>1, <1>2, <1>3, <2>1, <2>2 DEF Names
<1> QED BY <1>3, <1>4, <1>5 DEF n

\* Reserving a name adds it, whatever becomes of the order.
LEMMA AddEmptyNames ==
  ASSUME NEW s \in Seq(Entry), NEW n \in Nat
  PROVE  AddEmpty(s, n) \in Seq(Entry) /\ Names(AddEmpty(s, n)) = Names(s) \union {n}
<1>1. [name |-> n, created |-> 0, status |-> ""] \in Entry
  BY DEF Entry, ScheduleStatus
<1> QED BY <1>1, SortLastNames DEF AddEmpty

\* Recording a created schedule keeps every name.
LEMMA UpdateEmptyNames ==
  ASSUME NEW s \in Seq(Entry), s # <<>>, NEW t \in Nat
  PROVE  UpdateEmpty(s, t) \in Seq(Entry) /\ Names(UpdateEmpty(s, t)) = Names(s)
<1> DEFINE x == [Last(s) EXCEPT !.created = t, !.status = "Active"]
<1>1. Last(s) \in Entry /\ Front(s) \in Seq(Entry)
  BY FrontAndLast
<1>2. x \in Entry /\ x.name = Last(s).name
  BY <1>1 DEF Entry, ScheduleStatus
<1> HIDE DEF x
<1>3. /\ SortLast(Front(s), x) \in Seq(Entry)
      /\ Names(SortLast(Front(s), x)) = Names(Front(s)) \union {x.name}
  BY <1>1, <1>2, SortLastNames
<1>4. UpdateEmpty(s, t) = SortLast(Front(s), x)
  BY DEF UpdateEmpty, x
<1> QED BY <1>2, <1>3, <1>4, FrontAndLast

\* So do marking the previous schedule as deleted ...
LEMMA MarkNames ==
  ASSUME NEW s \in Seq(Entry), HasPrevious(s)
  PROVE  MarkPreviousDeleted(s) \in Seq(Entry) /\ Names(MarkPreviousDeleted(s)) = Names(s)
<1> DEFINE m == MarkPreviousDeleted(s)
<1>1. DOMAIN s = 1 .. Len(s) /\ 2 \in DOMAIN s
  BY DEF HasPrevious
<1>2. \A k \in DOMAIN s : s[k] \in Entry
  OBVIOUS
<1>3. m = [k \in DOMAIN s |-> IF k = 2 THEN [s[2] EXCEPT !.status = "Deleted"] ELSE s[k]]
  BY <1>1 DEF MarkPreviousDeleted
<1>4. [s[2] EXCEPT !.status = "Deleted"] \in Entry
        /\ [s[2] EXCEPT !.status = "Deleted"].name = s[2].name
  BY <1>1, <1>2 DEF Entry, ScheduleStatus
<1> HIDE DEF m
<1>5. \A k \in DOMAIN s : m[k] \in Entry /\ m[k].name = s[k].name
  BY <1>2, <1>3, <1>4
<1>6. m \in Seq(Entry)
  BY <1>1, <1>3, <1>5
<1>7. Names(m) = Names(s)
  BY <1>3, <1>5 DEF Names
<1> QED BY <1>6, <1>7 DEF m

\* ... and marking expired ones as erased.
LEMMA EraseNames ==
  ASSUME NEW s \in Seq(Entry), NEW keep, NEW check, NEW B
  PROVE  /\ Erase(s, keep, check, B) \in Seq(Entry)
         /\ Names(Erase(s, keep, check, B)) = Names(s)
<1> DEFINE m == Erase(s, keep, check, B)
<1>1. DOMAIN s = 1 .. Len(s) /\ Len(s) \in Nat
  OBVIOUS
<1>2. \A k \in DOMAIN s : /\ s[k] \in Entry
                          /\ [s[k] EXCEPT !.status = "Erased"] \in Entry
                          /\ [s[k] EXCEPT !.status = "Erased"].name = s[k].name
  <2>1. \A k \in DOMAIN s : s[k] \in Entry
    BY <1>1
  <2> QED BY <2>1 DEF Entry, ScheduleStatus
<1>3. /\ DOMAIN m = DOMAIN s
      /\ \A k \in DOMAIN s : m[k] \in {s[k], [s[k] EXCEPT !.status = "Erased"]}
      /\ m = [k \in DOMAIN s |-> m[k]]
  BY DEF Erase
<1> HIDE DEF m
<1>4. \A k \in DOMAIN s : m[k] \in Entry /\ m[k].name = s[k].name
  BY <1>2, <1>3
<1>5. m \in Seq(Entry)
  BY <1>1, <1>3, <1>4
<1>6. Names(m) = Names(s)
  BY <1>3, <1>4 DEF Names
<1> QED BY <1>5, <1>6 DEF m

-----------------------------------------------------------------------------
(* One entry is active.                                                    *)

Active(s) == {k \in DOMAIN s : s[k].status = "Active"}

HasTwoActive(s) == \E i, j \in Active(s) : i # j

\* Every list the operator stores: empty, one reserved name, or one that has
\* an active entry.
Listed(s) == s = <<>> \/ (Len(s) = 1 /\ HasQueued(s)) \/ Active(s) # {}

\* Sorting moves x to some place and every other entry to a place of its own.
LEMMA SortLastPlaces ==
  ASSUME NEW front \in Seq(Entry), NEW x \in Entry
  PROVE  \E q \in DOMAIN SortLast(front, x) :
           /\ SortLast(front, x)[q] = x
           /\ \A i \in DOMAIN front :
                \E k \in DOMAIN SortLast(front, x) \ {q} : SortLast(front, x)[k] = front[i]
<1> DEFINE n == Len(front)
           d == Cardinality(Dated(front))
           p == Cardinality({k \in DOMAIN front : ~Less(front[k], x)})
           at(k) == CASE k <= p                 -> front[k]
                      [] k = p + 1              -> x
                      [] k > p + 1 /\ k <= d + 1 -> front[k - 1]
                      [] OTHER                  -> front[n + d + 2 - k]
           s == [k \in 1 .. n + 1 |-> at(k)]
<1>1. n \in Nat /\ d \in 0 .. n /\ p \in 0 .. d
  BY SortCounts
<1>2. SortLast(front, x) = s /\ DOMAIN s = 1 .. n + 1
  BY DEF SortLast
<1>3. DOMAIN front = 1 .. n
  OBVIOUS
<1> HIDE DEF n, d, p
<1>4. p + 1 \in 1 .. n + 1 /\ at(p + 1) = x
  BY <1>1
<1>5. \A i \in 1 .. n : \E k \in (1 .. n + 1) \ {p + 1} : at(k) = front[i]
  <2> SUFFICES ASSUME NEW i \in 1 .. n
               PROVE  \E k \in (1 .. n + 1) \ {p + 1} : at(k) = front[i]
    OBVIOUS
  <2>1. CASE i <= p
    <3>1. i \in 1 .. n + 1 /\ i # p + 1 /\ at(i) = front[i]
      BY <1>1, <2>1
    <3> QED BY <3>1
  <2>2. CASE i > p /\ i <= d
    <3>1. i + 1 \in 1 .. n + 1 /\ i + 1 # p + 1 /\ at(i + 1) = front[(i + 1) - 1]
      BY <1>1, <2>2
    <3>2. (i + 1) - 1 = i
      BY <1>1
    <3> QED BY <3>1, <3>2
  <2>3. CASE i > p /\ i > d
    <3>1. n + d + 2 - i \in 1 .. n + 1 /\ n + d + 2 - i # p + 1
      BY <1>1, <2>3
    <3>2. at(n + d + 2 - i) = front[n + d + 2 - (n + d + 2 - i)]
      BY <1>1, <2>3
    <3>3. n + d + 2 - (n + d + 2 - i) = i
      BY <1>1
    <3> QED BY <3>1, <3>2, <3>3
  <2> QED BY <1>1, <2>1, <2>2, <2>3
<1> HIDE DEF at
<1>6. s[p + 1] = x
        /\ \A i \in 1 .. n : \E k \in (1 .. n + 1) \ {p + 1} : s[k] = front[i]
  BY <1>4, <1>5
<1> HIDE DEF s
<1> QED BY <1>2, <1>3, <1>4, <1>6

\* So the active entries of the front are still there, and x beside them.
LEMMA SortLastActive ==
  ASSUME NEW front \in Seq(Entry), NEW x \in Entry
  PROVE  /\ Active(front) # {} => Active(SortLast(front, x)) # {}
         /\ x.status = "Active" => Active(SortLast(front, x)) # {}
         /\ x.status = "Active" /\ Active(front) # {} => HasTwoActive(SortLast(front, x))
<1> DEFINE s == SortLast(front, x)
<1>1. PICK q \in DOMAIN s :
        /\ s[q] = x
        /\ \A i \in DOMAIN front : \E k \in DOMAIN s \ {q} : s[k] = front[i]
  BY SortLastPlaces
<1> HIDE DEF s
<1>2. x.status = "Active" => q \in Active(s)
  BY <1>1 DEF Active
<1>3. Active(front) # {} => \E k \in Active(s) : k # q
  BY <1>1 DEF Active
<1> QED BY <1>2, <1>3 DEF HasTwoActive, s

\* Reserving a name.
LEMMA AddEmptyListed ==
  ASSUME NEW s \in Seq(Entry), NEW n \in Nat, Listed(s), s = <<>> \/ ~HasQueued(s)
  PROVE  Listed(AddEmpty(s, n))
<1> DEFINE x == [name |-> n, created |-> 0, status |-> ""]
<1>1. x \in Entry /\ x.status = "" /\ Undated(x)
  BY DEF Entry, ScheduleStatus, Undated
<1> HIDE DEF x
<1>2. AddEmpty(s, n) = SortLast(s, x)
  BY DEF AddEmpty, x
<1>3. CASE s = <<>>
  <2>1. SortLast(s, x) \in Seq(Entry) /\ Len(SortLast(s, x)) = 1
    <3>1. Len(s) = 0
      BY <1>3
    <3>2. SortLast(s, x) \in Seq(Entry) /\ Len(SortLast(s, x)) = Len(s) + 1
      BY <1>1, SortLastNames
    <3> QED BY <3>1, <3>2
  <2>2. DOMAIN SortLast(s, x) = {1}
    BY <2>1
  <2>3. SortLast(s, x)[1] = x
    <3>1. PICK q \in DOMAIN SortLast(s, x) :
            /\ SortLast(s, x)[q] = x
            /\ \A i \in DOMAIN s :
                 \E k \in DOMAIN SortLast(s, x) \ {q} : SortLast(s, x)[k] = s[i]
      BY <1>1, SortLastPlaces
    <3> QED BY <2>2, <3>1
  <2>4. Last(SortLast(s, x)) = x /\ SortLast(s, x) # <<>>
    BY <2>1, <2>3 DEF Last
  <2> QED BY <1>1, <1>2, <2>1, <2>4 DEF Listed, HasQueued
<1>4. CASE s # <<>>
  BY <1>1, <1>2, <1>4, SortLastActive DEF Listed
<1> QED BY <1>3, <1>4

\* Recording a created schedule: when there is a previous one, two are active.
LEMMA UpdateEmptyListed ==
  ASSUME NEW s \in Seq(Entry), NEW t \in Nat, Listed(s), HasQueued(s)
  PROVE  /\ Listed(UpdateEmpty(s, t))
         /\ HasPrevious(UpdateEmpty(s, t)) => HasTwoActive(UpdateEmpty(s, t))
<1> DEFINE x == [Last(s) EXCEPT !.created = t, !.status = "Active"]
           u == UpdateEmpty(s, t)
<1>1. /\ s # <<>> /\ Last(s) \in Entry /\ Last(s).status = ""
      /\ Front(s) \in Seq(Entry) /\ Len(Front(s)) = Len(s) - 1
  BY FrontAndLast DEF HasQueued
<1>2. x \in Entry /\ x.status = "Active"
  BY <1>1 DEF Entry, ScheduleStatus
<1>3. u = SortLast(Front(s), x)
  BY DEF UpdateEmpty
<1> HIDE DEF x, u
<1>4. Len(u) = Len(s) /\ Active(u) # {}
  <2>1. Len(u) = Len(Front(s)) + 1
    BY <1>1, <1>2, <1>3, SortLastNames
  <2>3. Len(s) \in Nat
    OBVIOUS
  <2>4. Len(Front(s)) = Len(s) - 1
    BY <1>1, Zenon
  <2>5. Len(u) = Len(s)
    BY <2>1, <2>3, <2>4
  <2>2. Active(u) # {}
    BY <1>1, <1>2, <1>3, SortLastActive
  <2> QED BY <2>2, <2>5
<1>5. CASE Len(s) = 1
  BY <1>4, <1>5 DEF Listed, HasPrevious, u
<1>6. CASE Active(s) # {}
  <2>1. PICK k \in DOMAIN s : s[k].status = "Active"
    BY <1>6 DEF Active
  <2>2. DOMAIN s = 1 .. Len(s) /\ Last(s) = s[Len(s)] /\ Len(s) \in Nat
    BY DEF Last
  <2>3. k \in 1 .. Len(s) - 1
    <3>1. k # Len(s)
      BY <1>1, <2>1, <2>2
    <3> QED BY <2>2, <3>1
  <2>4. Front(s) = [i \in 1 .. Len(s) - 1 |-> s[i]]
    BY DEF Front
  <2>5. k \in Active(Front(s))
    BY <2>1, <2>3, <2>4 DEF Active
  <2> QED BY <1>1, <1>2, <1>3, <1>4, <2>5, SortLastActive DEF Listed, u
<1> QED BY <1>1, <1>5, <1>6 DEF Listed

\* Marking one of them leaves the other.
LEMMA MarkListed ==
  ASSUME NEW s \in Seq(Entry), HasPrevious(s), HasTwoActive(s)
  PROVE  Listed(MarkPreviousDeleted(s))
<1>1. DOMAIN s = 1 .. Len(s) /\ 2 \in DOMAIN s
  BY DEF HasPrevious
<1>2. MarkPreviousDeleted(s)
        = [k \in DOMAIN s |-> IF k = 2 THEN [s[2] EXCEPT !.status = "Deleted"] ELSE s[k]]
  BY <1>1 DEF MarkPreviousDeleted
<1>3. PICK k \in Active(s) : k # 2
  BY DEF HasTwoActive
<1>4. k \in Active(MarkPreviousDeleted(s))
  BY <1>2, <1>3 DEF Active
<1> QED BY <1>4 DEF Listed

\* Only deleted schedules become erased.
LEMMA EraseListed ==
  ASSUME NEW s \in Seq(Entry), Listed(s), NEW keep, NEW check, NEW B
  PROVE  Listed(Erase(s, keep, check, B))
<1> DEFINE m == Erase(s, keep, check, B)
<1>1. \A k \in Expired(s, keep, check, B) : s[k].status = "Deleted"
  BY DEF Expired
<1>2. /\ DOMAIN m = DOMAIN s
      /\ m = [k \in DOMAIN s |-> m[k]]
      /\ \A k \in DOMAIN s : s[k].status # "Deleted" => m[k] = s[k]
  BY <1>1 DEF Erase
<1> HIDE DEF m
<1>3. CASE s = <<>> \/ (Len(s) = 1 /\ HasQueued(s))
  <2>1. \A k \in DOMAIN s : s[k].status # "Deleted"
    <3>1. CASE s = <<>>
      BY <3>1
    <3>2. CASE Len(s) = 1 /\ HasQueued(s)
      <4>1. DOMAIN s = {1}
        BY <3>2
      <4>2. s[1].status = ""
        BY <3>2 DEF HasQueued, Last
      <4> QED BY <4>1, <4>2
    <3> QED BY <1>3, <3>1, <3>2
  <2>2. m = s
    BY <1>2, <2>1
  <2> QED BY <1>3, <2>2 DEF Listed, m
<1>4. CASE Active(s) # {}
  <2>1. Active(m) # {}
    BY <1>2, <1>4 DEF Active
  <2> QED BY <2>1 DEF Listed, m
<1> QED BY <1>3, <1>4 DEF Listed

-----------------------------------------------------------------------------
(* The clean-up's slice.                                                   *)

\* A nonempty set of naturals has a least element, which Min picks.
LEMMA LeastExists ==
  ASSUME NEW T \in SUBSET Nat, T # {}
  PROVE  \E x \in T : \A y \in T : x <= y
<1> DEFINE R == OpToRel(<, Nat)
<1>1. IsWellFoundedOn(R, Nat)
  BY NatLessThanWellFounded
<1>2. \A x, y \in Nat : <<y, x>> \in R <=> y < x
  BY DEF OpToRel
<1> HIDE DEF R
<1>3. PICK x \in T : \A y \in T : ~ (<<y, x>> \in R)
  BY <1>1, WFMin
<1>4. \A y \in T : ~ (y < x)
  BY <1>2, <1>3, Zenon
<1>5. \A y \in T : x <= y
  BY <1>4
<1> QED BY <1>5

LEMMA MinIsMember ==
  ASSUME NEW T \in SUBSET Nat, T # {}
  PROVE  Min(T) \in T /\ \A y \in T : Min(T) <= y
<1>1. \E x \in T : \A y \in T : x <= y
  BY LeastExists
<1> QED BY <1>1 DEF Min

\* Deleted schedules never fill the list, so the threshold lies inside it, and
\* so does a schedule with a successful backup.
LEMMA ListedSlice ==
  ASSUME NEW s \in Seq(Entry), Listed(s), NEW keep \in Nat \ {0}, NEW check, NEW B
  PROVE  SliceExists(s, keep, check, B)
<1> DEFINE D == {k \in DOMAIN s : s[k].status = "Deleted"}
           S == {k \in DOMAIN s : HasSuccessful(s, k, B)}
<1> SUFFICES ASSUME CleansUp(s, keep, check, B)
             PROVE  Required(s, keep, check, B) + 1 <= Len(s)
  BY DEF SliceExists
<1>1. DOMAIN s = 1 .. Len(s) /\ Len(s) \in Nat
  OBVIOUS
<1>2. IsFiniteSet(DOMAIN s) /\ Cardinality(DOMAIN s) = Len(s)
  BY Positions
<1>3. IsFiniteSet(D) /\ Cardinality(D) <= Len(s) /\ (Cardinality(D) = Len(s) => DOMAIN s = D)
  <2>1. D \in SUBSET (DOMAIN s)
    OBVIOUS
  <2> HIDE DEF D
  <2> QED BY <1>2, <2>1, FS_Subset
<1>4. Cardinality(D) \in Nat /\ Cardinality(D) >= keep
  BY <1>3, FS_CardinalityType DEF CleansUp, DeletedCount
<1>5. DOMAIN s # D
  <2>1. CASE s = <<>>
    <3>1. Cardinality(D) <= 0
      BY <1>3, <2>1
    <3> QED BY <1>4, <3>1
  <2>2. CASE Len(s) = 1 /\ HasQueued(s)
    <3>1. 1 \in DOMAIN s
      BY <1>1, <2>2
    <3>2. s[1].status = ""
      BY <2>2 DEF HasQueued, Last
    <3> QED BY <3>1, <3>2
  <2>3. CASE Active(s) # {}
    BY <2>3 DEF Active
  <2> QED BY <2>1, <2>2, <2>3 DEF Listed
<1>6. keep + 1 <= Len(s)
  BY <1>1, <1>3, <1>4, <1>5
<1>7. CASE ~check
  BY <1>6, <1>7 DEF Required
<1>8. CASE check
  <2>1. S # {} /\ S \in SUBSET Nat
    BY <1>1, <1>8 DEF CleansUp
  <2>2. Min(S) \in 1 .. Len(s)
    BY <1>1, <2>1, MinIsMember
  <2> HIDE DEF S
  <2> DEFINE i == Min(S) - 1
  <2>3. i \in Nat /\ i + 1 <= Len(s)
    BY <1>1, <2>2
  <2>4. Required(s, keep, check, B) = Max({keep, i})
    BY <1>8 DEF Required, S
  <2> HIDE DEF i
  <2>5. \E m \in {keep, i} : \A y \in {keep, i} : m >= y
    BY <2>3
  <2>6. Max({keep, i}) \in {keep, i}
    BY <2>5 DEF Max
  <2> QED BY <1>6, <2>3, <2>4, <2>6
<1> QED BY <1>7, <1>8

-----------------------------------------------------------------------------
(* The order of the list.                                                  *)

\* No entry comes before a dated one that is later: dated entries first, the
\* newest of them in front, and undated ones in any order.
Sorted(s) == \A j, k \in DOMAIN s : j < k /\ ~Undated(s[k]) => ~Less(s[j], s[k])

\* A nonempty set of naturals up to n has a greatest element, which Max picks.
LEMMA MaxIsMember ==
  ASSUME NEW n \in Nat, NEW T \in SUBSET (0 .. n), T # {}
  PROVE  Max(T) \in T /\ \A y \in T : y <= Max(T)
<1> DEFINE U == {m \in Nat : \A y \in T : y <= m}
<1>1. U \in SUBSET Nat /\ n \in U
  OBVIOUS
<1>2. PICK x \in U : \A m \in U : x <= m
  BY <1>1, LeastExists
<1>3. x \in T
  <2>1. SUFFICES ASSUME x \notin T PROVE FALSE
    OBVIOUS
  <2>2. x # 0
    <3>1. PICK y \in T : TRUE
      OBVIOUS
    <3> QED BY <1>2, <2>1, <3>1
  <2>3. x - 1 \in U
    BY <1>2, <2>1, <2>2
  <2> QED BY <1>2, <2>3
<1>4. \E m \in T : \A y \in T : m >= y
  BY <1>2, <1>3
<1>5. Max(T) \in T /\ \A y \in T : Max(T) >= y
  BY <1>4 DEF Max
<1> QED BY <1>5

\* A set of positions that has all the positions before each of its own.
LEMMA PrefixCounts ==
  ASSUME NEW n \in Nat, NEW P \in SUBSET (1 .. n), \A k \in P : 1 .. k \subseteq P
  PROVE  Cardinality(P) \in 0 .. n /\ P = 1 .. Cardinality(P)
<1>1. CASE P = {}
  <2>1. Cardinality(P) = 0
    BY <1>1, FS_EmptySet
  <2> QED BY <1>1, <2>1
<1>2. CASE P # {}
  <2>1. P \in SUBSET (0 .. n)
    OBVIOUS
  <2>2. Max(P) \in P /\ \A y \in P : y <= Max(P)
    BY <1>2, <2>1, MaxIsMember
  <2> DEFINE m == Max(P)
  <2> HIDE DEF m
  <2>3. m \in 1 .. n /\ m \in P /\ \A y \in P : y <= m
    BY <2>2 DEF m
  <2>5. P = 1 .. m
    <3>1. 1 .. m \subseteq P
      BY <2>3
    <3>2. \A y \in P : y \in 1 .. m
      BY <2>3
    <3> QED BY <3>1, <3>2
  <2>4. Cardinality(1 .. m) = m
    BY <2>3, FS_Interval
  <2> QED BY <2>3, <2>4, <2>5
<1> QED BY <1>1, <1>2

\* Less compares entries so that "not less" is transitive, and one of two
\* entries, if dated, is not less than the other.
LEMMA LessOrder ==
  ASSUME NEW a \in Entry, NEW b \in Entry, NEW c \in Entry
  PROVE  /\ ~Less(a, b) /\ ~Less(b, c) => ~Less(a, c)
         /\ Less(a, b) /\ ~Undated(a) => ~Less(b, a)
<1>1. /\ a.created \in Nat /\ b.created \in Nat /\ c.created \in Nat
      /\ a.name \in Nat /\ b.name \in Nat /\ c.name \in Nat
  BY DEF Entry
<1> QED BY <1>1 DEF Less, Undated

\* The two counts of SortLast are the places where its parts end.
LEMMA SortedCounts ==
  ASSUME NEW s \in Seq(Entry), Sorted(s), NEW x \in Entry
  PROVE  LET d == Cardinality(Dated(s))
             p == Cardinality({k \in DOMAIN s : ~Less(s[k], x)})
         IN  /\ d \in 0 .. Len(s) /\ Dated(s) = 1 .. d
             /\ p \in 0 .. d /\ {k \in DOMAIN s : ~Less(s[k], x)} = 1 .. p
<1> DEFINE D == Dated(s)
           P == {k \in DOMAIN s : ~Less(s[k], x)}
<1>1. DOMAIN s = 1 .. Len(s) /\ Len(s) \in Nat /\ \A k \in DOMAIN s : s[k] \in Entry
  OBVIOUS
<1>2. ASSUME NEW k \in D, NEW j \in 1 .. k
      PROVE  j \in D /\ (k \in P => j \in P)
  <2>1. k \in DOMAIN s /\ j \in DOMAIN s /\ ~Undated(s[k])
    BY <1>1, <1>2 DEF Dated
  <2>2. CASE j = k
    BY <1>2, <2>2
  <2>3. CASE j # k
    <3>1. ~Less(s[j], s[k])
      BY <1>1, <1>2, <2>1, <2>3 DEF Sorted
    <3>2. j \in D
      BY <2>1, <3>1 DEF Dated, Less
    <3>3. k \in P => j \in P
      BY <1>1, <2>1, <3>1, LessOrder
    <3> QED BY <3>2, <3>3
  <2> QED BY <2>2, <2>3
<1>3. P \subseteq D /\ D \in SUBSET (1 .. Len(s)) /\ P \in SUBSET (1 .. Len(s))
  BY <1>1 DEF Dated, Less
<1> HIDE DEF D, P
<1>4. Cardinality(D) \in 0 .. Len(s) /\ D = 1 .. Cardinality(D)
  BY <1>1, <1>2, <1>3, PrefixCounts
<1>5. Cardinality(P) \in 0 .. Len(s) /\ P = 1 .. Cardinality(P)
  BY <1>1, <1>2, <1>3, PrefixCounts
<1>6. Cardinality(P) <= Cardinality(D)
  BY <1>3, <1>4, <1>5
<1>7. Cardinality(P) \in 0 .. Cardinality(D)
  BY <1>4, <1>5, <1>6
<1> QED BY <1>4, <1>5, <1>7 DEF D, P

\* Whatever is put into a sorted list, the list that results is sorted.
LEMMA SortLastSorted ==
  ASSUME NEW front \in Seq(Entry), Sorted(front), NEW x \in Entry
  PROVE  Sorted(SortLast(front, x))
<1> DEFINE n == Len(front)
           d == Cardinality(Dated(front))
           p == Cardinality({k \in DOMAIN front : ~Less(front[k], x)})
           at(k) == CASE k <= p                 -> front[k]
                      [] k = p + 1              -> x
                      [] k > p + 1 /\ k <= d + 1 -> front[k - 1]
                      [] OTHER                  -> front[n + d + 2 - k]
           s == [k \in 1 .. n + 1 |-> at(k)]
<1>1. /\ n \in Nat /\ d \in 0 .. n /\ p \in 0 .. d
      /\ Dated(front) = 1 .. d /\ {k \in DOMAIN front : ~Less(front[k], x)} = 1 .. p
  BY SortedCounts
<1>2. SortLast(front, x) = s /\ DOMAIN s = 1 .. n + 1
  BY DEF SortLast
<1>3. DOMAIN front = 1 .. n /\ \A k \in 1 .. n : front[k] \in Entry
  OBVIOUS
<1> HIDE DEF n, d, p
<1>4. /\ \A k \in 1 .. n : ~Undated(front[k]) <=> k <= d
      /\ \A k \in 1 .. n : ~Less(front[k], x) <=> k <= p
  BY <1>1, <1>3 DEF Dated
<1>5. SUFFICES ASSUME NEW j \in 1 .. n + 1, NEW k \in 1 .. n + 1, j < k, ~Undated(at(k))
               PROVE  ~Less(at(j), at(k))
  BY <1>2 DEF Sorted
<1>6. k <= d + 1
  <2>1. SUFFICES ASSUME k > d + 1 PROVE FALSE
    BY <1>1
  <2>2. at(k) = front[n + d + 2 - k] /\ n + d + 2 - k \in 1 .. n /\ n + d + 2 - k > d
    BY <1>1, <2>1
  <2> QED BY <1>1, <1>4, <1>5, <2>2
<1>7. CASE k <= p
  <2>1. at(k) = front[k] /\ at(j) = front[j] /\ k \in 1 .. n /\ j \in 1 .. n
    BY <1>1, <1>5, <1>7
  <2> QED BY <1>3, <1>5, <2>1 DEF Sorted
<1>8. CASE k = p + 1
  <2>1. at(k) = x /\ at(j) = front[j] /\ j \in 1 .. n /\ j <= p
    BY <1>1, <1>5, <1>8
  <2> QED BY <1>4, <2>1
<1>9. CASE k > p + 1
  <2>1. at(k) = front[k - 1] /\ k - 1 \in 1 .. n /\ k - 1 > p /\ k - 1 <= d
    BY <1>1, <1>6, <1>9
  <2>2. CASE j <= p
    <3>1. at(j) = front[j] /\ j \in 1 .. n /\ j < k - 1
      BY <1>1, <1>9, <2>2
    <3> QED BY <1>3, <1>5, <2>1, <3>1 DEF Sorted
  <2>3. CASE j = p + 1
    <3>1. at(j) = x /\ Less(front[k - 1], x)
      BY <1>1, <1>4, <2>1, <2>3
    <3> QED BY <1>3, <1>5, <2>1, <3>1, LessOrder
  <2>4. CASE j > p + 1
    <3>1. at(j) = front[j - 1] /\ j - 1 \in 1 .. n /\ j - 1 < k - 1
      BY <1>1, <1>5, <1>6, <2>4
    <3> QED BY <1>3, <1>5, <2>1, <3>1 DEF Sorted
  <2> QED BY <1>1, <2>2, <2>3, <2>4
<1>10. k \in Nat /\ p \in Nat
  BY <1>1
<1> QED BY <1>7, <1>8, <1>9, <1>10

\* So the operations on the list leave a sorted one: reserving a name,
LEMMA AddEmptySorted ==
  ASSUME NEW s \in Seq(Entry), Sorted(s), NEW n \in Nat
  PROVE  Sorted(AddEmpty(s, n))
<1>1. [name |-> n, created |-> 0, status |-> ""] \in Entry
  BY DEF Entry, ScheduleStatus
<1> QED BY <1>1, SortLastSorted DEF AddEmpty

\* The front of a sorted list is sorted.
LEMMA FrontSorted ==
  ASSUME NEW s \in Seq(Entry), Sorted(s), s # <<>>
  PROVE  Sorted(Front(s))
<1>1. /\ DOMAIN s = 1 .. Len(s) /\ Len(s) \in Nat
      /\ Front(s) = [k \in 1 .. Len(s) - 1 |-> s[k]]
  BY DEF Front
<1> QED BY <1>1 DEF Sorted

\* recording a created schedule, whatever its timestamp,
LEMMA UpdateEmptySorted ==
  ASSUME NEW s \in Seq(Entry), Sorted(s), s # <<>>, NEW t \in Nat
  PROVE  Sorted(UpdateEmpty(s, t))
<1>1. Last(s) \in Entry /\ Front(s) \in Seq(Entry)
  BY FrontAndLast
<1>2. [Last(s) EXCEPT !.created = t, !.status = "Active"] \in Entry
  BY <1>1 DEF Entry, ScheduleStatus
<1> QED BY <1>1, <1>2, FrontSorted, SortLastSorted DEF UpdateEmpty

\* and changing statuses.
LEMMA StatusesSorted ==
  ASSUME NEW s \in Seq(Entry), Sorted(s), NEW m, DOMAIN m = DOMAIN s,
         \A k \in DOMAIN s : m[k].name = s[k].name /\ m[k].created = s[k].created
  PROVE  Sorted(m)
  BY DEF Sorted, Less, Undated

LEMMA MarkSorted ==
  ASSUME NEW s \in Seq(Entry), Sorted(s), HasPrevious(s)
  PROVE  Sorted(MarkPreviousDeleted(s))
<1> DEFINE m == MarkPreviousDeleted(s)
           e == [s[2] EXCEPT !.status = "Deleted"]
<1>1. 2 \in DOMAIN s /\ s[2] \in Entry
  BY DEF HasPrevious
<1>2. e.name = s[2].name /\ e.created = s[2].created
  BY <1>1 DEF Entry
<1>3. m = [k \in DOMAIN s |-> IF k = 2 THEN e ELSE s[k]]
  BY <1>1 DEF MarkPreviousDeleted
<1> HIDE DEF m, e
<1>4. DOMAIN m = DOMAIN s
        /\ \A k \in DOMAIN s : m[k].name = s[k].name /\ m[k].created = s[k].created
  BY <1>2, <1>3
<1> QED BY <1>4, StatusesSorted DEF m

LEMMA EraseSorted ==
  ASSUME NEW s \in Seq(Entry), Sorted(s), NEW keep, NEW check, NEW B
  PROVE  Sorted(Erase(s, keep, check, B))
<1> DEFINE m == Erase(s, keep, check, B)
           e(k) == [s[k] EXCEPT !.status = "Erased"]
<1>1. \A k \in DOMAIN s : s[k] \in Entry
  OBVIOUS
<1>2. \A k \in DOMAIN s : e(k).name = s[k].name /\ e(k).created = s[k].created
  BY <1>1 DEF Entry
<1>3. DOMAIN m = DOMAIN s /\ \A k \in DOMAIN s : m[k] \in {s[k], e(k)}
  BY DEF Erase
<1> HIDE DEF m, e
<1>4. \A k \in DOMAIN s : m[k].name = s[k].name /\ m[k].created = s[k].created
  BY <1>2, <1>3
<1> QED BY <1>3, <1>4, StatusesSorted DEF m

\* Induction over the naturals up to n, for a set.
LEMMA Induction ==
  ASSUME NEW n \in Nat, NEW T, 0 \in T, \A k \in 0 .. n : k \in T /\ k < n => k + 1 \in T
  PROVE  \A k \in 0 .. n : k \in T
<1> DEFINE U == {k \in 0 .. n : k \notin T}
<1>1. SUFFICES ASSUME U # {} PROVE FALSE
  OBVIOUS
<1>2. U \in SUBSET Nat
  OBVIOUS
<1>3. PICK x \in U : \A y \in U : x <= y
  BY <1>1, <1>2, LeastExists
<1>4. x # 0 /\ x - 1 \in 0 .. n /\ x - 1 \notin U
  BY <1>3
<1> QED BY <1>3, <1>4

=============================================================================
