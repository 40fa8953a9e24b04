---------------------------- MODULE FunctionProofs ----------------------------
(***************************************************************************)
(* The closed forms of ScheduleList and Retention are the loops of the      *)
(* code, and a change of a copy does not reach the original: what           *)
(* MCScheduleList checks for short lists, for lists of any length.  And no   *)
(* copy of an API object shares memory with it: what MCFunctions checks for  *)
(* objects with a few references, for objects with any number of them.      *)
(***************************************************************************)
EXTENDS MCFunctions, ScheduleListProofs

-----------------------------------------------------------------------------
(* Folds.                                                                  *)

\* What a fold from the left is defined by: a value for each set of positions,
\* the last position being taken last.
FoldsTo(g, base, H, n, s) ==
  \A t \in SUBSET (1 .. n) :
    g[t] = IF t = {} THEN base ELSE H[<<g[t \ {Max(t)}], s[Max(t)]>>]

\* Such values exist.
LEMMA FoldExists ==
  ASSUME NEW A, NEW E, NEW H \in [A \X E -> A], NEW base \in A,
         NEW n \in Nat, NEW s \in [1 .. n -> E]
  PROVE  \E g \in [SUBSET (1 .. n) -> A] : FoldsTo(g, base, H, n, s)
<1> DEFINE Folds(g, k) == FoldsTo(g, base, H, k, s)
           T == {k \in 0 .. n : \E g \in [SUBSET (1 .. k) -> A] : Folds(g, k)}
<1>1. 0 \in T
  <2> DEFINE g == [t \in SUBSET (1 .. 0) |-> base]
  <2>1. \A t \in SUBSET (1 .. 0) : t = {}
    OBVIOUS
  <2>2. g \in [SUBSET (1 .. 0) -> A] /\ Folds(g, 0)
    BY <2>1 DEF FoldsTo
  <2> HIDE DEF g, Folds
  <2>3. 0 \in 0 .. n
    OBVIOUS
  <2> QED BY <2>2, <2>3
<1>2. ASSUME NEW k \in 0 .. n, k \in T, k < n
      PROVE  k + 1 \in T
  <2>1. PICK g \in [SUBSET (1 .. k) -> A] : Folds(g, k)
    BY <1>2
  <2> DEFINE m == k + 1
             h == [t \in SUBSET (1 .. m) |-> IF m \in t THEN H[<<g[t \ {m}], s[m]>>] ELSE g[t]]
  <2>2. m \in 1 .. n /\ m \in Nat /\ s[m] \in E
    BY <1>2
  <2>3. \A t \in SUBSET (1 .. m) : t \ {m} \in SUBSET (1 .. k) /\ (m \notin t => t \in SUBSET (1 .. k))
    OBVIOUS
  <2>4. h \in [SUBSET (1 .. m) -> A]
    <3>1. \A t \in SUBSET (1 .. m) : m \in t => <<g[t \ {m}], s[m]>> \in A \X E
      BY <2>1, <2>2, <2>3
    <3> QED BY <2>1, <2>3, <3>1
  <2>5. ASSUME NEW t \in SUBSET (1 .. m)
        PROVE  h[t] = IF t = {} THEN base ELSE H[<<h[t \ {Max(t)}], s[Max(t)]>>]
    <3>1. CASE m \in t
      <4>1. t \in SUBSET (0 .. m) /\ t # {}
        BY <3>1
      <4>2. Max(t) \in t /\ \A y \in t : y <= Max(t)
        <5> HIDE DEF m
        <5> QED BY <2>2, <4>1, MaxIsMember
      <4>3. Max(t) = m
        <5>1. Max(t) \in 1 .. m /\ m <= Max(t)
          BY <2>5, <3>1, <4>2
        <5> QED BY <2>2, <5>1
      <4>4. t \ {m} \in SUBSET (1 .. m) /\ h[t \ {m}] = g[t \ {m}]
        OBVIOUS
      <4> QED BY <3>1, <4>1, <4>3, <4>4
    <3>2. CASE m \notin t /\ t # {}
      <4>1. t \in SUBSET (1 .. k) /\ h[t] = g[t] /\ k \in Nat /\ t \in SUBSET (0 .. k)
        BY <2>3, <2>5, <3>2
      <4>2. Max(t) \in t
        BY <3>2, <4>1, MaxIsMember
      <4>3. t \ {Max(t)} \in SUBSET (1 .. m) /\ h[t \ {Max(t)}] = g[t \ {Max(t)}]
        BY <2>5, <3>2
      <4>4. g[t] = H[<<g[t \ {Max(t)}], s[Max(t)]>>]
        BY <2>1, <3>2, <4>1 DEF FoldsTo
      <4> QED BY <3>2, <4>1, <4>3, <4>4
    <3>3. CASE t = {}
      <4>1. {} \in SUBSET (1 .. k) /\ m \notin t
        BY <3>3
      <4> QED BY <2>1, <2>5, <3>3, <4>1 DEF FoldsTo
    <3> QED BY <3>1, <3>2, <3>3
  <2> HIDE DEF h
  <2>6. Folds(h, m)
    BY <2>5 DEF FoldsTo
  <2> HIDE DEF Folds, m
  <2>7. m \in T
    BY <2>2, <2>4, <2>6
  <2> QED BY <2>7 DEF m
<1> HIDE DEF T
<1>3. n \in 0 .. n
  OBVIOUS
<1>4. \A k \in 0 .. n : k \in T
  BY <1>1, <1>2, Induction
<1> QED BY <1>3, <1>4 DEF T

\* The positions of a fold, one after the other.
LEMMA PrefixTop ==
  ASSUME NEW k \in Nat, k > 0
  PROVE  Max(1 .. k) = k
<1> DEFINE t == 1 .. k
           m == Max(t)
<1>1. t \in SUBSET (0 .. k) /\ t # {} /\ k \in t
  OBVIOUS
<1> HIDE DEF t
<1>2. m \in t /\ k <= m
  BY <1>1, MaxIsMember
<1> HIDE DEF m
<1>3. m = k
  BY <1>2 DEF t
<1> QED BY <1>3 DEF m, t

LEMMA PrefixSteps ==
  ASSUME NEW n \in Nat, NEW k \in 1 .. n
  PROVE  1 .. k \in SUBSET (1 .. n) /\ 1 .. k # {} /\ (1 .. k) \ {k} = 1 .. (k - 1)
<1>1. k \in 1 .. k
  OBVIOUS
<1>2. (1 .. k) \ {k} = 1 .. (k - 1)
  OBVIOUS
<1> QED BY <1>1, <1>2


\* The last of a set of positions, and the others.
LEMMA LastOfPositions ==
  ASSUME NEW n \in Nat
  PROVE  \A t \in SUBSET (1 .. n) : t # {} => Max(t) \in 1 .. n /\ t \ {Max(t)} \in SUBSET (1 .. n)
<1> SUFFICES ASSUME NEW t \in SUBSET (1 .. n), t # {} PROVE Max(t) \in 1 .. n
  OBVIOUS
<1>1. t \in SUBSET (0 .. n)
  OBVIOUS
<1>2. Max(t) \in t
  BY <1>1, MaxIsMember
<1> QED BY <1>2

\* Taken at the first k positions, for each k, such values are what a loop has
\* after k rounds.
FoldsWithin(f, A, H, n, s) ==
  \A t \in SUBSET (1 .. n) :
    t # {} /\ f[t \ {Max(t)}] \in A => f[t] = H[<<f[t \ {Max(t)}], s[Max(t)]>>]

LoopReturns(r, A, H, base, n, s) ==
  \E G \in [0 .. n -> A] :
    /\ G[0] = base
    /\ \A k \in 1 .. n : G[k] = H[<<G[k - 1], s[k]>>]
    /\ r = G[n]

LEMMA FoldRounds ==
  ASSUME NEW A, NEW E, NEW H \in [A \X E -> A], NEW base \in A,
         NEW n \in Nat, NEW s \in [1 .. n -> E],
         NEW f, f[{}] = base, FoldsWithin(f, A, H, n, s)
  PROVE  LoopReturns(f[1 .. n], A, H, base, n, s)
<1>1. ASSUME NEW k \in 1 .. n, f[1 .. (k - 1)] \in A
      PROVE  f[1 .. k] = H[<<f[1 .. (k - 1)], s[k]>>] /\ f[1 .. k] \in A
  <2>1. k \in Nat /\ k > 0
    OBVIOUS
  <2>2. Max(1 .. k) = k
    BY <2>1, PrefixTop
  <2>3. 1 .. k \in SUBSET (1 .. n) /\ 1 .. k # {} /\ (1 .. k) \ {k} = 1 .. (k - 1)
    BY PrefixSteps
  <2>4. f[1 .. k] = H[<<f[1 .. (k - 1)], s[k]>>]
    BY <1>1, <2>2, <2>3 DEF FoldsWithin
  <2>5. <<f[1 .. (k - 1)], s[k]>> \in A \X E
    BY <1>1
  <2> QED BY <2>4, <2>5
<1> DEFINE G == [k \in 0 .. n |-> f[1 .. k]]
           T == {k \in 0 .. n : f[1 .. k] \in A}
<1>2. 1 .. 0 = {} /\ 0 \in 0 .. n /\ n \in 0 .. n
  OBVIOUS
<1>3. 0 \in T
  BY <1>2
<1>4. ASSUME NEW k \in 0 .. n, k \in T, k < n PROVE k + 1 \in T
  <2>1. k + 1 \in 1 .. n /\ (k + 1) - 1 = k /\ k + 1 \in 0 .. n
    BY <1>4
  <2>2. f[1 .. (k + 1)] \in A
    BY <1>1, <1>4, <2>1
  <2> QED BY <2>1, <2>2
<1> HIDE DEF T
<1>5. \A k \in 0 .. n : k \in T
  BY <1>3, <1>4, Induction
<1>6. \A k \in 0 .. n : f[1 .. k] \in A
  BY <1>5 DEF T
<1>7. G \in [0 .. n -> A] /\ G[0] = base /\ f[1 .. n] = G[n]
  BY <1>2, <1>6
<1>8. ASSUME NEW k \in 1 .. n PROVE G[k] = H[<<G[k - 1], s[k]>>]
  <2>1. k \in 0 .. n /\ k - 1 \in 0 .. n
    OBVIOUS
  <2> QED BY <1>1, <1>6, <2>1
<1> HIDE DEF G
<1> QED BY <1>7, <1>8 DEF LoopReturns

-----------------------------------------------------------------------------
(* The sort.                                                               *)

\* A function on 1 .. n is a list of length n.
LEMMA ListOf ==
  ASSUME NEW S, NEW n \in Nat, NEW f, f = [i \in 1 .. n |-> f[i]], \A i \in 1 .. n : f[i] \in S
  PROVE  f \in Seq(S) /\ Len(f) = n /\ DOMAIN f = 1 .. n
<1>1. f \in [1 .. n -> S]
  OBVIOUS
<1> QED BY <1>1

\* The two parts of a list.
LEMMA PartsOf ==
  ASSUME NEW S, NEW s \in Seq(S), NEW p \in 0 .. Len(s)
  PROVE  LET a == SubSeq(s, 1, p)
             b == SubSeq(s, p + 1, Len(s))
         IN  /\ a \in Seq(S) /\ Len(a) = p /\ \A k \in 1 .. p : a[k] = s[k]
             /\ b \in Seq(S) /\ Len(b) = Len(s) - p
             /\ \A k \in 1 .. Len(s) - p : b[k] = s[k + p]
<1> DEFINE a == SubSeq(s, 1, p)
           b == SubSeq(s, p + 1, Len(s))
<1>1. Len(s) \in Nat /\ p \in Nat /\ \A k \in 1 .. Len(s) : s[k] \in S
  OBVIOUS
<1>2. /\ a \in Seq(S) /\ Len(a) = p
      /\ \A k \in 1 .. p : a[k] = s[k]
  <2>1. a = [k \in 1 .. p |-> s[k]]
    BY <1>1
  <2> QED BY <1>1, <2>1, ListOf
<1>3. /\ b \in Seq(S) /\ Len(b) = Len(s) - p
      /\ \A k \in 1 .. Len(s) - p : b[k] = s[k + p]
  <2>1. b = [k \in 1 .. Len(s) - p |-> s[k + p]]
    BY <1>1
  <2>2. Len(s) - p \in Nat /\ \A k \in 1 .. Len(s) - p : k + p \in 1 .. Len(s)
    BY <1>1
  <2>3. b = [k \in 1 .. Len(s) - p |-> b[k]] /\ \A k \in 1 .. Len(s) - p : b[k] \in S
    BY <1>1, <2>1, <2>2
  <2> DEFINE m == Len(s) - p
  <2>4. b = [k \in 1 .. m |-> b[k]] /\ (\A k \in 1 .. m : b[k] \in S) /\ m \in Nat
    BY <2>2, <2>3
  <2>5. \A k \in 1 .. m : b[k] = s[k + p]
    BY <2>1
  <2> HIDE DEF b, m
  <2>6. b \in Seq(S) /\ Len(b) = m
    BY <2>4, ListOf
  <2> QED BY <2>5, <2>6 DEF m
<1> QED BY <1>2, <1>3


\* Insertion puts x after the last of the entries that are not less than it.
LEMMA InsertedAt ==
  ASSUME NEW s \in Seq(Entry), NEW x \in Entry, NEW p \in 0 .. Len(s),
         {k \in DOMAIN s : ~Less(s[k], x)} = 1 .. p
  PROVE  /\ Insert(s, x) \in Seq(Entry)
         /\ Insert(s, x) = [k \in 1 .. Len(s) + 1 |->
                             IF k <= p THEN s[k] ELSE IF k = p + 1 THEN x ELSE s[k - 1]]
<1>1. Len(s) \in Nat /\ DOMAIN s = 1 .. Len(s) /\ p \in Nat
  OBVIOUS
<1>2. Max({0} \union 1 .. p) = p
  <2> DEFINE T == {0} \union 1 .. p
             m == Max(T)
  <2>1. T \in SUBSET (0 .. p) /\ T # {} /\ p \in T
    OBVIOUS
  <2> HIDE DEF T
  <2>2. m \in T /\ \A y \in T : y <= m
    BY <1>1, <2>1, MaxIsMember
  <2> HIDE DEF m
  <2>4. m \in 0 .. p /\ p <= m
    BY <2>1, <2>2
  <2>3. m = p
    BY <2>4
  <2> QED BY <2>3 DEF m, T
<1> DEFINE a == SubSeq(s, 1, p)
           b == SubSeq(s, p + 1, Len(s))
<1>3. Insert(s, x) = a \o <<x>> \o b
  BY <1>2 DEF Insert
<1>4. /\ a \in Seq(Entry) /\ Len(a) = p /\ \A k \in 1 .. p : a[k] = s[k]
      /\ b \in Seq(Entry) /\ Len(b) = Len(s) - p
      /\ \A k \in 1 .. Len(s) - p : b[k] = s[k + p]
  BY PartsOf
<1> HIDE DEF a, b
<1> DEFINE c == a \o <<x>>
<1>5. c \in Seq(Entry) /\ Len(c) = p + 1 /\ c[p + 1] = x /\ \A k \in 1 .. p : c[k] = s[k]
  BY <1>4
<1> HIDE DEF c
<1>6. c \o b \in Seq(Entry) /\ Len(c \o b) = Len(s) + 1
  BY <1>1, <1>4, <1>5
<1> DEFINE w == c \o b
<1>7. ASSUME NEW k \in 1 .. Len(s) + 1
      PROVE  w[k] = IF k <= p THEN s[k] ELSE IF k = p + 1 THEN x ELSE s[k - 1]
  <2>1. CASE k <= p + 1
    BY <1>1, <1>4, <1>5, <2>1
  <2>2. CASE k > p + 1
    <3>1. w[k] = b[k - (p + 1)] /\ k - (p + 1) \in 1 .. Len(s) - p
      BY <1>1, <1>4, <1>5, <2>2
    <3>2. b[k - (p + 1)] = s[(k - (p + 1)) + p] /\ (k - (p + 1)) + p = k - 1
      BY <1>1, <1>4, <3>1
    <3> QED BY <1>1, <2>2, <3>1, <3>2
  <2>3. k \in Nat /\ p + 1 \in Nat
    BY <1>1
  <2> HIDE DEF w
  <2> QED BY <2>1, <2>2, <2>3
<1> DEFINE r == [k \in 1 .. Len(s) + 1 |->
                   IF k <= p THEN s[k] ELSE IF k = p + 1 THEN x ELSE s[k - 1]]
<1>8. w \in Seq(Entry) /\ Len(w) = Len(s) + 1 /\ Insert(s, x) = w
  BY <1>3, <1>6 DEF c
<1> HIDE DEF w
<1>9. w = r
  BY <1>7, <1>8
<1> HIDE DEF r
<1>10. Insert(s, x) \in Seq(Entry) /\ Insert(s, x) = r
  BY <1>8, <1>9
<1> QED BY <1>10 DEF r

\* Insertion returns a list of entries.
LEMMA InsertType ==
  ASSUME NEW s \in Seq(Entry), NEW x \in Entry
  PROVE  Insert(s, x) \in Seq(Entry)
<1> DEFINE T == {0} \union {k \in DOMAIN s : ~Less(s[k], x)}
           p == Max(T)
<1>1. Len(s) \in Nat /\ DOMAIN s = 1 .. Len(s)
  OBVIOUS
<1>2. T \in SUBSET (0 .. Len(s)) /\ T # {}
  BY <1>1
<1> HIDE DEF T
<1>3. p \in 0 .. Len(s)
  BY <1>1, <1>2, MaxIsMember
<1>4. Insert(s, x) = SubSeq(s, 1, p) \o <<x>> \o SubSeq(s, p + 1, Len(s))
  BY DEF Insert, T
<1> HIDE DEF p
<1>5. SubSeq(s, 1, p) \in Seq(Entry) /\ SubSeq(s, p + 1, Len(s)) \in Seq(Entry)
  BY <1>1, <1>3
<1> QED BY <1>4, <1>5

\* Go's sort inserts the entries one after the other.
LEMMA SortByInsertion ==
  ASSUME NEW s \in Seq(Entry)
  PROVE  \E G \in [0 .. Len(s) -> Seq(Entry)] :
           /\ G[0] = <<>>
           /\ \A k \in 1 .. Len(s) : G[k] = Insert(G[k - 1], s[k])
           /\ InsertionSort(s) = G[Len(s)]
<1> DEFINE n == Len(s)
           A == Seq(Entry)
           P(h) == h = [t \in SUBSET (DOMAIN s) |->
                         IF t = {} THEN <<>> ELSE Insert(h[t \ {Max(t)}], s[Max(t)])]
           f == CHOOSE h : P(h)
           H == [ax \in A \X Entry |-> Insert(ax[1], ax[2])]
<1>1. n \in Nat /\ DOMAIN s = 1 .. n /\ s \in [1 .. n -> Entry] /\ <<>> \in A
  OBVIOUS
<1>2. InsertionSort(s) = f[1 .. n]
  <2>1. InsertionSort(s) = f[DOMAIN s]
    BY Zenon DEF InsertionSort, FoldLeft, MapThenFoldSet
  <2> QED BY <1>1, <2>1
<1>3. H \in [A \X Entry -> A] /\ \A a \in A, x \in Entry : H[<<a, x>>] = Insert(a, x)
  <2>1. ASSUME NEW ax \in A \X Entry PROVE Insert(ax[1], ax[2]) \in A
    BY InsertType
  <2> QED BY <2>1
<1> HIDE DEF n, H, A, P
<1>4. PICK g \in [SUBSET (1 .. n) -> A] : FoldsTo(g, <<>>, H, n, s)
  BY <1>1, <1>3, FoldExists
<1>5. \A t \in SUBSET (1 .. n) : t # {} => Max(t) \in 1 .. n /\ t \ {Max(t)} \in SUBSET (1 .. n)
  BY <1>1, LastOfPositions
<1>6. P(f)
  <2>1. ASSUME NEW t \in SUBSET (1 .. n), t # {}
        PROVE  g[t] = Insert(g[t \ {Max(t)}], s[Max(t)])
    <3>1. g[t] = H[<<g[t \ {Max(t)}], s[Max(t)]>>]
      BY <1>4, <2>1 DEF FoldsTo
    <3>2. g[t \ {Max(t)}] \in A /\ s[Max(t)] \in Entry
      BY <1>1, <1>5, <2>1
    <3> QED BY <1>3, <3>1, <3>2
  <2>2. g = [t \in SUBSET (1 .. n) |->
              IF t = {} THEN <<>> ELSE Insert(g[t \ {Max(t)}], s[Max(t)])]
    BY <1>4, <2>1 DEF FoldsTo
  <2>3. P(g)
    BY <1>1, <2>2 DEF P
  <2> QED BY <2>3, Zenon
<1>7. f = [t \in SUBSET (1 .. n) |->
             IF t = {} THEN <<>> ELSE Insert(f[t \ {Max(t)}], s[Max(t)])]
  BY <1>1, <1>6 DEF P
<1> HIDE DEF f
<1>8. f[{}] = <<>>
  BY <1>7
<1>9. ASSUME NEW t \in SUBSET (1 .. n), t # {}, f[t \ {Max(t)}] \in A
      PROVE  f[t] = H[<<f[t \ {Max(t)}], s[Max(t)]>>]
  <2>1. f[t] = Insert(f[t \ {Max(t)}], s[Max(t)])
    BY <1>7, <1>9
  <2>2. s[Max(t)] \in Entry
    BY <1>1, <1>5, <1>9
  <2> QED BY <1>3, <1>9, <2>1, <2>2
<1>10. PICK G \in [0 .. n -> A] :
         /\ G[0] = <<>>
         /\ \A k \in 1 .. n : G[k] = H[<<G[k - 1], s[k]>>]
         /\ f[1 .. n] = G[n]
  <2>1. FoldsWithin(f, A, H, n, s)
    BY <1>9 DEF FoldsWithin
  <2>2. H \in [A \X Entry -> A]
    BY <1>3
  <2>3. LoopReturns(f[1 .. n], A, H, <<>>, n, s)
    BY <1>1, <1>8, <2>1, <2>2, FoldRounds
  <2> QED BY <2>3 DEF LoopReturns
<1>11. ASSUME NEW k \in 1 .. n PROVE G[k] = Insert(G[k - 1], s[k])
  <2>1. k - 1 \in 0 .. n
    BY <1>1
  <2>2. G[k - 1] \in A /\ s[k] \in Entry
    BY <1>1, <1>10, <2>1
  <2> QED BY <1>3, <1>10, <2>2
<1> QED BY <1>2, <1>10, <1>11 DEF n, A

\* After k of a sorted list's entries the sort has the dated ones in their
\* order and, after those, the undated ones backwards.
Backwards(s, k) ==
  LET d == Cardinality(Dated(s))
  IN  [i \in 1 .. k |-> IF i <= d THEN s[i] ELSE s[k + d + 1 - i]]

LEMMA BackwardsStep ==
  ASSUME NEW s \in Seq(Entry), Sorted(s), NEW k \in 1 .. Len(s)
  PROVE  Insert(Backwards(s, k - 1), s[k]) = Backwards(s, k)
<1> DEFINE n == Len(s)
           d == Cardinality(Dated(s))
           b == Backwards(s, k - 1)
           x == s[k]
           p == IF k <= d THEN k - 1 ELSE d
<1>1. n \in Nat /\ DOMAIN s = 1 .. n /\ k \in 1 .. n /\ \A i \in 1 .. n : s[i] \in Entry
  OBVIOUS
<1>2. d \in 0 .. n /\ Dated(s) = 1 .. d
  BY <1>1, SortedCounts
<1>3. b = [i \in 1 .. k - 1 |-> IF i <= d THEN s[i] ELSE s[(k - 1) + d + 1 - i]]
  BY DEF Backwards
<1>4. Backwards(s, k) = [i \in 1 .. k |-> IF i <= d THEN s[i] ELSE s[k + d + 1 - i]]
  BY DEF Backwards
<1>5. \A i \in 1 .. n : ~Undated(s[i]) <=> i <= d
  BY <1>1, <1>2 DEF Dated
<1> HIDE DEF d, n
<1>6. /\ b \in Seq(Entry) /\ Len(b) = k - 1 /\ x \in Entry /\ p \in 0 .. Len(b)
      /\ \A i \in 1 .. k - 1 : i <= d => b[i] = s[i]
      /\ \A i \in 1 .. k - 1 : i > d => b[i] = s[k + d - i] /\ k + d - i \in d + 1 .. n
  <2>1. \A i \in 1 .. k - 1 :
          b[i] \in Entry /\ (i <= d => b[i] = s[i])
            /\ (i > d => b[i] = s[k + d - i] /\ k + d - i \in d + 1 .. n)
    BY <1>1, <1>2, <1>3
  <2>2. k - 1 \in Nat
    BY <1>1
  <2>3. b \in Seq(Entry) /\ Len(b) = k - 1
    BY <1>3, <2>1, <2>2
  <2> QED BY <1>1, <1>2, <2>1, <2>3
<1> HIDE DEF b
<1>7. {i \in DOMAIN b : ~Less(b[i], x)} = 1 .. p
  <2>1. ASSUME NEW i \in 1 .. k - 1 PROVE ~Less(b[i], x) <=> i <= p
    <3>1. CASE k <= d
      <4>1. ~Undated(x) /\ i < k /\ i \in 1 .. n /\ i <= p /\ b[i] = s[i]
        BY <1>1, <1>2, <1>5, <1>6, <3>1
      <4>2. ~Less(s[i], s[k])
        BY <1>1, <4>1 DEF Sorted
      <4> QED BY <4>1, <4>2
    <3>2. CASE k > d
      <4>1. Undated(x)
        BY <1>1, <1>2, <1>5, <3>2
      <4>2. ~Less(b[i], x) <=> ~Undated(b[i])
        BY <4>1 DEF Less
      <4>3. CASE i <= d
        BY <1>1, <1>2, <1>5, <1>6, <3>2, <4>2, <4>3
      <4>4. CASE i > d
        <5>1. Undated(b[i])
          BY <1>1, <1>2, <1>5, <1>6, <4>4
        <5>2. ~(i <= p)
          BY <1>1, <1>2, <3>2, <4>4
        <5> QED BY <4>2, <5>1, <5>2
      <4> QED BY <1>2, <4>3, <4>4
    <3> QED BY <1>1, <1>2, <3>1, <3>2
  <2> HIDE DEF p
  <2>2. DOMAIN b = 1 .. k - 1 /\ p \in 0 .. k - 1
    BY <1>1, <1>6
  <2> QED BY <1>1, <2>1, <2>2
<1>8. Insert(b, x) = [i \in 1 .. Len(b) + 1 |->
                       IF i <= p THEN b[i] ELSE IF i = p + 1 THEN x ELSE b[i - 1]]
  <2> HIDE DEF p, x
  <2> QED BY <1>6, <1>7, InsertedAt
<1>9. Len(b) + 1 = k
  BY <1>1, <1>6
<1>10. ASSUME NEW i \in 1 .. k
       PROVE  (IF i <= p THEN b[i] ELSE IF i = p + 1 THEN x ELSE b[i - 1])
                = IF i <= d THEN s[i] ELSE s[k + d + 1 - i]
  <2>1. CASE k <= d
    BY <1>1, <1>2, <1>6, <2>1
  <2>2. CASE k > d /\ i <= d
    BY <1>1, <1>2, <1>6, <2>2
  <2>3. CASE k > d /\ i = d + 1
    <3>1. k + d + 1 - i = k
      BY <1>1, <1>2, <2>3
    <3> QED BY <1>1, <1>2, <2>3, <3>1
  <2>4. CASE k > d /\ i > d + 1
    <3>1. i - 1 \in 1 .. k - 1 /\ i - 1 > d /\ k + d - (i - 1) = k + d + 1 - i
      BY <1>1, <1>2, <2>4
    <3>2. b[i - 1] = s[k + d + 1 - i]
      BY <1>6, <3>1
    <3> QED BY <1>1, <1>2, <2>4, <3>2
  <2> QED BY <1>1, <1>2, <2>1, <2>2, <2>3, <2>4
<1> QED BY <1>4, <1>8, <1>9, <1>10 DEF b, x

\* The closed form is the sort: of a sorted list and one entry after it.
LEMMA SortIsInsertion ==
  ASSUME NEW front \in Seq(Entry), Sorted(front), NEW x \in Entry
  PROVE  InsertionSort(Append(front, x)) = SortLast(front, x)
<1> DEFINE s == Append(front, x)
           n == Len(front)
           d == Cardinality(Dated(front))
           p == Cardinality({k \in DOMAIN front : ~Less(front[k], x)})
           b == Backwards(front, n)
<1>1. /\ n \in Nat /\ s \in Seq(Entry) /\ Len(s) = n + 1 /\ s[n + 1] = x
      /\ \A k \in 1 .. n : s[k] = front[k] /\ front[k] \in Entry
      /\ DOMAIN front = 1 .. n
  OBVIOUS
<1>2. /\ d \in 0 .. n /\ Dated(front) = 1 .. d
      /\ p \in 0 .. d /\ {k \in 1 .. n : ~Less(front[k], x)} = 1 .. p
  BY <1>1, SortedCounts
<1>3. SortLast(front, x) =
        [k \in 1 .. n + 1 |->
          CASE k <= p                 -> front[k]
            [] k = p + 1              -> x
            [] k > p + 1 /\ k <= d + 1 -> front[k - 1]
            [] OTHER                  -> front[n + d + 2 - k]]
  BY DEF SortLast
<1>4. b = [i \in 1 .. n |-> IF i <= d THEN front[i] ELSE front[n + d + 1 - i]]
  BY DEF Backwards
<1>5. \A i \in 1 .. n : ~Undated(front[i]) <=> i <= d
  BY <1>1, <1>2 DEF Dated
<1>6. \A i \in 1 .. n : ~Less(front[i], x) <=> i <= p
  BY <1>1, <1>2
<1> HIDE DEF s, n, d, p
<1>7. PICK G \in [0 .. n + 1 -> Seq(Entry)] :
        /\ G[0] = <<>>
        /\ \A k \in 1 .. n + 1 : G[k] = Insert(G[k - 1], s[k])
        /\ InsertionSort(s) = G[n + 1]
  BY <1>1, SortByInsertion
<1>8. G[n] = b
  <2> DEFINE T == {k \in 0 .. n : G[k] = Backwards(front, k)}
  <2>1. 0 \in T
    <3>1. Backwards(front, 0) = <<>>
      BY DEF Backwards
    <3> QED BY <1>1, <1>7, <3>1
  <2>2. ASSUME NEW k \in 0 .. n, k \in T, k < n PROVE k + 1 \in T
    <3>1. k + 1 \in 1 .. n /\ k + 1 \in 1 .. n + 1 /\ (k + 1) - 1 = k
      BY <1>1, <2>2
    <3>5. G[k + 1] = Insert(G[(k + 1) - 1], s[k + 1]) /\ s[k + 1] = front[k + 1]
      BY <1>1, <1>7, <3>1
    <3>2. Insert(Backwards(front, (k + 1) - 1), front[k + 1]) = Backwards(front, k + 1)
      <4>1. k + 1 \in 1 .. Len(front)
        BY <3>1 DEF n
      <4> QED BY <4>1, BackwardsStep
    <3>3. G[k + 1] = Backwards(front, k + 1)
      BY <2>2, <3>1, <3>2, <3>5
    <3>4. k + 1 \in 0 .. n
      BY <1>1, <3>1
    <3> QED BY <3>3, <3>4
  <2> HIDE DEF T
  <2>3. \A k \in 0 .. n : k \in T
    BY <1>1, <2>1, <2>2, Induction
  <2>4. n \in 0 .. n
    BY <1>1
  <2> QED BY <2>3, <2>4 DEF T
<1>9. InsertionSort(s) = Insert(b, x)
  <2>1. n + 1 \in 1 .. n + 1 /\ (n + 1) - 1 = n
    BY <1>1
  <2>2. G[n + 1] = Insert(G[n], s[n + 1])
    BY <1>7, <2>1
  <2> QED BY <1>1, <1>7, <1>8, <2>2
<1>10. /\ b \in Seq(Entry) /\ Len(b) = n
       /\ \A i \in 1 .. n : i <= d => b[i] = front[i]
       /\ \A i \in 1 .. n : i > d => b[i] = front[n + d + 1 - i] /\ n + d + 1 - i \in d + 1 .. n
  <2>1. \A i \in 1 .. n :
          b[i] \in Entry /\ (i <= d => b[i] = front[i])
            /\ (i > d => b[i] = front[n + d + 1 - i] /\ n + d + 1 - i \in d + 1 .. n)
    BY <1>1, <1>2, <1>4
  <2>3. b = [i \in 1 .. n |-> b[i]]
    BY <1>4
  <2> HIDE DEF b
  <2>2. b \in Seq(Entry) /\ Len(b) = n
    BY <1>1, <2>1, <2>3, ListOf
  <2> QED BY <2>1, <2>2
<1> HIDE DEF b
<1>11. {i \in DOMAIN b : ~Less(b[i], x)} = 1 .. p
  <2>1. ASSUME NEW i \in 1 .. n PROVE ~Less(b[i], x) <=> i <= p
    <3>1. CASE i <= d
      BY <1>6, <1>10, <3>1
    <3>2. CASE i > d
      <4>1. Undated(b[i])
        BY <1>1, <1>2, <1>5, <1>10, <3>2
      <4>2. Less(b[i], x)
        BY <4>1 DEF Less
      <4>3. ~(i <= p)
        BY <1>1, <1>2, <3>2
      <4> QED BY <4>2, <4>3
    <3> QED BY <1>1, <1>2, <3>1, <3>2
  <2>2. DOMAIN b = 1 .. n /\ p \in 0 .. n
    BY <1>1, <1>2, <1>10
  <2> QED BY <1>1, <2>1, <2>2
<1>12. Insert(b, x) = [i \in 1 .. n + 1 |->
                        IF i <= p THEN b[i] ELSE IF i = p + 1 THEN x ELSE b[i - 1]]
  <2>1. p \in 0 .. Len(b)
    BY <1>1, <1>2, <1>10
  <2> QED BY <1>10, <1>11, <2>1, InsertedAt
<1>13. ASSUME NEW k \in 1 .. n + 1
       PROVE  (IF k <= p THEN b[k] ELSE IF k = p + 1 THEN x ELSE b[k - 1])
                = CASE k <= p                 -> front[k]
                    [] k = p + 1              -> x
                    [] k > p + 1 /\ k <= d + 1 -> front[k - 1]
                    [] OTHER                  -> front[n + d + 2 - k]
  <2>1. CASE k <= p
    BY <1>1, <1>2, <1>10, <2>1
  <2>2. CASE k = p + 1
    BY <1>1, <1>2, <2>2
  <2>3. CASE k > p + 1 /\ k <= d + 1
    <3>1. k - 1 \in 1 .. n /\ k - 1 <= d
      BY <1>1, <1>2, <2>3
    <3> QED BY <1>1, <1>2, <1>10, <2>3, <3>1
  <2>4. CASE k > d + 1
    <3>1. k - 1 \in 1 .. n /\ k - 1 > d /\ n + d + 1 - (k - 1) = n + d + 2 - k /\ k > p + 1
      BY <1>1, <1>2, <2>4
    <3>2. b[k - 1] = front[n + d + 2 - k]
      BY <1>10, <3>1
    <3>3. ~(k <= p) /\ k # p + 1 /\ ~(k > p + 1 /\ k <= d + 1)
      BY <1>1, <1>2, <2>4, <3>1
    <3> QED BY <3>2, <3>3, Zenon
  <2>5. k <= p \/ k = p + 1 \/ (k > p + 1 /\ k <= d + 1) \/ k > d + 1
    BY <1>1, <1>2
  <2> QED BY <2>1, <2>2, <2>3, <2>4, <2>5, Zenon
<1>14. InsertionSort(s) = SortLast(front, x)
  BY <1>3, <1>9, <1>12, <1>13
<1> QED BY <1>14 DEF s


\* The lists MCScheduleList builds: they are sorted, as any list is that the
\* operator's calls build from the empty one.
ListInv == list \in Seq(Entry) /\ Sorted(list)

LEMMA ListBuilt == Spec => []ListInv
<1>1. Init => ListInv
  BY DEF Init, ListInv, Sorted
<1>2. ASSUME ListInv, [Next]_vars PROVE ListInv'
  <2>1. CASE Reserve
    <3>1. PICK n \in 1 .. MaxName : list' = AddEmpty(list, n)
      BY <2>1 DEF Reserve
    <3>2. n \in Nat
      BY BoundsAssumption
    <3> QED BY <1>2, <3>1, <3>2, AddEmptyNames, AddEmptySorted DEF ListInv
  <2>2. CASE Confirm
    <3>1. PICK t \in 0 .. MaxStamp : list' = UpdateEmpty(list, t)
      BY <2>2 DEF Confirm
    <3>2. t \in Nat
      BY BoundsAssumption
    <3>3. list # <<>>
      BY <2>2, Zenon DEF Confirm, HasQueued
    <3> QED BY <1>2, <3>1, <3>2, <3>3, UpdateEmptyNames, UpdateEmptySorted DEF ListInv
  <2>3. CASE Retire
    <3>1. HasPrevious(list) /\ list' = MarkPreviousDeleted(list)
      BY <2>3 DEF Retire
    <3> QED BY <1>2, <3>1, MarkNames, MarkSorted DEF ListInv
  <2>4. CASE UNCHANGED list
    BY <1>2, <2>4 DEF ListInv
  <2> QED BY <1>2, <2>1, <2>2, <2>3, <2>4 DEF Next, vars
<1> QED BY <1>1, <1>2, PTL DEF Spec

\* An entry recorded as created replaces the one that was reserved.
LEMMA LastReplaced ==
  ASSUME NEW s \in Seq(Entry), s # <<>>, NEW t \in Nat
  PROVE  [s EXCEPT ![Len(s)].created = t, ![Len(s)].status = "Active"]
           = Append(Front(s), [Last(s) EXCEPT !.created = t, !.status = "Active"])
<1> DEFINE n == Len(s)
           x == [Last(s) EXCEPT !.created = t, !.status = "Active"]
           r == [s EXCEPT ![n].created = t, ![n].status = "Active"]
<1>1. n \in Nat \ {0} /\ s = [k \in 1 .. n |-> s[k]] /\ DOMAIN s = 1 .. n
  OBVIOUS
<1>2. Front(s) = [k \in 1 .. n - 1 |-> s[k]] /\ Front(s) \in Seq(Entry) /\ Len(Front(s)) = n - 1
  BY FrontAndLast DEF Front
<1>3. Last(s) = s[n] /\ s[n] \in Entry
  BY <1>1 DEF Last
<1>4. r = [k \in 1 .. n |-> IF k = n THEN x ELSE s[k]]
  BY <1>1, <1>3 DEF Entry
<1> DEFINE f == Front(s)
<1>5. f \in Seq(Entry) /\ Len(f) = n - 1 /\ \A k \in 1 .. n - 1 : f[k] = s[k]
  BY <1>1, <1>2
<1>6. x \in Entry
  BY <1>3 DEF Entry, ScheduleStatus
<1> HIDE DEF x, r, n, f
<1> DEFINE a == Append(f, x)
<1>7. a = [k \in 1 .. n |-> IF k = n THEN x ELSE s[k]]
  <2>1. Len(a) = n /\ a \in Seq(Entry)
    BY <1>1, <1>5, <1>6
  <2>2. ASSUME NEW k \in 1 .. n PROVE a[k] = IF k = n THEN x ELSE s[k]
    <3>1. CASE k = n
      BY <1>1, <1>5, <1>6, <3>1
    <3>2. CASE k # n
      <4>1. k \in 1 .. n - 1
        BY <1>1, <3>2
      <4>2. a[k] = f[k]
        <5>1. k \in 1 .. Len(f)
          BY <1>5, <4>1
        <5> QED BY <1>5, <1>6, <5>1
      <4>3. f[k] = s[k]
        BY <1>5, <4>1
      <4> QED BY <3>2, <4>2, <4>3
    <3> QED BY <3>1, <3>2
  <2> HIDE DEF a
  <2> QED BY <1>1, <2>1, <2>2
<1>8. r = a
  BY <1>4, <1>7
<1> QED BY <1>8 DEF r, a, x, n, f

\* The closed form of the sort is Go's, on every list the operator's calls
\* build and whatever name or timestamp the next call has.
THEOREM SortedAsGo == Spec => []SortsAsGo
<1>1. ListInv => SortsAsGo
  <2> SUFFICES ASSUME ListInv PROVE SortsAsGo
    OBVIOUS
  <2>1. ASSUME NEW n \in 1 .. MaxName
        PROVE  AddEmpty(list, n)
                 = InsertionSort(Append(list, [name |-> n, created |-> 0, status |-> ""]))
    <3> DEFINE x == [name |-> n, created |-> 0, status |-> ""]
    <3>1. n \in Nat
      BY BoundsAssumption
    <3>2. x \in Entry
      BY <3>1 DEF Entry, ScheduleStatus
    <3>3. AddEmpty(list, n) = SortLast(list, x)
      BY DEF AddEmpty
    <3> HIDE DEF x
    <3>4. AddEmpty(list, n) = InsertionSort(Append(list, x))
      BY <3>2, <3>3, SortIsInsertion DEF ListInv
    <3> QED BY <3>4, Zenon DEF x
  <2>2. ASSUME HasQueued(list), NEW t \in 0 .. MaxStamp
        PROVE  UpdateEmpty(list, t)
                 = InsertionSort([list EXCEPT ![Len(list)].created = t,
                                              ![Len(list)].status = "Active"])
    <3> DEFINE x == [Last(list) EXCEPT !.created = t, !.status = "Active"]
               r == [list EXCEPT ![Len(list)].created = t, ![Len(list)].status = "Active"]
    <3>7. list # <<>>
      BY <2>2, Zenon DEF HasQueued
    <3>1. t \in Nat /\ list # <<>> /\ list \in Seq(Entry)
      BY <3>7, BoundsAssumption DEF ListInv
    <3>2. Front(list) \in Seq(Entry) /\ Last(list) \in Entry
      BY <3>1, FrontAndLast
    <3>3. x \in Entry
      BY <3>1, <3>2 DEF Entry, ScheduleStatus
    <3>4. r = Append(Front(list), x)
      BY <3>1, LastReplaced
    <3>5. UpdateEmpty(list, t) = SortLast(Front(list), x)
      BY DEF UpdateEmpty
    <3> HIDE DEF x, r
    <3>6. UpdateEmpty(list, t) = InsertionSort(r)
      BY <3>1, <3>2, <3>3, <3>4, <3>5, FrontSorted, SortIsInsertion DEF ListInv
    <3> QED BY <3>6 DEF r
  <2> QED BY <2>1, <2>2, Zenon DEF SortsAsGo
<1> QED BY <1>1, ListBuilt, PTL


-----------------------------------------------------------------------------
(* The loop over the backups.                                              *)

\* One round of the loop of getBackupCleanupIdx.
CleanupStep(s, acc, k) ==
  IF ~Finished(s[k]) THEN acc
  ELSE [left |-> acc.left - 1,
        good |-> IF s[k].phase = "Completed" /\ acc.good = 0 THEN k ELSE acc.good,
        done |-> IF acc.left - 1 <= 0 /\ acc.done = 0 THEN k ELSE acc.done]

Accumulator == [left : Int, good : Nat, done : Nat]

\* The loop is its rounds, one after the other.
LEMMA CleanupByStep ==
  ASSUME NEW s \in Seq(Backup), NEW keep \in Nat
  PROVE  \E G \in [0 .. Len(s) -> Accumulator] :
           /\ G[0] = [left |-> keep, good |-> 0, done |-> 0]
           /\ \A k \in 1 .. Len(s) : G[k] = CleanupStep(s, G[k - 1], k)
           /\ CleanupIdx(s, keep) = G[Len(s)]
<1> DEFINE n == Len(s)
           A == Accumulator
           base == [left |-> keep, good |-> 0, done |-> 0]
           ids == [k \in 1 .. n |-> k]
           places == [k \in DOMAIN s |-> k]
           P(h) == h = [t \in SUBSET (DOMAIN places) |->
                         IF t = {} THEN base
                         ELSE CleanupStep(s, h[t \ {Max(t)}], places[Max(t)])]
           f == CHOOSE h : P(h)
           H == [ax \in A \X Nat |-> CleanupStep(s, ax[1], ax[2])]
<1>1. /\ n \in Nat /\ DOMAIN s = 1 .. n /\ base \in A
      /\ places = ids /\ DOMAIN ids = 1 .. n /\ ids \in [1 .. n -> Nat]
      /\ \A k \in 1 .. n : ids[k] = k
  BY DEF Accumulator
<1>2. CleanupIdx(s, keep) = f[1 .. n]
  <2>1. CleanupIdx(s, keep) = f[DOMAIN places]
    BY Zenon DEF CleanupIdx, FoldLeft, MapThenFoldSet, CleanupStep
  <2> QED BY <1>1, <2>1
<1>3. /\ H \in [A \X Nat -> A]
      /\ \A a \in A, k \in 1 .. n : H[<<a, k>>] = CleanupStep(s, a, k) /\ H[<<a, k>>] \in A
  <2>1. ASSUME NEW ax \in A \X Nat PROVE CleanupStep(s, ax[1], ax[2]) \in A
    <3>1. /\ ax[1].left \in Int /\ ax[1].good \in Nat /\ ax[1].done \in Nat /\ ax[2] \in Nat
          /\ ax[1] \in A
      BY DEF Accumulator
    <3> QED BY <3>1 DEF CleanupStep, Accumulator
  <2> HIDE DEF A, n
  <2>2. H \in [A \X Nat -> A]
    BY <2>1
  <2>3. ASSUME NEW a \in A, NEW k \in 1 .. n
        PROVE  H[<<a, k>>] = CleanupStep(s, a, k) /\ H[<<a, k>>] \in A
    <3>1. <<a, k>> \in A \X Nat
      BY <1>1
    <3> QED BY <2>2, <3>1
  <2> QED BY <2>2, <2>3
<1> HIDE DEF n, H, A, P, places, ids, base
<1>4. PICK g \in [SUBSET (1 .. n) -> A] : FoldsTo(g, base, H, n, ids)
  <2>1. H \in [A \X Nat -> A]
    BY <1>3
  <2> QED BY <1>1, <2>1, FoldExists
<1>5. \A t \in SUBSET (1 .. n) : t # {} => Max(t) \in 1 .. n /\ t \ {Max(t)} \in SUBSET (1 .. n)
  BY <1>1, LastOfPositions
<1>6. P(f)
  <2>1. ASSUME NEW t \in SUBSET (1 .. n), t # {}
        PROVE  g[t] = CleanupStep(s, g[t \ {Max(t)}], places[Max(t)])
    <3>1. g[t] = H[<<g[t \ {Max(t)}], ids[Max(t)]>>]
      BY <1>4, <2>1 DEF FoldsTo
    <3>2. g[t \ {Max(t)}] \in A /\ Max(t) \in 1 .. n /\ ids[Max(t)] = Max(t)
      BY <1>1, <1>5, <2>1
    <3> QED BY <1>1, <1>3, <3>1, <3>2
  <2>2. g = [t \in SUBSET (1 .. n) |->
              IF t = {} THEN base ELSE CleanupStep(s, g[t \ {Max(t)}], places[Max(t)])]
    BY <1>4, <2>1 DEF FoldsTo
  <2>3. P(g)
    BY <1>1, <2>2 DEF P
  <2> QED BY <2>3, Zenon
<1>7. f = [t \in SUBSET (1 .. n) |->
             IF t = {} THEN base ELSE CleanupStep(s, f[t \ {Max(t)}], places[Max(t)])]
  BY <1>1, <1>6 DEF P
<1> HIDE DEF f
<1>8. f[{}] = base
  BY <1>7
<1>9. ASSUME NEW t \in SUBSET (1 .. n), t # {}, f[t \ {Max(t)}] \in A
      PROVE  f[t] = H[<<f[t \ {Max(t)}], ids[Max(t)]>>]
  <2>1. f[t] = CleanupStep(s, f[t \ {Max(t)}], places[Max(t)])
    BY <1>7, <1>9
  <2>2. Max(t) \in 1 .. n /\ places[Max(t)] = Max(t) /\ ids[Max(t)] = Max(t)
    BY <1>1, <1>5, <1>9
  <2> QED BY <1>3, <1>9, <2>1, <2>2
<1>10. PICK G \in [0 .. n -> A] :
         /\ G[0] = base
         /\ \A k \in 1 .. n : G[k] = H[<<G[k - 1], ids[k]>>]
         /\ f[1 .. n] = G[n]
  <2>1. FoldsWithin(f, A, H, n, ids)
    BY <1>9 DEF FoldsWithin
  <2>2. H \in [A \X Nat -> A]
    BY <1>3
  <2>3. LoopReturns(f[1 .. n], A, H, base, n, ids)
    BY <1>1, <1>8, <2>1, <2>2, FoldRounds
  <2> QED BY <2>3 DEF LoopReturns
<1>11. ASSUME NEW k \in 1 .. n PROVE G[k] = CleanupStep(s, G[k - 1], k)
  <2>1. k - 1 \in 0 .. n
    BY <1>1
  <2>2. G[k - 1] \in A /\ ids[k] = k
    BY <1>1, <1>10, <2>1
  <2> QED BY <1>3, <1>10, <2>2
<1> QED BY <1>2, <1>10, <1>11 DEF n, A, base


\* The finished ones of the first k of a list of backups.
FinishedOf(s, k) == {s[j] : j \in {i \in 1 .. k : Finished(s[i])}}

LEMMA FinishedStep ==
  ASSUME NEW s \in Seq(Backup), \A i, j \in 1 .. Len(s) : s[i] = s[j] => i = j,
         NEW k \in 1 .. Len(s), IsFiniteSet(FinishedOf(s, k - 1))
  PROVE  /\ IsFiniteSet(FinishedOf(s, k))
         /\ Finished(s[k]) =>
              Cardinality(FinishedOf(s, k)) = Cardinality(FinishedOf(s, k - 1)) + 1
         /\ ~Finished(s[k]) => FinishedOf(s, k) = FinishedOf(s, k - 1)
<1> DEFINE F == FinishedOf(s, k - 1)
<1>1. k \in Nat /\ Len(s) \in Nat /\ k <= Len(s)
  OBVIOUS
<1>2. \A i \in 1 .. k : i \in 1 .. k - 1 \/ i = k
  BY <1>1
<1>3. 1 .. k - 1 \subseteq 1 .. k /\ k \in 1 .. k
  BY <1>1
<1>4. CASE Finished(s[k])
  <2>1. FinishedOf(s, k) = F \union {s[k]}
    BY <1>2, <1>3, <1>4 DEF FinishedOf
  <2>2. s[k] \notin F
    <3>1. \A j \in 1 .. k - 1 : j \in 1 .. Len(s) /\ j # k
      BY <1>1
    <3> QED BY <3>1 DEF FinishedOf
  <2> HIDE DEF F
  <2>3. IsFiniteSet(F)
    BY DEF F
  <2>4. IsFiniteSet(F \union {s[k]}) /\ Cardinality(F \union {s[k]}) = Cardinality(F) + 1
    BY <2>2, <2>3, FS_AddElement
  <2> QED BY <1>4, <2>1, <2>4 DEF F
<1>5. CASE ~Finished(s[k])
  <2>1. FinishedOf(s, k) = F
    BY <1>2, <1>3, <1>5 DEF FinishedOf
  <2> QED BY <1>5, <2>1
<1> QED BY <1>4, <1>5

\* What the loop finds: done is the first place with keep finished backups up
\* to it, good the first place of a successful one; 0 stands for none.
Located(s, keep, acc, k) ==
  LET c == Cardinality(FinishedOf(s, k))
  IN  /\ c >= keep <=> acc.done # 0 /\ acc.done <= k
      /\ (\E j \in 1 .. k : s[j].phase = "Completed") <=> acc.good # 0 /\ acc.good <= k

LEMMA CleanupLocates ==
  ASSUME NEW s \in Seq(Backup), \A i, j \in 1 .. Len(s) : s[i] = s[j] => i = j,
         NEW keep \in Nat, keep > 0
  PROVE  LET idx == CleanupIdx(s, keep)
         IN  /\ idx.done \in 0 .. Len(s) /\ idx.good \in 0 .. Len(s)
             /\ \A k \in 0 .. Len(s) : Located(s, keep, idx, k)
             /\ Cardinality(FinishedOf(s, Len(s))) \in 0 .. Len(s)
<1> DEFINE n == Len(s)
           c(k) == Cardinality(FinishedOf(s, k))
<1>1. n \in Nat /\ \A k \in 1 .. n : s[k] \in Backup
  OBVIOUS
<1>2. PICK G \in [0 .. n -> Accumulator] :
        /\ G[0] = [left |-> keep, good |-> 0, done |-> 0]
        /\ \A k \in 1 .. n : G[k] = CleanupStep(s, G[k - 1], k)
        /\ CleanupIdx(s, keep) = G[n]
  BY CleanupByStep
<1> DEFINE Good(m) ==
             /\ IsFiniteSet(FinishedOf(s, m))
             /\ G[m].left = keep - c(m) /\ c(m) \in 0 .. m
             /\ G[m].done \in 0 .. m /\ G[m].good \in 0 .. m
             /\ \A k \in 0 .. m : Located(s, keep, G[m], k)
           T == {m \in 0 .. n : Good(m)}
<1> HIDE DEF n
<1>3. 0 \in T
  <2>1. FinishedOf(s, 0) = {} /\ 1 .. 0 = {}
    BY DEF FinishedOf
  <2>2. IsFiniteSet(FinishedOf(s, 0)) /\ c(0) = 0
    BY <2>1, FS_EmptySet
  <2>3. G[0].left = keep /\ G[0].done = 0 /\ G[0].good = 0
    BY <1>2
  <2>4. Located(s, keep, G[0], 0)
    BY <2>1, <2>2, <2>3 DEF Located
  <2>5. 0 .. 0 = {0} /\ 0 \in 0 .. n
    BY <1>1
  <2> QED BY <2>2, <2>3, <2>4, <2>5
<1>4. ASSUME NEW m \in 0 .. n, m \in T, m < n PROVE m + 1 \in T
  <2> DEFINE q == m + 1
             a == G[m]
             b == G[q]
  <2>1. q \in 1 .. n /\ q \in 0 .. n /\ q - 1 = m /\ m \in Nat
    BY <1>1, <1>4
  <2>2. Good(m) /\ a \in Accumulator /\ b \in Accumulator /\ b = CleanupStep(s, a, q)
    BY <1>2, <1>4, <2>1
  <2>3. /\ IsFiniteSet(FinishedOf(s, q))
        /\ Finished(s[q]) => c(q) = c(m) + 1
        /\ ~Finished(s[q]) => FinishedOf(s, q) = FinishedOf(s, m)
    BY <2>1, <2>2, FinishedStep DEF n
  <2>4. c(m) \in Nat /\ c(q) \in Nat
    BY <2>2, <2>3, FS_CardinalityType
  <2>5. \A k \in 0 .. m : Located(s, keep, a, k)
    BY <2>2
  <2>6. /\ a.left = keep - c(m) /\ a.done \in 0 .. m /\ a.good \in 0 .. m
        /\ c(m) \in 0 .. m
        /\ c(m) >= keep <=> a.done # 0
        /\ (\E j \in 1 .. m : s[j].phase = "Completed") <=> a.good # 0
    BY <2>1, <2>2 DEF Located
  <2>7. \A j \in 1 .. q : j \in 1 .. m \/ j = q
    BY <2>1
  <2>8. 1 .. m \subseteq 1 .. q /\ q \in 1 .. q /\ \A k \in 0 .. q : k \in 0 .. m \/ k = q
    BY <2>1
  <2>9. CASE ~Finished(s[q])
    <3>1. b = a /\ s[q].phase # "Completed" /\ c(q) = c(m)
      BY <2>2, <2>3, <2>9 DEF CleanupStep, Finished
    <3>3. c(q) \in 0 .. q
      BY <2>1, <2>6, <3>1
    <3> HIDE DEF q, b, a, c
    <3>2. Located(s, keep, b, q)
      BY <2>1, <2>6, <2>7, <2>8, <3>1 DEF Located, c
    <3> QED BY <2>1, <2>3, <2>5, <2>6, <2>8, <3>1, <3>2, <3>3 DEF q, b, a
  <2>10. CASE Finished(s[q])
    <3>1. /\ b.left = a.left - 1
          /\ b.good = IF s[q].phase = "Completed" /\ a.good = 0 THEN q ELSE a.good
          /\ b.done = IF a.left - 1 <= 0 /\ a.done = 0 THEN q ELSE a.done
      BY <2>2, <2>10 DEF CleanupStep, Accumulator
    <3>2. c(q) = c(m) + 1
      BY <2>3, <2>10
    <3>3. a.left \in Int /\ a.left - 1 = keep - c(q)
      <4>1. a.left = keep - c(m) /\ c(m) \in Nat /\ keep \in Nat
        BY <2>4, <2>6
      <4> HIDE DEF c, a
      <4> QED BY ONLY <3>2, <4>1
    <3>4. a.left - 1 <= 0 <=> c(q) >= keep
      BY <2>4, <3>3
    <3> HIDE DEF q, b, a, c
    <3>5. /\ b.left = keep - c(q) /\ c(q) \in 0 .. q
          /\ b.done \in 0 .. q /\ b.good \in 0 .. q
      BY <2>1, <2>6, <3>1, <3>2, <3>3
    <3>6. Located(s, keep, b, q)
      <4>1. c(q) >= keep <=> b.done # 0 /\ b.done <= q
        BY <2>1, <2>4, <2>6, <3>1, <3>2, <3>4, <3>5
      <4>2. (\E j \in 1 .. q : s[j].phase = "Completed") <=> b.good # 0 /\ b.good <= q
        BY <2>1, <2>6, <2>7, <2>8, <3>1, <3>5
      <4> QED BY <4>1, <4>2 DEF Located, c
    <3>7. ASSUME NEW k \in 0 .. m PROVE Located(s, keep, b, k)
      <4>1. (a.done # 0 /\ a.done <= k) <=> (b.done # 0 /\ b.done <= k)
        <5>1. k < q
          BY <2>1
        <5> QED BY <2>1, <2>6, <3>1, <5>1
      <4>2. (a.good # 0 /\ a.good <= k) <=> (b.good # 0 /\ b.good <= k)
        <5>1. k < q
          BY <2>1
        <5> QED BY <2>1, <2>6, <3>1, <5>1
      <4> QED BY <2>5, <4>1, <4>2 DEF Located
    <3> QED BY <2>1, <2>3, <2>8, <3>5, <3>6, <3>7 DEF q, b
  <2> QED BY <2>9, <2>10
<1> HIDE DEF T
<1>5. \A m \in 0 .. n : m \in T
  BY <1>1, <1>3, <1>4, Induction
<1>6. Good(n)
  BY <1>1, <1>5 DEF T
<1> QED BY <1>2, <1>6 DEF n


\* The loop, over the schedule's backups newest first, and the closed form
\* agree on what is past the retained and the successful one.
LEMMA SurplusIsLoop ==
  ASSUME NEW s, s # <<>>, s[1].status = "Active",
         NEW h \in Seq(Backup), NEW keep \in Nat, keep > 0, NEW check \in BOOLEAN,
         \A k \in 1 .. Len(h) : h[k].sched = s[1].name,
         \A i, j \in 1 .. Len(h) : i < j => h[i].id < h[j].id
  PROVE  SurplusBackups(s, keep, check, Range(h)) = LoopSurplus(Reverse(h), keep, check)
<1> DEFINE n == Len(h)
           r == Reverse(h)
           own == BackupsOf(Range(h), s[1].name)
           newer(b) == {c \in own : c.id > b.id}
           idx == CleanupIdx(r, keep)
           last == IF check THEN Max({idx.done, idx.good}) ELSE idx.done
           Past(b) == /\ Cardinality({c \in newer(b) : Finished(c)}) >= keep
                      /\ check => \E c \in newer(b) : c.phase = "Completed"
<1>1. n \in Nat /\ DOMAIN h = 1 .. n /\ \A k \in 1 .. n : h[k] \in Backup /\ h[k].id \in Nat
  <2>1. \A b \in Backup : b.id \in Nat
    BY DEF Backup
  <2> QED BY <2>1
<1>2. r = [i \in 1 .. n |-> h[(n - i) + 1]]
  BY DEF Reverse
<1>3. /\ r \in Seq(Backup) /\ Len(r) = n
      /\ \A k \in 1 .. n : r[k] \in Backup /\ r[k].id \in Nat /\ r[k].sched = s[1].name
      /\ \A i, j \in 1 .. n : i < j => r[j].id < r[i].id
  <2> HIDE DEF r, n
  <2>1. \A k \in 1 .. n : (n - k) + 1 \in 1 .. n
    BY <1>1
  <2>2. \A k \in 1 .. n : r[k] \in Backup /\ r[k].id \in Nat /\ r[k].sched = s[1].name
    BY <1>1, <1>2, <2>1 DEF n
  <2>3. r \in Seq(Backup) /\ Len(r) = n
    BY <1>1, <1>2, <2>2
  <2>4. ASSUME NEW i \in 1 .. n, NEW j \in 1 .. n, i < j PROVE r[j].id < r[i].id
    <3>1. (n - j) + 1 < (n - i) + 1
      BY <1>1, <2>4
    <3> QED BY <1>2, <2>1, <3>1 DEF n
  <2> QED BY <2>2, <2>3, <2>4
<1>4. own = {r[k] : k \in 1 .. n}
  <2>1. own = {h[k] : k \in 1 .. n}
    BY <1>1 DEF BackupsOf, Range
  <2>2. \A k \in 1 .. n : (n - k) + 1 \in 1 .. n /\ (n - ((n - k) + 1)) + 1 = k
    BY <1>1
  <2> HIDE DEF own, r, n
  <2>3. \A k \in 1 .. n : r[k] = h[(n - k) + 1] /\ r[(n - k) + 1] = h[k]
    BY <1>2, <2>2
  <2> QED BY <2>1, <2>2, <2>3
<1>5. /\ idx.done \in 0 .. n /\ idx.good \in 0 .. n
      /\ \A k \in 0 .. n : Located(r, keep, idx, k)
      /\ Cardinality(FinishedOf(r, n)) \in 0 .. n
  <2> HIDE DEF r, n
  <2>1. \A i, j \in 1 .. n : r[i] = r[j] => i = j
    <3> SUFFICES ASSUME NEW i \in 1 .. n, NEW j \in 1 .. n, i # j PROVE r[i] # r[j]
      OBVIOUS
    <3>1. i < j \/ j < i
      BY <1>1
    <3>2. r[i].id # r[j].id
      BY <1>3, <3>1
    <3> QED BY <3>2
  <2> QED BY <1>3, <2>1, CleanupLocates
<1>6. SurplusBackups(s, keep, check, Range(h)) = {b \in own : Past(b)}
  BY DEF SurplusBackups
<1>7. LoopSurplus(r, keep, check) =
        IF n < keep \/ idx.done = 0 \/ (check /\ idx.good = 0)
        THEN {} ELSE {r[k] : k \in last + 1 .. n}
  BY <1>3 DEF LoopSurplus
<1> HIDE DEF n, r, own, idx
<1>8. ASSUME NEW k \in 1 .. n
      PROVE  Past(r[k]) <=> /\ idx.done # 0 /\ idx.done <= k - 1
                            /\ check => idx.good # 0 /\ idx.good <= k - 1
  <2>1. \A j \in 1 .. n : r[j].id > r[k].id <=> j \in 1 .. k - 1
    <3>1. \A j \in 1 .. n : j \in 1 .. k - 1 \/ j = k \/ k < j
      BY <1>1
    <3>2. \A j \in 1 .. n : j \in 1 .. k - 1 => j < k
      BY <1>1
    <3> QED BY <1>1, <1>3, <3>1, <3>2
  <2>2. 1 .. k - 1 \subseteq 1 .. n /\ k - 1 \in 0 .. n
    BY <1>1
  <2>3. newer(r[k]) = {r[j] : j \in 1 .. k - 1}
    BY <1>4, <2>1, <2>2
  <2>4. {c \in newer(r[k]) : Finished(c)} = FinishedOf(r, k - 1)
    BY <2>3 DEF FinishedOf
  <2>5. (\E c \in newer(r[k]) : c.phase = "Completed")
          <=> \E j \in 1 .. k - 1 : r[j].phase = "Completed"
    BY <2>3
  <2>6. Located(r, keep, idx, k - 1)
    BY <1>5, <2>2
  <2> QED BY <2>4, <2>5, <2>6 DEF Located
<1>9. CASE n < keep \/ idx.done = 0 \/ (check /\ idx.good = 0)
  <2>1. ASSUME n < keep PROVE idx.done = 0
    <3>1. Located(r, keep, idx, n) /\ ~(Cardinality(FinishedOf(r, n)) >= keep)
      BY <1>1, <1>5, <2>1
    <3>2. idx.done <= n
      BY <1>1, <1>5
    <3> QED BY <3>1, <3>2 DEF Located
  <2>2. \A k \in 1 .. n : ~Past(r[k])
    BY <1>8, <1>9, <2>1
  <2> QED BY <1>4, <1>6, <1>7, <1>9, <2>2 DEF r
<1>10. CASE ~(n < keep \/ idx.done = 0 \/ (check /\ idx.good = 0))
  <2> DEFINE t == {idx.done, idx.good}
             top == Max(t)
  <2>3. t \in SUBSET (0 .. n) /\ t # {} /\ idx.done \in t /\ idx.good \in t
    BY <1>5
  <2>4. top \in t /\ idx.done <= top /\ idx.good <= top
    <3> HIDE DEF t
    <3> QED BY <1>1, <2>3, MaxIsMember
  <2>5. top \in {idx.done, idx.good} /\ idx.done <= top /\ idx.good <= top
    BY <2>4
  <2>6. last = IF check THEN top ELSE idx.done
    OBVIOUS
  <2> HIDE DEF top, t, last, Past
  <2>7. last \in 0 .. n
    BY <1>5, <2>5, <2>6
  <2>1. ASSUME NEW k \in 1 .. n PROVE Past(r[k]) <=> k \in last + 1 .. n
    <3>1. k \in last + 1 .. n <=> last <= k - 1
      BY <1>1, <2>7
    <3>2. last <= k - 1 <=> idx.done <= k - 1 /\ (check => idx.good <= k - 1)
      BY <1>1, <1>5, <2>5, <2>6
    <3> QED BY <1>8, <1>10, <3>1, <3>2
  <2>8. \A k \in last + 1 .. n : k \in 1 .. n
    BY <1>1, <2>7
  <2>9. {b \in own : Past(b)} = {r[k] : k \in last + 1 .. n}
    BY <1>4, <2>1, <2>8
  <2> QED BY <1>6, <1>7, <1>10, <2>9 DEF r
<1> QED BY <1>9, <1>10


\* The backups cleanupNonPeriodicSchedule has deleted are those its loop finds,
\* for every history of backups and every retention threshold.
THEOREM SurplusFoundByLoop == Spec => []SurplusAsLoop
<1> DEFINE PhasesInv == phases \in Seq(BackupPhase)
<1>1. Init => PhasesInv
  BY DEF Init
<1>2. ASSUME PhasesInv, [Next]_vars PROVE PhasesInv'
  BY <1>2 DEF Next, MakeBackup, vars
<1>3. PhasesInv => SurplusAsLoop
  <2> SUFFICES ASSUME PhasesInv PROVE SurplusAsLoop
    OBVIOUS
  <2> DEFINE h == [k \in DOMAIN phases |-> [id |-> k, sched |-> 1, phase |-> phases[k]]]
             s == <<[name |-> 1, created |-> 1, status |-> "Active"]>>
  <2>1. s # <<>> /\ s[1].status = "Active" /\ s[1].name = 1
    OBVIOUS
  <2>2. /\ h \in Seq(Backup) /\ \A k \in 1 .. Len(h) : h[k].sched = 1
        /\ \A i, j \in 1 .. Len(h) : i < j => h[i].id < h[j].id
    <3> DEFINE n == Len(phases)
    <3>1. n \in Nat /\ DOMAIN phases = 1 .. n /\ \A k \in 1 .. n : phases[k] \in BackupPhase
      OBVIOUS
    <3> HIDE DEF n
    <3>2. h = [k \in 1 .. n |-> [id |-> k, sched |-> 1, phase |-> phases[k]]]
      BY <3>1
    <3>3. \A k \in 1 .. n : h[k] \in Backup /\ h[k].sched = 1 /\ h[k].id = k
      BY <3>1 DEF Backup
    <3> HIDE DEF h
    <3>4. h \in Seq(Backup) /\ Len(h) = n
      BY <3>1, <3>2, <3>3
    <3> QED BY <3>1, <3>3, <3>4
  <2> HIDE DEF h, s
  <2>3. ASSUME NEW keep \in 1 .. MaxLen, NEW check \in BOOLEAN
        PROVE  SurplusBackups(s, keep, check, Range(h)) = LoopSurplus(Reverse(h), keep, check)
    <3>1. keep \in Nat /\ keep > 0
      BY BoundsAssumption
    <3> QED BY <2>1, <2>2, <3>1, SurplusIsLoop
  <2> QED BY <2>3, Zenon DEF SurplusAsLoop, h, s
<1> QED BY <1>1, <1>2, <1>3, PTL DEF Spec


-----------------------------------------------------------------------------
(* The copy of an object.                                                  *)

\* The finalizers an object of the runs has: the operator's own, and another's.
Finalizers == {"dmaas", "other"}

\* The operator's own finalizer aside, no finalizer is added.
LEMMA OthersType ==
  ASSUME NEW s \in Seq(Finalizers)
  PROVE  Others(s) \in Seq(Finalizers) /\ Len(Others(s)) <= Len(s)
<1> DEFINE n == Len(s)
           A == Seq(Finalizers)
           Next1(kept, f) == IF f = "dmaas" THEN kept ELSE Append(kept, f)
           P(h) == h = [t \in SUBSET (DOMAIN s) |->
                         IF t = {} THEN <<>> ELSE Next1(h[t \ {Max(t)}], s[Max(t)])]
           f == CHOOSE h : P(h)
           H == [ax \in A \X Finalizers |-> Next1(ax[1], ax[2])]
<1>1. n \in Nat /\ DOMAIN s = 1 .. n /\ s \in [1 .. n -> Finalizers] /\ <<>> \in A
  OBVIOUS
<1>2. Others(s) = f[1 .. n]
  <2>1. Others(s) = f[DOMAIN s]
    BY Zenon DEF Others, FoldLeft, MapThenFoldSet
  <2> QED BY <1>1, <2>1
<1>3. H \in [A \X Finalizers -> A] /\ \A a \in A, x \in Finalizers : H[<<a, x>>] = Next1(a, x)
  <2>1. ASSUME NEW ax \in A \X Finalizers PROVE Next1(ax[1], ax[2]) \in A
    <3>1. ax[1] \in Seq(Finalizers) /\ ax[2] \in Finalizers
      OBVIOUS
    <3>2. Append(ax[1], ax[2]) \in Seq(Finalizers)
      BY ONLY <3>1
    <3> QED BY <3>1, <3>2, Zenon
  <2> QED BY <2>1
<1> HIDE DEF n, H, A, P
<1>4. PICK g \in [SUBSET (1 .. n) -> A] : FoldsTo(g, <<>>, H, n, s)
  BY <1>1, <1>3, FoldExists
<1>5. \A t \in SUBSET (1 .. n) : t # {} => Max(t) \in 1 .. n /\ t \ {Max(t)} \in SUBSET (1 .. n)
  BY <1>1, LastOfPositions
<1> HIDE DEF Next1
<1>6. P(f)
  <2>1. ASSUME NEW t \in SUBSET (1 .. n), t # {}
        PROVE  g[t] = Next1(g[t \ {Max(t)}], s[Max(t)])
    <3>1. g[t] = H[<<g[t \ {Max(t)}], s[Max(t)]>>]
      BY <1>4, <2>1 DEF FoldsTo
    <3>2. g[t \ {Max(t)}] \in A /\ s[Max(t)] \in Finalizers
      BY <1>1, <1>5, <2>1
    <3> QED BY <1>3, <3>1, <3>2
  <2>2. g = [t \in SUBSET (1 .. n) |->
              IF t = {} THEN <<>> ELSE Next1(g[t \ {Max(t)}], s[Max(t)])]
    BY <1>4, <2>1 DEF FoldsTo
  <2>3. P(g)
    BY <1>1, <2>2 DEF P
  <2> QED BY <2>3, Zenon
<1>7. f = [t \in SUBSET (1 .. n) |->
             IF t = {} THEN <<>> ELSE Next1(f[t \ {Max(t)}], s[Max(t)])]
  BY <1>1, <1>6 DEF P
<1> HIDE DEF f
<1>8. f[{}] = <<>>
  BY <1>7
<1>9. ASSUME NEW t \in SUBSET (1 .. n), t # {}, f[t \ {Max(t)}] \in A
      PROVE  f[t] = H[<<f[t \ {Max(t)}], s[Max(t)]>>]
  <2>1. f[t] = Next1(f[t \ {Max(t)}], s[Max(t)])
    BY <1>7, <1>9
  <2>2. s[Max(t)] \in Finalizers
    BY <1>1, <1>5, <1>9
  <2> QED BY <1>3, <1>9, <2>1, <2>2
<1>10. PICK G \in [0 .. n -> A] :
         /\ G[0] = <<>>
         /\ \A k \in 1 .. n : G[k] = H[<<G[k - 1], s[k]>>]
         /\ f[1 .. n] = G[n]
  <2>1. FoldsWithin(f, A, H, n, s)
    BY <1>9 DEF FoldsWithin
  <2>2. H \in [A \X Finalizers -> A]
    BY <1>3
  <2>3. LoopReturns(f[1 .. n], A, H, <<>>, n, s)
    BY <1>1, <1>8, <2>1, <2>2, FoldRounds
  <2> QED BY <2>3 DEF LoopReturns
<1> DEFINE T == {k \in 0 .. n : Len(G[k]) <= k}
<1>11. 0 \in T
  BY <1>1, <1>10
<1>12. ASSUME NEW k \in 0 .. n, k \in T, k < n PROVE k + 1 \in T
  <2>1. k + 1 \in 1 .. n /\ (k + 1) - 1 = k /\ k + 1 \in 0 .. n
    BY <1>1, <1>12
  <2>2. G[k] \in A /\ s[k + 1] \in Finalizers
    BY <1>1, <1>10, <2>1
  <2>3. G[k + 1] = Next1(G[k], s[k + 1])
    <3>1. G[k + 1] = H[<<G[k], s[k + 1]>>]
      BY <1>10, <2>1
    <3> QED BY <1>3, <2>2, <3>1
  <2>4. Len(G[k + 1]) \in {Len(G[k]), Len(G[k]) + 1} /\ Len(G[k]) \in Nat
    BY <2>2, <2>3 DEF Next1, A
  <2>5. Len(G[k + 1]) <= k + 1
    BY <1>12, <2>1, <2>4
  <2> QED BY <2>1, <2>5
<1> HIDE DEF T
<1>13. \A k \in 0 .. n : k \in T
  BY <1>1, <1>11, <1>12, Induction
<1>14. G[n] \in A /\ Len(G[n]) <= n
  <2>1. n \in 0 .. n
    BY <1>1
  <2> QED BY <1>10, <1>13, <2>1 DEF T
<1> QED BY <1>2, <1>10, <1>14 DEF n, A


\* The arrays of an object's two slices.
Arrays == Seq(Entry) \union Seq(Finalizers)

\* Writing to an array in place changes that array only.
LEMMA WrittenInPlace ==
  ASSUME NEW S \in {Entry, Finalizers}, NEW h \in Seq(Arrays), NEW at \in 1 .. Len(h), NEW len,
         h[at] \in Seq(S), NEW v \in Seq(S), Len(v) <= Len(h[at])
  PROVE  LET w == Write(h, Slice(at, len), v)
         IN  /\ w \in Seq(Arrays) /\ Len(w) = Len(h)
             /\ w[at] \in Seq(S) /\ Len(w[at]) = Len(h[at])
             /\ Value(w, Slice(at, Len(v))) = v
             /\ \A i \in 1 .. Len(h) : i # at => w[i] = h[i]
<1> DEFINE a == h[at]
           b == [k \in DOMAIN a |-> IF k \in DOMAIN v THEN v[k] ELSE a[k]]
           w == Write(h, Slice(at, len), v)
<1>1. /\ a \in Seq(S) /\ Len(a) \in Nat /\ Len(v) \in Nat
      /\ DOMAIN a = 1 .. Len(a) /\ DOMAIN v = 1 .. Len(v) /\ Len(v) <= Len(a)
      /\ \A k \in 1 .. Len(a) : a[k] \in S
      /\ \A k \in 1 .. Len(v) : v[k] \in S
  OBVIOUS
<1>2. w = [h EXCEPT ![at] = b]
  BY DEF Write, Slice
<1>3. Len(h) \in Nat /\ DOMAIN h = 1 .. Len(h) /\ \A i \in 1 .. Len(h) : h[i] \in Arrays
  OBVIOUS
<1> HIDE DEF a, w
<1>4. b \in Seq(S) /\ Len(b) = Len(a) /\ \A k \in 1 .. Len(v) : b[k] = v[k]
  <2>1. \A k \in 1 .. Len(a) : b[k] \in S
    BY <1>1
  <2>2. \A k \in 1 .. Len(v) : b[k] = v[k]
    BY <1>1
  <2>3. b \in [1 .. Len(a) -> S]
    BY <1>1, <2>1
  <2> HIDE DEF b
  <2>5. b = [k \in 1 .. Len(a) |-> b[k]] /\ \A k \in 1 .. Len(a) : b[k] \in S
    BY <2>3
  <2>4. b \in Seq(S) /\ Len(b) = Len(a)
    BY <1>1, <2>5, ListOf
  <2> QED BY <2>2, <2>4
<1> HIDE DEF b
<1>5. w[at] = b /\ DOMAIN w = 1 .. Len(h) /\ \A i \in 1 .. Len(h) : i # at => w[i] = h[i]
  BY <1>2, <1>3
<1>6. w \in Seq(Arrays) /\ Len(w) = Len(h)
  <2>1. b \in Arrays
    BY <1>4 DEF Arrays
  <2>2. \A i \in 1 .. Len(h) : w[i] \in Arrays
    BY <1>3, <1>5, <2>1
  <2>3. w = [i \in 1 .. Len(h) |-> w[i]]
    BY <1>2, <1>3
  <2> QED BY <1>3, <2>2, <2>3
<1>7. Value(w, Slice(at, Len(v))) = v
  <2>1. Value(w, Slice(at, Len(v))) = SubSeq(b, 1, Len(v))
    BY <1>5 DEF Value, Slice
  <2>2. SubSeq(b, 1, Len(v)) = v
    BY <1>1, <1>4
  <2> QED BY <2>1, <2>2
<1> QED BY <1>4, <1>5, <1>6, <1>7 DEF w, a


\* Memory in which the object is as it was read.
AsRead(h, fs) ==
  /\ h \in Seq(Arrays) /\ Len(h) >= 2
  /\ Value(h, Slice(1, Len(list))) = list
  /\ Value(h, Slice(2, Len(fs))) = fs

LEMMA AppendedArray ==
  ASSUME NEW h \in Seq(Arrays), NEW a \in Arrays
  PROVE  /\ Append(h, a) \in Seq(Arrays) /\ Len(Append(h, a)) = Len(h) + 1
         /\ Append(h, a)[Len(h) + 1] = a /\ \A i \in 1 .. Len(h) : Append(h, a)[i] = h[i]
  OBVIOUS

\* DeepCopy makes two arrays, each as long as the slice it is a copy of.
LEMMA CopiedArrays ==
  ASSUME list \in Seq(Entry), NEW spare \in Nat, NEW fs \in Seq(Finalizers)
  PROVE  LET read == Decoded(fs, spare)
             dbkp == DeepCopy(read.heap, read.obj)
         IN  /\ AsRead(dbkp.heap, fs) /\ Len(dbkp.heap) = 4
             /\ dbkp.heap[3] = fs /\ dbkp.heap[4] = list
             /\ dbkp.obj = [schedules |-> Slice(4, Len(list)), finalizers |-> Slice(3, Len(fs))]
             /\ read.obj = [schedules |-> Slice(1, Len(list)), finalizers |-> Slice(2, Len(fs))]
<1> DEFINE e == [name |-> 0, created |-> 0, status |-> ""]
           junk == [k \in 1 .. spare |-> e]
           a == list \o junk
           h2 == <<a, fs>>
           h3 == Append(h2, fs)
           h4 == Append(h3, list)
           read == Decoded(fs, spare)
           dbkp == DeepCopy(read.heap, read.obj)
<1>1. junk \in Seq(Entry)
  <2>1. e \in Entry
    BY DEF Entry, ScheduleStatus
  <2> HIDE DEF e
  <2> QED BY <2>1
<1>2. read = [heap |-> h2,
              obj |-> [schedules |-> Slice(1, Len(list)), finalizers |-> Slice(2, Len(fs))]]
  BY Zenon DEF Decoded
<1> HIDE DEF junk
<1>3. a \in Seq(Entry) /\ SubSeq(a, 1, Len(list)) = list /\ Len(list) \in Nat
  BY <1>1
<1> HIDE DEF a
<1>4. fs \in Arrays /\ a \in Arrays /\ list \in Arrays
  BY <1>3 DEF Arrays
<1>5. h2 \in Seq(Arrays) /\ Len(h2) = 2 /\ h2[1] = a /\ h2[2] = fs
  BY <1>4
<1> HIDE DEF h2
<1>6. h3 \in Seq(Arrays) /\ Len(h3) = 3 /\ h3[1] = a /\ h3[2] = fs /\ h3[3] = fs
  <2> HIDE DEF h3
  <2>1. /\ h3 \in Seq(Arrays) /\ Len(h3) = Len(h2) + 1 /\ h3[Len(h2) + 1] = fs
        /\ \A i \in 1 .. Len(h2) : h3[i] = h2[i]
    BY <1>4, <1>5, AppendedArray DEF h3
  <2>2. Len(h2) + 1 = 3 /\ 1 \in 1 .. Len(h2) /\ 2 \in 1 .. Len(h2)
    BY <1>5
  <2> QED BY <1>5, <2>1, <2>2
<1> HIDE DEF h3
<1>7. /\ h4 \in Seq(Arrays) /\ Len(h4) = 4
      /\ h4[1] = a /\ h4[2] = fs /\ h4[3] = fs /\ h4[4] = list
  <2> HIDE DEF h4
  <2>1. /\ h4 \in Seq(Arrays) /\ Len(h4) = Len(h3) + 1 /\ h4[Len(h3) + 1] = list
        /\ \A i \in 1 .. Len(h3) : h4[i] = h3[i]
    BY <1>4, <1>6, AppendedArray DEF h4
  <2>2. Len(h3) + 1 = 4 /\ 1 \in 1 .. Len(h3) /\ 2 \in 1 .. Len(h3) /\ 3 \in 1 .. Len(h3)
    BY <1>6
  <2> QED BY <1>6, <2>1, <2>2
<1> HIDE DEF h4
<1>8. SubSeq(fs, 1, Len(fs)) = fs
  OBVIOUS
<1>9. CopyFinalizers(h2, Slice(2, Len(fs))) = [heap |-> h3, slice |-> Slice(3, Len(fs))]
  <2>1. Value(h2, Slice(2, Len(fs))) = fs /\ Len(h2) + 1 = 3
    BY <1>5, <1>8 DEF Value, Slice
  <2> QED BY <2>1, Zenon DEF CopyFinalizers, NewArray, Result, h3
<1>10. CopySchedules(h3, Slice(1, Len(list))) = [heap |-> h4, slice |-> Slice(4, Len(list))]
  <2>1. Value(h3, Slice(1, Len(list))) = list /\ Len(h3) + 1 = 4
    BY <1>3, <1>6 DEF Value, Slice
  <2> QED BY <2>1, Zenon DEF CopySchedules, NewArray, Result, h4
<1>11. dbkp = [heap |-> h4,
               obj |-> [schedules |-> Slice(4, Len(list)), finalizers |-> Slice(3, Len(fs))]]
  <2>1. read.heap = h2 /\ read.obj.finalizers = Slice(2, Len(fs))
          /\ read.obj.schedules = Slice(1, Len(list))
    BY <1>2
  <2> QED BY <1>9, <1>10, <2>1 DEF DeepCopy
<1>12. AsRead(h4, fs)
  BY <1>3, <1>7, <1>8 DEF AsRead, Value, Slice
<1> QED BY <1>2, <1>7, <1>11, <1>12

\* A slice of the copy written in place, with as many elements or fewer.
Written(w, h, S, fs, at, v) ==
  /\ AsRead(w, fs) /\ Len(w) = Len(h)
  /\ w[at] \in Seq(S) /\ Len(w[at]) = Len(h[at])
  /\ Value(w, Slice(at, Len(v))) = v

LEMMA WrittenApart ==
  ASSUME NEW S \in {Entry, Finalizers}, NEW fs, NEW h, AsRead(h, fs),
         NEW at \in 3 .. Len(h), NEW len,
         h[at] \in Seq(S), NEW v \in Seq(S), Len(v) <= Len(h[at])
  PROVE  Written(Write(h, Slice(at, len), v), h, S, fs, at, v)
<1> DEFINE w == Write(h, Slice(at, len), v)
<1>1. h \in Seq(Arrays) /\ Len(h) \in Nat /\ Len(h) >= 2 /\ at \in 1 .. Len(h)
        /\ at # 1 /\ at # 2 /\ 1 \in 1 .. Len(h) /\ 2 \in 1 .. Len(h)
  BY DEF AsRead
<1>2. /\ w \in Seq(Arrays) /\ Len(w) = Len(h)
      /\ w[at] \in Seq(S) /\ Len(w[at]) = Len(h[at])
      /\ Value(w, Slice(at, Len(v))) = v
      /\ \A i \in 1 .. Len(h) : i # at => w[i] = h[i]
  BY <1>1, WrittenInPlace
<1> HIDE DEF w
<1>3. w[1] = h[1] /\ w[2] = h[2]
  BY <1>1, <1>2
<1>4. AsRead(w, fs)
  BY <1>1, <1>2, <1>3 DEF AsRead, Value, Slice
<1> QED BY <1>2, <1>4 DEF w, Written


\* What MCScheduleList asks of a change: the copy has what the operation says,
\* and the object that was read is as it was.
Isolates(r, fs, expected) == Value(r.heap, r.slice) = expected /\ AsRead(r.heap, fs)

\* Adding an entry takes a new array: the copy's has no capacity to spare.
LEMMA AddIsolated ==
  ASSUME list \in Seq(Entry), NEW fs, NEW h, AsRead(h, fs), Len(h) = 4, h[4] = list,
         NEW n \in Nat
  PROVE  Isolates(AddEmptyTo(h, Slice(4, Len(list)), n), fs, AddEmpty(list, n))
<1> DEFINE x == [name |-> n, created |-> 0, status |-> ""]
           l == Append(list, x)
           g == Append(h, l)
           sl == Slice(5, Len(list) + 1)
           v == AddEmpty(list, n)
           w == Write(g, sl, v)
<1>1. x \in Entry
  BY DEF Entry, ScheduleStatus
<1>2. AddEmpty(list, n) = SortLast(list, x)
  BY DEF AddEmpty
<1>3. AddEmptyTo(h, Slice(4, Len(list)), n)
        = LET a == AppendTo(h, Slice(4, Len(list)), x)
          IN  Result(Write(a.heap, a.slice, AddEmpty(Value(h, Slice(4, Len(list))), n)), a.slice)
  BY DEF AddEmptyTo
<1> HIDE DEF x
<1>4. Value(h, Slice(4, Len(list))) = list
  BY DEF Value, Slice
<1>5. l \in Seq(Entry) /\ Len(l) = Len(list) + 1 /\ Len(list) \in Nat
  BY <1>1
<1>6. v \in Seq(Entry) /\ Len(v) = Len(list) + 1
  BY <1>1, <1>2, SortLastNames
<1> HIDE DEF l, v
<1>7. AppendTo(h, Slice(4, Len(list)), x) = [heap |-> g, slice |-> sl]
  <2>1. ~(Slice(4, Len(list)).len < Len(h[Slice(4, Len(list)).at])) /\ Len(h) + 1 = 5
    BY <1>5 DEF Slice
  <2> QED BY <1>4, <1>5, <2>1 DEF AppendTo, NewArray, Result, l
<1>8. AsRead(g, fs) /\ Len(g) = 5 /\ g[5] = l
  <2> HIDE DEF g
  <2>1. h \in Seq(Arrays) /\ l \in Arrays
    BY <1>5 DEF AsRead, Arrays
  <2>2. /\ g \in Seq(Arrays) /\ Len(g) = 5 /\ g[5] = l
        /\ \A i \in 1 .. Len(h) : g[i] = h[i]
    <3>1. /\ Append(h, l) \in Seq(Arrays) /\ Len(Append(h, l)) = Len(h) + 1
          /\ Append(h, l)[Len(h) + 1] = l /\ \A i \in 1 .. Len(h) : Append(h, l)[i] = h[i]
      BY <2>1, AppendedArray
    <3>2. Len(h) + 1 = 5
      OBVIOUS
    <3> QED BY <3>1, <3>2, Zenon DEF g
  <2>3. g[1] = h[1] /\ g[2] = h[2]
    BY <2>2
  <2> QED BY <2>2, <2>3 DEF AsRead, Value, Slice
<1> HIDE DEF g
<1>9. AsRead(w, fs) /\ Value(w, sl) = v
  <2>1. 5 \in 3 .. Len(g) /\ g[5] \in Seq(Entry) /\ Len(v) <= Len(g[5]) /\ Entry \in {Entry, Finalizers}
    BY <1>5, <1>6, <1>8
  <2>2. /\ AsRead(Write(g, Slice(5, Len(list) + 1), v), fs)
        /\ Value(Write(g, Slice(5, Len(list) + 1), v), Slice(5, Len(v))) = v
    BY <1>6, <1>8, <2>1, WrittenApart DEF Written
  <2> QED BY <1>6, <2>2
<1>10. AddEmptyTo(h, Slice(4, Len(list)), n) = [heap |-> w, slice |-> sl]
  BY <1>3, <1>4, <1>7 DEF Result, v
<1> QED BY <1>9, <1>10 DEF Isolates, v

\* The other operations write to the copy's own arrays.
LEMMA WriteIsolated ==
  ASSUME NEW S \in {Entry, Finalizers}, NEW fs, NEW h, AsRead(h, fs), NEW at \in 3 .. Len(h),
         NEW len, h[at] \in Seq(S), NEW v \in Seq(S), Len(v) <= Len(h[at])
  PROVE  Isolates(Result(Write(h, Slice(at, len), v), Slice(at, Len(v))), fs, v)
<1> DEFINE w == Write(h, Slice(at, len), v)
<1>1. AsRead(w, fs) /\ Value(w, Slice(at, Len(v))) = v
  BY WrittenApart DEF Written
<1> HIDE DEF w
<1> QED BY <1>1 DEF Isolates, Result, w

\* None of the operations shortens or lengthens a list but the reservation.
LEMMA LengthsKept ==
  ASSUME NEW s \in Seq(Entry)
  PROVE  /\ HasQueued(s) => \A t \in Nat : /\ UpdateEmpty(s, t) \in Seq(Entry)
                                           /\ Len(UpdateEmpty(s, t)) = Len(s)
         /\ HasPrevious(s) => /\ MarkPreviousDeleted(s) \in Seq(Entry)
                              /\ Len(MarkPreviousDeleted(s)) = Len(s)
         /\ \A keep, check, B : /\ Erase(s, keep, check, B) \in Seq(Entry)
                                /\ Len(Erase(s, keep, check, B)) = Len(s)
<1>1. ASSUME HasQueued(s), NEW t \in Nat
      PROVE  UpdateEmpty(s, t) \in Seq(Entry) /\ Len(UpdateEmpty(s, t)) = Len(s)
  <2> DEFINE x == [Last(s) EXCEPT !.created = t, !.status = "Active"]
  <2>1. s # <<>>
    BY <1>1, Zenon DEF HasQueued
  <2>2. Front(s) \in Seq(Entry) /\ Len(Front(s)) = Len(s) - 1 /\ Last(s) \in Entry
    BY <2>1, FrontAndLast
  <2>3. x \in Entry /\ UpdateEmpty(s, t) = SortLast(Front(s), x)
    BY <2>2 DEF Entry, ScheduleStatus, UpdateEmpty
  <2> HIDE DEF x
  <2> QED BY <2>2, <2>3, SortLastNames
<1>2. ASSUME HasPrevious(s)
      PROVE  MarkPreviousDeleted(s) \in Seq(Entry) /\ Len(MarkPreviousDeleted(s)) = Len(s)
  <2>1. MarkPreviousDeleted(s) \in Seq(Entry)
    BY <1>2, MarkNames
  <2>2. DOMAIN MarkPreviousDeleted(s) = DOMAIN s
    BY DEF MarkPreviousDeleted
  <2> QED BY <2>1, <2>2
<1>3. ASSUME NEW keep, NEW check, NEW B
      PROVE  Erase(s, keep, check, B) \in Seq(Entry) /\ Len(Erase(s, keep, check, B)) = Len(s)
  <2>1. Erase(s, keep, check, B) \in Seq(Entry)
    BY EraseNames
  <2>2. DOMAIN Erase(s, keep, check, B) = DOMAIN s
    BY DEF Erase
  <2> QED BY <2>1, <2>2
<1> QED BY <1>1, <1>2, <1>3

\* Whatever a reconciliation does to its copy, the object that was read stays
\* as it was, and the copy has what the list operations say: the patch is
\* their difference.  For all lists the operator's calls build.
THEOREM CopiesApart == Spec => []CopyIsolated
<1>1. ASSUME ListInv, NEW spare \in Nat, NEW fs \in Seq(Finalizers),
             NEW h, AsRead(h, fs), Len(h) = 4, h[3] = fs, h[4] = list
      PROVE  /\ \A n \in 1 .. MaxName :
                  Isolates(AddEmptyTo(h, Slice(4, Len(list)), n), fs, AddEmpty(list, n))
             /\ HasQueued(list) =>
                  \A t \in 0 .. MaxStamp :
                    LET r == UpdateEmptyOf(h, Slice(4, Len(list)), t)
                    IN  /\ Isolates(r, fs, UpdateEmpty(list, t))
                        /\ HasPrevious(list) =>
                             Isolates(MarkPreviousOf(r.heap, r.slice), fs,
                                      MarkPreviousDeleted(UpdateEmpty(list, t)))
             /\ Isolates(EraseOf(h, Slice(4, Len(list)), 0, {}), fs, Erase(list, 0, FALSE, {}))
             /\ Isolates(RemoveFinalizer(h, Slice(3, Len(fs))), fs, Others(fs))
  <2>1. /\ list \in Seq(Entry) /\ Len(list) \in Nat /\ Entry \in {Entry, Finalizers}
        /\ Finalizers \in {Entry, Finalizers} /\ 4 \in 3 .. Len(h) /\ 3 \in 3 .. Len(h)
        /\ Value(h, Slice(4, Len(list))) = list /\ Value(h, Slice(3, Len(fs))) = fs
    <3>1. list \in Seq(Entry)
      BY <1>1 DEF ListInv
    <3> QED BY <1>1, <3>1 DEF Value, Slice
  <2>2. ASSUME NEW n \in 1 .. MaxName
        PROVE  Isolates(AddEmptyTo(h, Slice(4, Len(list)), n), fs, AddEmpty(list, n))
    <3>1. n \in Nat
      BY BoundsAssumption
    <3> QED BY <1>1, <2>1, <3>1, AddIsolated
  <2>3. ASSUME HasQueued(list), NEW t \in 0 .. MaxStamp
        PROVE  LET r == UpdateEmptyOf(h, Slice(4, Len(list)), t)
               IN  /\ Isolates(r, fs, UpdateEmpty(list, t))
                   /\ HasPrevious(list) =>
                        Isolates(MarkPreviousOf(r.heap, r.slice), fs,
                                 MarkPreviousDeleted(UpdateEmpty(list, t)))
    <3> DEFINE sl == Slice(4, Len(list))
               u == UpdateEmpty(list, t)
               w == Write(h, sl, u)
               m == MarkPreviousDeleted(u)
    <3>1. t \in Nat
      BY BoundsAssumption
    <3>2. u \in Seq(Entry) /\ Len(u) = Len(list)
      BY <2>1, <2>3, <3>1, LengthsKept
    <3>3. UpdateEmptyOf(h, sl, t) = Result(w, sl)
      BY <2>1 DEF UpdateEmptyOf
    <3> HIDE DEF u
    <3>4. /\ AsRead(w, fs) /\ Len(w) = 4 /\ w[4] \in Seq(Entry) /\ Len(w[4]) = Len(list)
          /\ Value(w, Slice(4, Len(u))) = u
      <4>1. h[4] \in Seq(Entry) /\ Len(u) <= Len(h[4])
        BY <1>1, <2>1, <3>2
      <4>2. /\ AsRead(Write(h, Slice(4, Len(list)), u), fs)
            /\ Len(Write(h, Slice(4, Len(list)), u)) = Len(h)
            /\ Write(h, Slice(4, Len(list)), u)[4] \in Seq(Entry)
            /\ Len(Write(h, Slice(4, Len(list)), u)[4]) = Len(h[4])
            /\ Value(Write(h, Slice(4, Len(list)), u), Slice(4, Len(u))) = u
        <5>1. Written(Write(h, Slice(4, Len(list)), u), h, Entry, fs, 4, u)
          BY <1>1, <2>1, <3>2, <4>1, WrittenApart
        <5> QED BY <5>1 DEF Written
      <4> QED BY <1>1, <3>2, <4>2
    <3>5. Isolates(Result(w, sl), fs, u)
      BY <3>2, <3>4 DEF Isolates, Result
    <3>6. ASSUME HasPrevious(list)
          PROVE  Isolates(MarkPreviousOf(w, sl), fs, m)
      <4>1. m \in Seq(Entry) /\ Len(m) = Len(u)
        <5>1. HasPrevious(u)
          BY <3>2, <3>6 DEF HasPrevious
        <5> QED BY <3>2, <5>1, LengthsKept
      <4> HIDE DEF m, w
      <4>2. MarkPreviousOf(w, sl) = Result(Write(w, sl, m), sl)
        BY <3>2, <3>4 DEF MarkPreviousOf, m
      <4>3. Isolates(Result(Write(w, Slice(4, Len(list)), m), Slice(4, Len(m))), fs, m)
        <5>1. 4 \in 3 .. Len(w) /\ w[4] \in Seq(Entry) /\ Len(m) <= Len(w[4])
          BY <2>1, <3>2, <3>4, <4>1
        <5> QED BY <2>1, <3>4, <4>1, <5>1, WriteIsolated
      <4> QED BY <3>2, <4>1, <4>2, <4>3
    <3>7. Result(w, sl).heap = w /\ Result(w, sl).slice = sl
      BY DEF Result
    <3> HIDE DEF w, sl
    <3> QED BY <3>3, <3>5, <3>6, <3>7 DEF u, sl
  <2>4. Isolates(EraseOf(h, Slice(4, Len(list)), 0, {}), fs, Erase(list, 0, FALSE, {}))
    <3> DEFINE m == Erase(list, 0, FALSE, {})
    <3>1. m \in Seq(Entry) /\ Len(m) = Len(list)
      <4>1. list \in Seq(Entry)
        BY <2>1
      <4>2. \A keep, check, B : /\ Erase(list, keep, check, B) \in Seq(Entry)
                                /\ Len(Erase(list, keep, check, B)) = Len(list)
        BY <4>1, LengthsKept
      <4> QED BY <4>2, Zenon
    <3>2. EraseOf(h, Slice(4, Len(list)), 0, {})
            = Result(Write(h, Slice(4, Len(list)), m), Slice(4, Len(m)))
      BY <2>1, <3>1 DEF EraseOf
    <3> HIDE DEF m
    <3>3. h[4] \in Seq(Entry) /\ Len(m) <= Len(h[4])
      BY <1>1, <2>1, <3>1
    <3>4. Isolates(Result(Write(h, Slice(4, Len(list)), m), Slice(4, Len(m))), fs, m)
      BY <1>1, <2>1, <3>1, <3>3, WriteIsolated
    <3> QED BY <3>2, <3>4 DEF m
  <2>5. Isolates(RemoveFinalizer(h, Slice(3, Len(fs))), fs, Others(fs))
    <3>1. Others(fs) \in Seq(Finalizers) /\ Len(Others(fs)) <= Len(fs)
      BY OthersType
    <3>2. RemoveFinalizer(h, Slice(3, Len(fs)))
            = Result(Write(h, Slice(3, Len(fs)), Others(fs)), Slice(3, Len(Others(fs))))
      BY <2>1 DEF RemoveFinalizer, Slice
    <3> QED BY <1>1, <2>1, <3>1, <3>2, WriteIsolated
  <2> QED BY <2>2, <2>3, <2>4, <2>5
<1>2. ListInv => CopyIsolated
  <2> SUFFICES ASSUME ListInv,
                      NEW spare \in 0 .. 2,
                      NEW fs \in {<<"dmaas">>, <<"other", "dmaas">>, <<"dmaas", "other">>}
               PROVE  LET read == Decoded(fs, spare)
                          dbkp == DeepCopy(read.heap, read.obj)
                          sl == dbkp.obj.schedules
                          Isolated(r, expected) ==
                            /\ Value(r.heap, r.slice) = expected
                            /\ Value(r.heap, read.obj.schedules) = list
                            /\ Value(r.heap, read.obj.finalizers) = fs
                      IN  /\ \A n \in 1 .. MaxName :
                               Isolated(AddEmptyTo(dbkp.heap, sl, n), AddEmpty(list, n))
                          /\ HasQueued(list) =>
                               \A t \in 0 .. MaxStamp :
                                 LET r == UpdateEmptyOf(dbkp.heap, sl, t)
                                 IN  /\ Isolated(r, UpdateEmpty(list, t))
                                     /\ HasPrevious(list) =>
                                          Isolated(MarkPreviousOf(r.heap, r.slice),
                                                   MarkPreviousDeleted(UpdateEmpty(list, t)))
                          /\ Len(list) > 1 =>
                               Isolated(EraseOf(dbkp.heap, sl, 0, {}),
                                        Erase(list, 0, FALSE, {}))
                          /\ Isolated(RemoveFinalizer(dbkp.heap, dbkp.obj.finalizers),
                                      Others(fs))
    BY Zenon DEF CopyIsolated
  <2> DEFINE read == Decoded(fs, spare)
             dbkp == DeepCopy(read.heap, read.obj)
             h == dbkp.heap
             Isolated(r, expected) ==
               /\ Value(r.heap, r.slice) = expected
               /\ Value(r.heap, read.obj.schedules) = list
               /\ Value(r.heap, read.obj.finalizers) = fs
  <2>1. spare \in Nat /\ fs \in Seq(Finalizers) /\ list \in Seq(Entry)
    <3>1. "dmaas" \in Finalizers /\ "other" \in Finalizers
      BY DEF Finalizers
    <3>2. fs \in Seq(Finalizers)
      <4>1. fs = <<"dmaas">> \/ fs = <<"other", "dmaas">> \/ fs = <<"dmaas", "other">>
        BY Zenon
      <4>2. \A a, b \in Finalizers : <<a>> \in Seq(Finalizers) /\ <<a, b>> \in Seq(Finalizers)
        OBVIOUS
      <4> QED BY <3>1, <4>1, <4>2, Zenon
    <3>3. spare \in Nat
      OBVIOUS
    <3> QED BY <3>2, <3>3 DEF ListInv
  <2>2. /\ AsRead(h, fs) /\ Len(h) = 4 /\ h[3] = fs /\ h[4] = list
        /\ dbkp.obj = [schedules |-> Slice(4, Len(list)), finalizers |-> Slice(3, Len(fs))]
        /\ read.obj = [schedules |-> Slice(1, Len(list)), finalizers |-> Slice(2, Len(fs))]
    BY <2>1, CopiedArrays
  <2>3. ASSUME NEW r, NEW expected, Isolates(r, fs, expected)
        PROVE  Isolated(r, expected)
    BY <2>2, <2>3 DEF Isolates, AsRead
  <2>4. dbkp.obj.schedules = Slice(4, Len(list)) /\ dbkp.obj.finalizers = Slice(3, Len(fs))
    BY <2>2
  <2> HIDE DEF h, dbkp, read
  <2>5. /\ \A n \in 1 .. MaxName :
             Isolates(AddEmptyTo(h, Slice(4, Len(list)), n), fs, AddEmpty(list, n))
        /\ HasQueued(list) =>
             \A t \in 0 .. MaxStamp :
               LET r == UpdateEmptyOf(h, Slice(4, Len(list)), t)
               IN  /\ Isolates(r, fs, UpdateEmpty(list, t))
                   /\ HasPrevious(list) =>
                        Isolates(MarkPreviousOf(r.heap, r.slice), fs,
                                 MarkPreviousDeleted(UpdateEmpty(list, t)))
        /\ Isolates(EraseOf(h, Slice(4, Len(list)), 0, {}), fs, Erase(list, 0, FALSE, {}))
        /\ Isolates(RemoveFinalizer(h, Slice(3, Len(fs))), fs, Others(fs))
    BY <1>1, <2>1, <2>2
  <2> HIDE DEF Isolated
  <2>6. /\ \A n \in 1 .. MaxName :
             Isolated(AddEmptyTo(h, Slice(4, Len(list)), n), AddEmpty(list, n))
        /\ HasQueued(list) =>
             \A t \in 0 .. MaxStamp :
               LET r == UpdateEmptyOf(h, Slice(4, Len(list)), t)
               IN  /\ Isolated(r, UpdateEmpty(list, t))
                   /\ HasPrevious(list) =>
                        Isolated(MarkPreviousOf(r.heap, r.slice),
                                 MarkPreviousDeleted(UpdateEmpty(list, t)))
        /\ Isolated(EraseOf(h, Slice(4, Len(list)), 0, {}), Erase(list, 0, FALSE, {}))
        /\ Isolated(RemoveFinalizer(h, Slice(3, Len(fs))), Others(fs))
    BY <2>3, <2>5, Zenon
  <2> DEFINE sl == dbkp.obj.schedules
             fl == dbkp.obj.finalizers
  <2> HIDE DEF sl, fl
  <2>7. sl = Slice(4, Len(list)) /\ fl = Slice(3, Len(fs))
    BY <2>4 DEF sl, fl
  <2>8. /\ \A n \in 1 .. MaxName : Isolated(AddEmptyTo(h, sl, n), AddEmpty(list, n))
        /\ HasQueued(list) =>
             \A t \in 0 .. MaxStamp :
               LET r == UpdateEmptyOf(h, sl, t)
               IN  /\ Isolated(r, UpdateEmpty(list, t))
                   /\ HasPrevious(list) =>
                        Isolated(MarkPreviousOf(r.heap, r.slice),
                                 MarkPreviousDeleted(UpdateEmpty(list, t)))
        /\ Len(list) > 1 =>
             Isolated(EraseOf(h, sl, 0, {}), Erase(list, 0, FALSE, {}))
        /\ Isolated(RemoveFinalizer(h, fl), Others(fs))
    BY <2>6, <2>7, Zenon
  <2> QED BY <2>8, Zenon DEF h, dbkp, read, Isolated, sl, fl
<1> QED BY <1>2, ListBuilt, PTL

-----------------------------------------------------------------------------
(* The copies of API objects.                                              *)

\* The names of the types, and those that lead to no reference.
TypeNames ==
  {"ObjectMeta", "ListMeta", "ScheduleSpec", "VeleroRestoreSpec",
   "DMaaSBackup", "DMaaSBackupSpec", "PeriodicFullBackupConfig",
   "DMaaSBackupStatus", "VeleroScheduleDetails", "SnapshotStatusDetails",
   "Progress", "DMaaSBackupList", "PreBackupAction",
   "PreBackupActionSpec", "PreBackupActionSetLabel",
   "PreBackupActionSetAnnotation", "TargetResource",
   "PreBackupActionStatus", "PreBackupActionList", "DMaaSRestore",
   "RestoreSpec", "RestoreStatus", "RestoreCondition", "RestoreDetails",
   "PVRestoreStatusDetails", "DMaaSRestoreList", "string", "int64",
   "Time"}

Leaves == {"PeriodicFullBackupConfig", "Progress", "string", "int64", "Time"}

\* A copying function makes new memory for every reference of its type, and
\* calls the one of every type that may lead to further references.
Detaches(fields, copies) ==
  \A f \in DOMAIN fields :
    LET how == IF f \in DOMAIN copies THEN copies[f] ELSE "assigned"
    IN  /\ fields[f].of \in TypeNames
        /\ fields[f].kind # "struct" => how \in {Fresh, FreshInto}
        /\ fields[f].of \in Leaves \/ how \in {Into, FreshInto}

LEMMA NamesOfTypes == DOMAIN TypeOf = TypeNames
BY DEF TypeOf, TypeNames

LEMMA NothingWithin == \A T \in Leaves : DOMAIN TypeOf[T] = {}
<1>1. \A T \in Leaves : TypeOf[T] = NoReference
  BY DEF TypeOf, PeriodicFullBackupConfig, Progress, Leaves
<1> QED BY <1>1 DEF NoReference

\* Every copying function does: the generated code is up to date with the types.
LEMMA GeneratedFromTypes == \A T \in TypeNames : Detaches(TypeOf[T], CopyOf[T])
<1>1. Detaches(TypeOf["ObjectMeta"], CopyOf["ObjectMeta"])
  <2>1. TypeOf["ObjectMeta"] = ObjectMeta /\ CopyOf["ObjectMeta"] = CopyObjectMeta
    BY DEF TypeOf, CopyOf
  <2>2. Detaches(ObjectMeta, CopyObjectMeta)
    BY DEF Detaches, ObjectMeta, CopyObjectMeta, Struct, Pointer, SliceOf, Into, Fresh,
           FreshInto, TypeNames, Leaves
  <2> QED BY <2>1, <2>2
<1>2. Detaches(TypeOf["ListMeta"], CopyOf["ListMeta"])
  <2>1. TypeOf["ListMeta"] = ListMeta /\ CopyOf["ListMeta"] = CopyListMeta
    BY DEF TypeOf, CopyOf
  <2>2. Detaches(ListMeta, CopyListMeta)
    BY DEF Detaches, ListMeta, CopyListMeta, Struct, Pointer, SliceOf, Into, Fresh,
           FreshInto, TypeNames, Leaves
  <2> QED BY <2>1, <2>2
<1>3. Detaches(TypeOf["ScheduleSpec"], CopyOf["ScheduleSpec"])
  <2>1. TypeOf["ScheduleSpec"] = ScheduleSpec /\ CopyOf["ScheduleSpec"] = CopyScheduleSpec
    BY DEF TypeOf, CopyOf
  <2>2. Detaches(ScheduleSpec, CopyScheduleSpec)
    BY DEF Detaches, ScheduleSpec, CopyScheduleSpec, Struct, Pointer, SliceOf, Into, Fresh,
           FreshInto, TypeNames, Leaves
  <2> QED BY <2>1, <2>2
<1>4. Detaches(TypeOf["VeleroRestoreSpec"], CopyOf["VeleroRestoreSpec"])
  <2>1. TypeOf["VeleroRestoreSpec"] = VeleroRestoreSpec /\ CopyOf["VeleroRestoreSpec"] = CopyVeleroRestoreSpec
    BY DEF TypeOf, CopyOf
  <2>2. Detaches(VeleroRestoreSpec, CopyVeleroRestoreSpec)
    BY DEF Detaches, VeleroRestoreSpec, CopyVeleroRestoreSpec, Struct, Pointer, SliceOf, Into, Fresh,
           FreshInto, TypeNames, Leaves
  <2> QED BY <2>1, <2>2
<1>5. Detaches(TypeOf["DMaaSBackup"], CopyOf["DMaaSBackup"])
  <2>1. TypeOf["DMaaSBackup"] = DMaaSBackup /\ CopyOf["DMaaSBackup"] = CopyDMaaSBackup
    BY DEF TypeOf, CopyOf
  <2>2. Detaches(DMaaSBackup, CopyDMaaSBackup)
    BY DEF Detaches, DMaaSBackup, CopyDMaaSBackup, Struct, Pointer, SliceOf, Into, Fresh,
           FreshInto, TypeNames, Leaves
  <2> QED BY <2>1, <2>2
<1>6. Detaches(TypeOf["DMaaSBackupSpec"], CopyOf["DMaaSBackupSpec"])
  <2>1. TypeOf["DMaaSBackupSpec"] = DMaaSBackupSpec /\ CopyOf["DMaaSBackupSpec"] = CopyDMaaSBackupSpec
    BY DEF TypeOf, CopyOf
  <2>2. Detaches(DMaaSBackupSpec, CopyDMaaSBackupSpec)
    BY DEF Detaches, DMaaSBackupSpec, CopyDMaaSBackupSpec, Struct, Pointer, SliceOf, Into, Fresh,
           FreshInto, TypeNames, Leaves
  <2> QED BY <2>1, <2>2
<1>7. Detaches(TypeOf["DMaaSBackupStatus"], CopyOf["DMaaSBackupStatus"])
  <2>1. TypeOf["DMaaSBackupStatus"] = DMaaSBackupStatus /\ CopyOf["DMaaSBackupStatus"] = CopyDMaaSBackupStatus
    BY DEF TypeOf, CopyOf
  <2>2. Detaches(DMaaSBackupStatus, CopyDMaaSBackupStatus)
    BY DEF Detaches, DMaaSBackupStatus, CopyDMaaSBackupStatus, Struct, Pointer, SliceOf, Into, Fresh,
           FreshInto, TypeNames, Leaves
  <2> QED BY <2>1, <2>2
<1>8. Detaches(TypeOf["VeleroScheduleDetails"], CopyOf["VeleroScheduleDetails"])
  <2>1. TypeOf["VeleroScheduleDetails"] = VeleroScheduleDetails /\ CopyOf["VeleroScheduleDetails"] = CopyVeleroScheduleDetails
    BY DEF TypeOf, CopyOf
  <2>2. Detaches(VeleroScheduleDetails, CopyVeleroScheduleDetails)
    BY DEF Detaches, VeleroScheduleDetails, CopyVeleroScheduleDetails, Struct, Pointer, SliceOf, Into, Fresh,
           FreshInto, TypeNames, Leaves
  <2> QED BY <2>1, <2>2
<1>9. Detaches(TypeOf["SnapshotStatusDetails"], CopyOf["SnapshotStatusDetails"])
  <2>1. TypeOf["SnapshotStatusDetails"] = SnapshotStatusDetails /\ CopyOf["SnapshotStatusDetails"] = CopySnapshotStatusDetails
    BY DEF TypeOf, CopyOf
  <2>2. Detaches(SnapshotStatusDetails, CopySnapshotStatusDetails)
    BY DEF Detaches, SnapshotStatusDetails, CopySnapshotStatusDetails, Struct, Pointer, SliceOf, Into, Fresh,
           FreshInto, TypeNames, Leaves
  <2> QED BY <2>1, <2>2
<1>10. Detaches(TypeOf["DMaaSBackupList"], CopyOf["DMaaSBackupList"])
  <2>1. TypeOf["DMaaSBackupList"] = DMaaSBackupList /\ CopyOf["DMaaSBackupList"] = CopyDMaaSBackupList
    BY DEF TypeOf, CopyOf
  <2>2. Detaches(DMaaSBackupList, CopyDMaaSBackupList)
    BY DEF Detaches, DMaaSBackupList, CopyDMaaSBackupList, Struct, Pointer, SliceOf, Into, Fresh,
           FreshInto, TypeNames, Leaves
  <2> QED BY <2>1, <2>2
<1>11. Detaches(TypeOf["PreBackupAction"], CopyOf["PreBackupAction"])
  <2>1. TypeOf["PreBackupAction"] = PreBackupAction /\ CopyOf["PreBackupAction"] = CopyPreBackupAction
    BY DEF TypeOf, CopyOf
  <2>2. Detaches(PreBackupAction, CopyPreBackupAction)
    BY DEF Detaches, PreBackupAction, CopyPreBackupAction, Struct, Pointer, SliceOf, Into, Fresh,
           FreshInto, TypeNames, Leaves
  <2> QED BY <2>1, <2>2
<1>12. Detaches(TypeOf["PreBackupActionSpec"], CopyOf["PreBackupActionSpec"])
  <2>1. TypeOf["PreBackupActionSpec"] = PreBackupActionSpec /\ CopyOf["PreBackupActionSpec"] = CopyPreBackupActionSpec
    BY DEF TypeOf, CopyOf
  <2>2. Detaches(PreBackupActionSpec, CopyPreBackupActionSpec)
    BY DEF Detaches, PreBackupActionSpec, CopyPreBackupActionSpec, Struct, Pointer, SliceOf, Into, Fresh,
           FreshInto, TypeNames, Leaves
  <2> QED BY <2>1, <2>2
<1>13. Detaches(TypeOf["PreBackupActionSetLabel"], CopyOf["PreBackupActionSetLabel"])
  <2>1. TypeOf["PreBackupActionSetLabel"] = PreBackupActionSetLabel /\ CopyOf["PreBackupActionSetLabel"] = CopyPreBackupActionSetLabel
    BY DEF TypeOf, CopyOf
  <2>2. Detaches(PreBackupActionSetLabel, CopyPreBackupActionSetLabel)
    BY DEF Detaches, PreBackupActionSetLabel, CopyPreBackupActionSetLabel, Struct, Pointer, SliceOf, Into, Fresh,
           FreshInto, TypeNames, Leaves
  <2> QED BY <2>1, <2>2
<1>14. Detaches(TypeOf["PreBackupActionSetAnnotation"], CopyOf["PreBackupActionSetAnnotation"])
  <2>1. TypeOf["PreBackupActionSetAnnotation"] = PreBackupActionSetAnnotation /\ CopyOf["PreBackupActionSetAnnotation"] = CopyPreBackupActionSetAnnotation
    BY DEF TypeOf, CopyOf
  <2>2. Detaches(PreBackupActionSetAnnotation, CopyPreBackupActionSetAnnotation)
    BY DEF Detaches, PreBackupActionSetAnnotation, CopyPreBackupActionSetAnnotation, Struct, Pointer, SliceOf, Into, Fresh,
           FreshInto, TypeNames, Leaves
  <2> QED BY <2>1, <2>2
<1>15. Detaches(TypeOf["TargetResource"], CopyOf["TargetResource"])
  <2>1. TypeOf["TargetResource"] = TargetResource /\ CopyOf["TargetResource"] = CopyTargetResource
    BY DEF TypeOf, CopyOf
  <2>2. Detaches(TargetResource, CopyTargetResource)
    BY DEF Detaches, TargetResource, CopyTargetResource, Struct, Pointer, SliceOf, Into, Fresh,
           FreshInto, TypeNames, Leaves
  <2> QED BY <2>1, <2>2
<1>16. Detaches(TypeOf["PreBackupActionStatus"], CopyOf["PreBackupActionStatus"])
  <2>1. TypeOf["PreBackupActionStatus"] = PreBackupActionStatus /\ CopyOf["PreBackupActionStatus"] = CopyPreBackupActionStatus
    BY DEF TypeOf, CopyOf
  <2>2. Detaches(PreBackupActionStatus, CopyPreBackupActionStatus)
    BY DEF Detaches, PreBackupActionStatus, CopyPreBackupActionStatus, Struct, Pointer, SliceOf, Into, Fresh,
           FreshInto, TypeNames, Leaves
  <2> QED BY <2>1, <2>2
<1>17. Detaches(TypeOf["PreBackupActionList"], CopyOf["PreBackupActionList"])
  <2>1. TypeOf["PreBackupActionList"] = PreBackupActionList /\ CopyOf["PreBackupActionList"] = CopyPreBackupActionList
    BY DEF TypeOf, CopyOf
  <2>2. Detaches(PreBackupActionList, CopyPreBackupActionList)
    BY DEF Detaches, PreBackupActionList, CopyPreBackupActionList, Struct, Pointer, SliceOf, Into, Fresh,
           FreshInto, TypeNames, Leaves
  <2> QED BY <2>1, <2>2
<1>18. Detaches(TypeOf["DMaaSRestore"], CopyOf["DMaaSRestore"])
  <2>1. TypeOf["DMaaSRestore"] = DMaaSRestore /\ CopyOf["DMaaSRestore"] = CopyDMaaSRestore
    BY DEF TypeOf, CopyOf
  <2>2. Detaches(DMaaSRestore, CopyDMaaSRestore)
    BY DEF Detaches, DMaaSRestore, CopyDMaaSRestore, Struct, Pointer, SliceOf, Into, Fresh,
           FreshInto, TypeNames, Leaves
  <2> QED BY <2>1, <2>2
<1>19. Detaches(TypeOf["RestoreSpec"], CopyOf["RestoreSpec"])
  <2>1. TypeOf["RestoreSpec"] = RestoreSpec /\ CopyOf["RestoreSpec"] = CopyRestoreSpec
    BY DEF TypeOf, CopyOf
  <2>2. Detaches(RestoreSpec, CopyRestoreSpec)
    BY DEF Detaches, RestoreSpec, CopyRestoreSpec, Struct, Pointer, SliceOf, Into, Fresh,
           FreshInto, TypeNames, Leaves
  <2> QED BY <2>1, <2>2
<1>20. Detaches(TypeOf["RestoreStatus"], CopyOf["RestoreStatus"])
  <2>1. TypeOf["RestoreStatus"] = RestoreStatus /\ CopyOf["RestoreStatus"] = CopyRestoreStatus
    BY DEF TypeOf, CopyOf
  <2>2. Detaches(RestoreStatus, CopyRestoreStatus)
    BY DEF Detaches, RestoreStatus, CopyRestoreStatus, Struct, Pointer, SliceOf, Into, Fresh,
           FreshInto, TypeNames, Leaves
  <2> QED BY <2>1, <2>2
<1>21. Detaches(TypeOf["RestoreCondition"], CopyOf["RestoreCondition"])
  <2>1. TypeOf["RestoreCondition"] = RestoreCondition /\ CopyOf["RestoreCondition"] = CopyRestoreCondition
    BY DEF TypeOf, CopyOf
  <2>2. Detaches(RestoreCondition, CopyRestoreCondition)
    BY DEF Detaches, RestoreCondition, CopyRestoreCondition, Struct, Pointer, SliceOf, Into, Fresh,
           FreshInto, TypeNames, Leaves
  <2> QED BY <2>1, <2>2
<1>22. Detaches(TypeOf["RestoreDetails"], CopyOf["RestoreDetails"])
  <2>1. TypeOf["RestoreDetails"] = RestoreDetails /\ CopyOf["RestoreDetails"] = CopyRestoreDetails
    BY DEF TypeOf, CopyOf
  <2>2. Detaches(RestoreDetails, CopyRestoreDetails)
    BY DEF Detaches, RestoreDetails, CopyRestoreDetails, Struct, Pointer, SliceOf, Into, Fresh,
           FreshInto, TypeNames, Leaves
  <2> QED BY <2>1, <2>2
<1>23. Detaches(TypeOf["PVRestoreStatusDetails"], CopyOf["PVRestoreStatusDetails"])
  <2>1. TypeOf["PVRestoreStatusDetails"] = PVRestoreStatusDetails /\ CopyOf["PVRestoreStatusDetails"] = CopyPVRestoreStatusDetails
    BY DEF TypeOf, CopyOf
  <2>2. Detaches(PVRestoreStatusDetails, CopyPVRestoreStatusDetails)
    BY DEF Detaches, PVRestoreStatusDetails, CopyPVRestoreStatusDetails, Struct, Pointer, SliceOf, Into, Fresh,
           FreshInto, TypeNames, Leaves
  <2> QED BY <2>1, <2>2
<1>24. Detaches(TypeOf["DMaaSRestoreList"], CopyOf["DMaaSRestoreList"])
  <2>1. TypeOf["DMaaSRestoreList"] = DMaaSRestoreList /\ CopyOf["DMaaSRestoreList"] = CopyDMaaSRestoreList
    BY DEF TypeOf, CopyOf
  <2>2. Detaches(DMaaSRestoreList, CopyDMaaSRestoreList)
    BY DEF Detaches, DMaaSRestoreList, CopyDMaaSRestoreList, Struct, Pointer, SliceOf, Into, Fresh,
           FreshInto, TypeNames, Leaves
  <2> QED BY <2>1, <2>2
<1>25. \A T \in Leaves : Detaches(TypeOf[T], CopyOf[T])
  BY NothingWithin DEF Detaches
<1> HIDE DEF Detaches
<1> QED BY <1>1, <1>2, <1>3, <1>4, <1>5, <1>6, <1>7, <1>8, <1>9, <1>10, <1>11, <1>12, <1>13, <1>14, <1>15, <1>16, <1>17, <1>18, <1>19, <1>20, <1>21, <1>22, <1>23, <1>24, <1>25 DEF TypeNames, Leaves

\* The steps from a struct to one of its fields, and the ways that lead through
\* the fields' types.
Steps ==
  UNION {[of : {T}, field : DOMAIN TypeOf[T], element : Nat] : T \in TypeNames}

Way(w) ==
  w \in Seq(Steps) /\ \A k \in 1 .. Len(w) - 1 : Field(w[k]).of = w[k + 1].of

IsReference(w) == Way(w) /\ w # <<>> /\ Field(Last(w)).kind # "struct"

IsHolder(h) ==
  /\ Way(h.way) /\ h.type \in TypeNames
  /\ h.way # <<>> => h.type = Field(Last(h.way)).of

LEMMA StepType ==
  ASSUME NEW s \in Steps
  PROVE  /\ s.of \in TypeNames /\ s.field \in DOMAIN TypeOf[s.of] /\ s.element \in Nat
         /\ s = [of |-> s.of, field |-> s.field, element |-> s.element]
         /\ Field(s).of \in TypeNames
         /\ Field(s).kind # "struct" => How(s) \in {Fresh, FreshInto}
         /\ DOMAIN TypeOf[Field(s).of] # {} => How(s) \in {Into, FreshInto}
<1>1. /\ s.of \in TypeNames /\ s.field \in DOMAIN TypeOf[s.of] /\ s.element \in Nat
      /\ s = [of |-> s.of, field |-> s.field, element |-> s.element]
  BY DEF Steps
<1>2. Detaches(TypeOf[s.of], CopyOf[s.of])
  BY <1>1, GeneratedFromTypes
<1>3. /\ Field(s).of \in TypeNames
      /\ Field(s).kind # "struct" => How(s) \in {Fresh, FreshInto}
      /\ Field(s).of \in Leaves \/ How(s) \in {Into, FreshInto}
  BY <1>1, <1>2, Zenon DEF Detaches, Field, How
<1> QED BY <1>1, <1>3, NothingWithin, Zenon

\* The copying functions reach every reference of an object.
LEMMA EveryWayRenewed ==
  ASSUME NEW w, IsReference(w)
  PROVE  Renewed(w)
<1>1. w \in Seq(Steps) /\ Len(w) \in Nat /\ Len(w) > 0
  BY DEF IsReference, Way
<1>2. How(Last(w)) \in {Fresh, FreshInto}
  <2>1. Last(w) \in Steps /\ Field(Last(w)).kind # "struct"
    BY <1>1 DEF IsReference, Last
  <2> QED BY <2>1, StepType
<1>3. ASSUME NEW k \in 1 .. Len(w) - 1
      PROVE  How(w[k]) \in {Into, FreshInto}
  <2>1. w[k] \in Steps /\ w[k + 1] \in Steps /\ Field(w[k]).of = w[k + 1].of
    BY <1>1 DEF IsReference, Way
  <2>2. DOMAIN TypeOf[Field(w[k]).of] # {}
    BY <2>1, StepType
  <2> QED BY <2>1, <2>2, StepType
<1> QED BY <1>2, <1>3 DEF Renewed

\* A step from a struct at hand is a way.
LEMMA StepFrom ==
  ASSUME NEW h, IsHolder(h), NEW f \in DOMAIN TypeOf[h.type]
  PROVE  /\ Way(Append(h.way, Step(h.type, f)))
         /\ Append(h.way, Step(h.type, f)) # <<>>
         /\ Last(Append(h.way, Step(h.type, f))) = Step(h.type, f)
         /\ Step(h.type, f) \in Steps
<1> DEFINE s == Step(h.type, f)
           w == h.way
           v == Append(w, s)
<1>1. s \in Steps /\ s.of = h.type
  BY DEF Step, Steps, IsHolder
<1> HIDE DEF s
<1>2. w \in Seq(Steps) /\ Len(w) \in Nat
  BY DEF IsHolder, Way
<1>3. /\ v \in Seq(Steps) /\ Len(v) = Len(w) + 1 /\ v[Len(w) + 1] = s
      /\ \A k \in 1 .. Len(w) : v[k] = w[k]
  BY <1>1, <1>2
<1>4. ASSUME NEW k \in 1 .. Len(v) - 1
      PROVE  Field(v[k]).of = v[k + 1].of
  <2>1. CASE k = Len(w)
    <3>1. w # <<>>
      BY <1>2, <1>3, <2>1
    <3>2. Field(w[k]).of = h.type
      BY <2>1, <3>1 DEF IsHolder, Last
    <3> QED BY <1>1, <1>2, <1>3, <2>1, <3>2
  <2>2. CASE k # Len(w)
    <3>1. k \in 1 .. Len(w) - 1 /\ k + 1 \in 1 .. Len(w)
      BY <1>2, <1>3, <2>2
    <3>2. Field(w[k]).of = w[k + 1].of
      BY <3>1 DEF IsHolder, Way
    <3> QED BY <1>3, <3>1, <3>2
  <2> QED BY <2>1, <2>2
<1>5. Way(v)
  BY <1>3, <1>4 DEF Way
<1>6. v # <<>> /\ Last(v) = s
  BY <1>2, <1>3 DEF Last
<1> QED BY <1>1, <1>5, <1>6 DEF s

\* So is one that goes on through a reference.
LEMMA ThroughReference ==
  ASSUME NEW w, IsReference(w), NEW i \in Nat
  PROVE  IsHolder(Holder(Through(w, i), Field(Last(w)).of))
<1> DEFINE v == Through(w, i)
           n == Len(w)
<1>1. w \in Seq(Steps) /\ n \in Nat /\ n > 0
  BY DEF IsReference, Way
<1> DEFINE x == w[n]
           y == [x EXCEPT !.element = i]
<1>2. x \in Steps
  BY <1>1
<1>3. y \in Steps /\ y.of = x.of /\ y.field = x.field
  <2>1. /\ x.of \in TypeNames /\ x.field \in DOMAIN TypeOf[x.of]
        /\ x = [of |-> x.of, field |-> x.field, element |-> x.element]
    BY <1>2, StepType
  <2>2. y = [of |-> x.of, field |-> x.field, element |-> i]
    BY <2>1
  <2> QED BY <2>1, <2>2 DEF Steps
<1>4. v = [w EXCEPT ![n] = y]
  BY DEF Through
<1> HIDE DEF v, y
<1>5. /\ v \in Seq(Steps) /\ Len(v) = n /\ v[n] = y
      /\ \A k \in 1 .. n - 1 : v[k] = w[k]
  BY <1>1, <1>3, <1>4
<1>6. \A k \in 1 .. n : Field(v[k]) = Field(w[k]) /\ v[k].of = w[k].of
  <2> SUFFICES ASSUME NEW k \in 1 .. n
               PROVE  Field(v[k]) = Field(w[k]) /\ v[k].of = w[k].of
    OBVIOUS
  <2>1. CASE k = n
    BY <1>3, <1>5, <2>1 DEF Field
  <2>2. CASE k # n
    BY <1>1, <1>5, <2>2
  <2> QED BY <2>1, <2>2
<1>7. Way(v)
  <2>1. ASSUME NEW k \in 1 .. n - 1
        PROVE  Field(v[k]).of = v[k + 1].of
    <3>1. Field(w[k]).of = w[k + 1].of /\ k \in 1 .. n /\ k + 1 \in 1 .. n
      BY <1>1 DEF IsReference, Way
    <3> QED BY <1>6, <3>1
  <2> QED BY <1>5, <2>1 DEF Way
<1>8. Field(Last(w)).of \in TypeNames /\ Field(Last(v)).of = Field(Last(w)).of
  <2>1. Last(w) = x /\ Last(v) = v[n] /\ n \in 1 .. n
    BY <1>1, <1>5 DEF Last
  <2> QED BY <1>2, <1>6, <2>1, StepType
<1> QED BY <1>7, <1>8 DEF IsHolder, Holder, v

\* So is one to a struct within a struct.
LEMMA WithinHolders ==
  ASSUME NEW holders, \A h \in holders : IsHolder(h)
  PROVE  \A h \in WithFields(holders) : IsHolder(h)
<1>1. ASSUME NEW h \in holders, NEW f \in DOMAIN TypeOf[h.type]
      PROVE  IsHolder(Holder(Append(h.way, Step(h.type, f)), TypeOf[h.type][f].of))
  <2> DEFINE v == Append(h.way, Step(h.type, f))
  <2>1. IsHolder(h)
    BY <1>1
  <2>2. Way(v) /\ v # <<>> /\ Last(v) = Step(h.type, f) /\ Step(h.type, f) \in Steps
    BY <1>1, <2>1, StepFrom
  <2>3. Field(Step(h.type, f)) = TypeOf[h.type][f]
    BY DEF Field, Step
  <2>4. TypeOf[h.type][f].of \in TypeNames
    BY <2>2, <2>3, StepType
  <2> HIDE DEF v
  <2>5. IsHolder(Holder(v, TypeOf[h.type][f].of))
    BY <2>2, <2>3, <2>4 DEF IsHolder, Holder
  <2> QED BY <2>5 DEF v
<1>2. ASSUME NEW x \in WithFields(holders)
      PROVE  \/ x \in holders
             \/ \E h \in holders : \E f \in DOMAIN TypeOf[h.type] :
                  x = Holder(Append(h.way, Step(h.type, f)), TypeOf[h.type][f].of)
  BY <1>2, Zenon DEF WithFields
<1>3. ASSUME NEW x \in WithFields(holders)
      PROVE  IsHolder(x)
  <2>1. CASE x \in holders
    BY <2>1
  <2>2. CASE \E h \in holders : \E f \in DOMAIN TypeOf[h.type] :
               x = Holder(Append(h.way, Step(h.type, f)), TypeOf[h.type][f].of)
    <3>1. PICK h \in holders : \E f \in DOMAIN TypeOf[h.type] :
            x = Holder(Append(h.way, Step(h.type, f)), TypeOf[h.type][f].of)
      BY <2>2
    <3>2. PICK f \in DOMAIN TypeOf[h.type] :
            x = Holder(Append(h.way, Step(h.type, f)), TypeOf[h.type][f].of)
      BY <3>1
    <3> QED BY <1>1, <3>2
  <2> QED BY <1>2, <2>1, <2>2
<1> QED BY <1>3

\* What is known of an object: its references are named by ways of its types.
ObjectInv ==
  /\ root \in TypeNames
  /\ \A w \in DOMAIN size : IsReference(w) /\ size[w] \in Nat

\* A reference that is nil can be set.
LEMMA NilsAreReferences ==
  ASSUME ObjectInv
  PROVE  \A w \in Nils(root, size) : IsReference(w)
<1> DEFINE top == {Holder(<<>>, root)}
           below == UNION {{Holder(Through(w, i), Field(Last(w)).of) : i \in 1 .. size[w]} :
                           w \in DOMAIN size}
<1>1. \A h \in top : IsHolder(h)
  <2>1. Way(<<>>)
    BY DEF Way
  <2> QED BY <2>1 DEF ObjectInv, IsHolder, Holder
<1>2. \A h \in below : IsHolder(h)
  <2> SUFFICES ASSUME NEW w \in DOMAIN size, NEW i \in 1 .. size[w]
               PROVE  IsHolder(Holder(Through(w, i), Field(Last(w)).of))
    BY Zenon
  <2>1. IsReference(w) /\ i \in Nat
    BY DEF ObjectInv
  <2> QED BY <2>1, ThroughReference
<1> HIDE DEF top, below
<1>3. \A h \in top \union below : IsHolder(h)
  BY <1>1, <1>2
<1>4. \A h \in WithFields(top \union below) : IsHolder(h)
  BY <1>3, WithinHolders
<1>5. \A h \in Structs(root, size) : IsHolder(h)
  <2>1. \A h \in WithFields(WithFields(top \union below)) : IsHolder(h)
    BY <1>4, WithinHolders
  <2> QED BY <2>1 DEF Structs, top, below
<1>6. ASSUME NEW h \in Structs(root, size), NEW f \in DOMAIN TypeOf[h.type],
             TypeOf[h.type][f].kind # "struct"
      PROVE  IsReference(Append(h.way, Step(h.type, f)))
  <2> DEFINE v == Append(h.way, Step(h.type, f))
  <2>1. Way(v) /\ v # <<>> /\ Last(v) = Step(h.type, f)
    BY <1>5, <1>6, StepFrom
  <2>2. Field(Step(h.type, f)) = TypeOf[h.type][f]
    BY DEF Field, Step
  <2> HIDE DEF v
  <2>3. IsReference(v)
    BY <1>6, <2>1, <2>2 DEF IsReference
  <2> QED BY <2>3 DEF v
<1> SUFFICES ASSUME NEW w \in Nils(root, size)
             PROVE  IsReference(w)
  OBVIOUS
<1>7. \E h \in Structs(root, size) :
        \E f \in DOMAIN TypeOf[h.type] :
          TypeOf[h.type][f].kind # "struct" /\ w = Append(h.way, Step(h.type, f))
  BY Zenon DEF Nils
<1> QED BY <1>6, <1>7, Zenon

\* Setting one leaves an object whose references are so named.
LEMMA ObjectBuilt == FunctionsSpec => []ObjectInv
<1>1. FunctionsInit => ObjectInv
  <2> SUFFICES ASSUME FunctionsInit
               PROVE  ObjectInv
    OBVIOUS
  <2>1. root \in TypeNames
    BY DEF FunctionsInit, Kinds, TypeNames
  <2>2. DOMAIN size = {}
    BY DEF FunctionsInit
  <2> QED BY <2>1, <2>2 DEF ObjectInv
<1>2. ObjectInv /\ [FunctionsNext]_functionVars => ObjectInv'
  <2> SUFFICES ASSUME ObjectInv, [FunctionsNext]_functionVars
               PROVE  ObjectInv'
    OBVIOUS
  <2>1. CASE Refer
    <3>1. PICK nil \in Nils(root, size) :
            \E n \in IF Field(Last(nil)).kind = "pointer" THEN {1} ELSE 0 .. 2 :
              size' = [w \in DOMAIN size \union {nil} |-> IF w = nil THEN n ELSE size[w]]
      BY <2>1 DEF Refer
    <3>2. PICK n \in Nat :
            size' = [w \in DOMAIN size \union {nil} |-> IF w = nil THEN n ELSE size[w]]
      <4>1. (IF Field(Last(nil)).kind = "pointer" THEN {1} ELSE 0 .. 2) \subseteq Nat
        OBVIOUS
      <4> QED BY <3>1, <4>1, Zenon
    <3>3. IsReference(nil)
      BY NilsAreReferences
    <3>4. root' = root
      BY <2>1 DEF Refer
    <3>5. \A w \in DOMAIN size' : IsReference(w) /\ size'[w] \in Nat
      BY <3>2, <3>3 DEF ObjectInv
    <3> QED BY <3>4, <3>5 DEF ObjectInv
  <2>2. CASE root' = root /\ size' = size
    BY <2>2 DEF ObjectInv
  <2>3. \/ Refer
        \/ root' = root /\ size' = size
    BY DEF FunctionsNext, functionVars
  <2> QED BY <2>1, <2>2, <2>3
<1> QED BY <1>1, <1>2, PTL DEF FunctionsSpec

\* No copy of an API object shares memory with the object it is made of, and it
\* says the same: however many references are set, and whatever they lead to
\* (zz_generated.deepcopy.go).
THEOREM CopiesDetached == FunctionsSpec => []DeepCopyDetached
<1>1. ObjectInv => DeepCopyDetached
  <2> SUFFICES ASSUME ObjectInv
               PROVE  DeepCopyDetached
    OBVIOUS
  <2> DEFINE read == Made(size)
             dbkp == Copied(read)
  <2>1. /\ DOMAIN read = DOMAIN size
        /\ \A w \in DOMAIN size : read[w] = Reference("informer", w, size[w])
    BY DEF Made
  <2> HIDE DEF read
  <2>2. \A w \in DOMAIN size : Renewed(w)
    BY EveryWayRenewed DEF ObjectInv
  <2>3. /\ DOMAIN dbkp = DOMAIN size
        /\ \A w \in DOMAIN size : dbkp[w] = Reference("copy", w, read[w].to)
    BY <2>1, <2>2 DEF Copied
  <2> HIDE DEF dbkp
  <2>4. \A w \in DOMAIN size : dbkp[w].to = read[w].to
    BY <2>3 DEF Reference
  <2>5. Content(dbkp) = Content(read)
    BY <2>1, <2>3, <2>4 DEF Content
  <2>6. /\ \A at \in Places(read) : at.memory = "informer"
        /\ \A at \in Places(dbkp) : at.memory = "copy"
    BY <2>1, <2>3 DEF Places, Reference
  <2>7. Places(dbkp) \intersect Places(read) = {}
    BY <2>6
  <2> QED BY <2>5, <2>7 DEF DeepCopyDetached, dbkp, read
<1> QED BY <1>1, ObjectBuilt, PTL

=============================================================================
