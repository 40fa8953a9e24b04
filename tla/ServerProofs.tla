----------------------------- MODULE ServerProofs -----------------------------
(***************************************************************************)
(* Proofs about the controllers' machinery, for any number of controllers,  *)
(* workers, objects, changes and faults.                                   *)
(***************************************************************************)
EXTENDS ServerProperties, TLAPS

-----------------------------------------------------------------------------
(* What the operations of a work queue preserve, for any set of keys.       *)

\* Add keeps a queue well-formed; afterwards k is dirty, or the queue is down.
LEMMA AddFacts ==
  ASSUME NEW q \in Queue, NEW k \in Key
  PROVE  /\ Add(q, k) \in Queue
         /\ Consistent(q) => Consistent(Add(q, k))
         /\ q.down \/ k \in Add(q, k).dirty
         /\ q.dirty \subseteq Add(q, k).dirty
         /\ Add(q, k).dirty \subseteq q.dirty \union {k}
         /\ Add(q, k).processing = q.processing
         /\ Add(q, k).delayed = q.delayed
         /\ Add(q, k).backoff = q.backoff
         /\ Add(q, k).down = q.down
<1>1. CASE q.down \/ k \in q.dirty
  BY <1>1 DEF Add
<1>2. CASE ~q.down /\ k \notin q.dirty
  <2> DEFINE items == IF k \in q.processing THEN q.items ELSE Append(q.items, k)
  <2>1. Add(q, k) = [q EXCEPT !.dirty = q.dirty \union {k}, !.items = items]
    BY <1>2 DEF Add
  <2>2. items \in Seq(Key)
    BY DEF Queue
  <2>3. Add(q, k) \in Queue
    BY <2>1, <2>2 DEF Queue
  <2>4. ASSUME Consistent(q) PROVE Consistent(Add(q, k))
    <3>1. CASE k \in q.processing
      BY <1>2, <2>1, <2>4, <3>1 DEF Consistent, Line, Queue
    <3>2. CASE k \notin q.processing
      <4>1. Add(q, k).items = Append(q.items, k) /\ q.items \in Seq(Key)
        BY <2>1, <3>2 DEF Queue
      <4>2. Line(Add(q, k)) = Line(q) \union {k}
        BY <4>1 DEF Line
      <4>3. k \notin Line(q)
        BY <1>2, <2>4 DEF Consistent
      <4>4. \A i, j \in DOMAIN Add(q, k).items :
              Add(q, k).items[i] = Add(q, k).items[j] => i = j
        BY <4>1, <4>3, <2>4 DEF Consistent, Line
      <4> QED
        BY <4>2, <4>4, <2>1, <3>2, <2>4 DEF Consistent, Queue
    <3> QED
      BY <3>1, <3>2
  <2> QED
    BY <1>2, <2>1, <2>3, <2>4 DEF Queue
<1> QED
  BY <1>1, <1>2

\* The end of a delay is an Add.
LEMMA ReadyFacts ==
  ASSUME NEW q \in Queue, NEW k \in Key
  PROVE  /\ Ready(q, k) \in Queue
         /\ Consistent(q) => Consistent(Ready(q, k))
         /\ q.down \/ k \in Ready(q, k).dirty
         /\ q.dirty \subseteq Ready(q, k).dirty
         /\ Ready(q, k).dirty \subseteq q.dirty \union {k}
         /\ Ready(q, k).processing = q.processing
         /\ Ready(q, k).delayed = q.delayed \ {k}
         /\ Ready(q, k).backoff = q.backoff
         /\ Ready(q, k).down = q.down
<1> DEFINE p == [q EXCEPT !.delayed = q.delayed \ {k}]
<1>1. p \in Queue /\ Ready(q, k) = Add(p, k)
  BY DEF Queue, Ready
<1>2. Consistent(q) => Consistent(p)
  BY DEF Consistent, Line, Queue
<1>3. p.dirty = q.dirty /\ p.processing = q.processing /\ p.backoff = q.backoff /\ p.down = q.down
      /\ p.delayed = q.delayed \ {k}
  BY DEF Queue
<1> HIDE DEF p
<1> QED
  BY <1>1, <1>2, <1>3, AddFacts

\* A failed key is delayed, unless the queue is down.
LEMMA AddRateLimitedFacts ==
  ASSUME NEW q \in Queue, NEW k \in Key
  PROVE  /\ AddRateLimited(q, k) \in Queue
         /\ Consistent(q) => Consistent(AddRateLimited(q, k))
         /\ q.down \/ k \in AddRateLimited(q, k).delayed
         /\ q.delayed \subseteq AddRateLimited(q, k).delayed
         /\ AddRateLimited(q, k).delayed \subseteq q.delayed \union {k}
         /\ AddRateLimited(q, k).dirty = q.dirty
         /\ AddRateLimited(q, k).processing = q.processing
         /\ AddRateLimited(q, k).down = q.down
         /\ AddRateLimited(q, k).backoff = q.backoff \union {k}
BY DEF AddRateLimited, Queue, Consistent, Line

LEMMA ForgetFacts ==
  ASSUME NEW q \in Queue, NEW k \in Key
  PROVE  /\ Forget(q, k) \in Queue
         /\ Consistent(q) => Consistent(Forget(q, k))
         /\ Forget(q, k).delayed = q.delayed
         /\ Forget(q, k).dirty = q.dirty
         /\ Forget(q, k).processing = q.processing
         /\ Forget(q, k).down = q.down
         /\ Forget(q, k).backoff = q.backoff \ {k}
BY DEF Forget, Queue, Consistent, Line

LEMMA ShutDownFacts ==
  ASSUME NEW q \in Queue
  PROVE  /\ ShutDown(q) \in Queue
         /\ Consistent(q) => Consistent(ShutDown(q))
         /\ ShutDown(q).delayed = q.delayed
         /\ ShutDown(q).dirty = q.dirty
         /\ ShutDown(q).processing = q.processing
         /\ ShutDown(q).down
         /\ ShutDown(q).backoff = q.backoff
BY DEF ShutDown, Queue, Consistent, Line

\* Get hands out a key that nobody was processing.
LEMMA GetFacts ==
  ASSUME NEW q \in Queue, q.items # <<>>
  PROVE  /\ Get(q) \in Queue
         /\ Head(q.items) \in Key
         /\ Consistent(q) => Consistent(Get(q)) /\ Head(q.items) \notin q.processing
                             /\ Head(q.items) \in q.dirty
         /\ Get(q).delayed = q.delayed
         /\ Get(q).dirty = q.dirty \ {Head(q.items)}
         /\ Get(q).processing = q.processing \union {Head(q.items)}
         /\ Get(q).down = q.down
         /\ Get(q).backoff = q.backoff
<1> DEFINE k == Head(q.items)
<1>1. q.items \in Seq(Key) /\ Tail(q.items) \in Seq(Key) /\ k \in Key /\ k = q.items[1]
      /\ 1 \in DOMAIN q.items
  BY DEF Queue
<1>2. /\ Get(q) \in Queue
      /\ Get(q).items = Tail(q.items)
      /\ Get(q).delayed = q.delayed /\ Get(q).dirty = q.dirty \ {k}
      /\ Get(q).processing = q.processing \union {k}
      /\ Get(q).down = q.down /\ Get(q).backoff = q.backoff
  BY <1>1 DEF Get, Queue
<1>3. ASSUME Consistent(q) PROVE Consistent(Get(q)) /\ k \in q.dirty \ q.processing
  <2>1. k \in Line(q) /\ Line(q) = q.dirty \ q.processing
    BY <1>1, <1>3 DEF Consistent, Line
  <2>2. \A i \in DOMAIN Tail(q.items) :
          i + 1 \in DOMAIN q.items /\ Tail(q.items)[i] = q.items[i + 1] /\ i \in Nat
    BY <1>1
  <2>3. \A i \in DOMAIN q.items : i # 1 =>
          i - 1 \in DOMAIN Tail(q.items) /\ q.items[i] = Tail(q.items)[i - 1]
    BY <1>1
  <2>4. \A i, j \in DOMAIN Get(q).items : Get(q).items[i] = Get(q).items[j] => i = j
    <3> SUFFICES ASSUME NEW i \in DOMAIN Tail(q.items), NEW j \in DOMAIN Tail(q.items),
                        Tail(q.items)[i] = Tail(q.items)[j]
                 PROVE  i = j
      BY <1>2
    <3>1. q.items[i + 1] = q.items[j + 1] /\ i + 1 \in DOMAIN q.items /\ j + 1 \in DOMAIN q.items
      BY <2>2
    <3>2. i + 1 = j + 1
      BY <3>1, <1>3 DEF Consistent
    <3> QED
      BY <3>2, <2>2
  <2>5. Line(Get(q)) = Line(q) \ {k}
    <3>1. ASSUME NEW x \in Line(Get(q)) PROVE x \in Line(q) \ {k}
      <4>1. PICK i \in DOMAIN Tail(q.items) : x = Tail(q.items)[i]
        BY <1>2, <3>1 DEF Line
      <4>2. x = q.items[i + 1] /\ i + 1 \in DOMAIN q.items /\ i + 1 # 1
        BY <4>1, <2>2, <1>1
      <4> QED
        BY <4>2, <1>1, <1>3 DEF Consistent, Line
    <3>2. ASSUME NEW x \in Line(q) \ {k} PROVE x \in Line(Get(q))
      <4>1. PICK i \in DOMAIN q.items : x = q.items[i]
        BY <3>2 DEF Line
      <4>2. i # 1
        BY <4>1, <3>2, <1>1
      <4> QED
        BY <4>1, <4>2, <2>3, <1>2 DEF Line
    <3> QED
      BY <3>1, <3>2
  <2> QED
    BY <2>1, <2>4, <2>5, <1>2 DEF Consistent
<1> QED
  BY <1>1, <1>2, <1>3

\* Done gives k back; when it has become dirty meanwhile it is in line again.
LEMMA DoneFacts ==
  ASSUME NEW q \in Queue, NEW k \in q.processing
  PROVE  /\ Done(q, k) \in Queue
         /\ Consistent(q) => Consistent(Done(q, k))
         /\ Done(q, k).delayed = q.delayed
         /\ Done(q, k).dirty = q.dirty
         /\ Done(q, k).processing = q.processing \ {k}
         /\ Done(q, k).down = q.down
         /\ Done(q, k).backoff = q.backoff
<1> DEFINE items == IF k \in q.dirty THEN Append(q.items, k) ELSE q.items
<1>1. k \in Key /\ q.items \in Seq(Key) /\ items \in Seq(Key)
  BY DEF Queue
<1>2. /\ Done(q, k) \in Queue /\ Done(q, k).items = items
      /\ Done(q, k).delayed = q.delayed /\ Done(q, k).dirty = q.dirty
      /\ Done(q, k).processing = q.processing \ {k}
      /\ Done(q, k).down = q.down /\ Done(q, k).backoff = q.backoff
  BY <1>1 DEF Done, Queue
<1>3. ASSUME Consistent(q) PROVE Consistent(Done(q, k))
  <2>1. CASE k \notin q.dirty
    BY <1>2, <1>3, <2>1 DEF Consistent, Line
  <2>2. CASE k \in q.dirty
    <3>1. Done(q, k).items = Append(q.items, k)
      BY <1>2, <2>2
    <3>2. Line(Done(q, k)) = Line(q) \union {k}
      BY <3>1, <1>1 DEF Line
    <3>3. k \notin Line(q)
      BY <1>3 DEF Consistent
    <3>4. \A i, j \in DOMAIN Done(q, k).items :
            Done(q, k).items[i] = Done(q, k).items[j] => i = j
      BY <3>1, <3>3, <1>1, <1>3 DEF Consistent, Line
    <3> QED
      BY <3>2, <3>4, <1>2, <1>3, <2>2 DEF Consistent
  <2> QED
    BY <2>1, <2>2
<1> QED
  BY <1>2, <1>3

\* The queue newController makes.
LEMMA EmptyFacts ==
  /\ Empty \in Queue /\ Consistent(Empty)
  /\ Empty.dirty = {} /\ Empty.processing = {} /\ Empty.delayed = {} /\ Empty.backoff = {}
  /\ ~Empty.down /\ Empty.items = <<>>
<1>1. <<>> \in Seq(Key) /\ DOMAIN <<>> = {}
  OBVIOUS
<1> QED
  BY <1>1 DEF Empty, Queue, Consistent, Line

-----------------------------------------------------------------------------
(* The invariant.                                                          *)

Busy == {"call", "execute", "return", "done"}

WorkerState == [pc : {"none", "until", "get", "call", "execute", "return", "done", "ended"},
                key : Key \union {NoKey}, wants : BOOLEAN]

OwnKeys(c) == {k \in Key : Owner[k] = c}

QueueOK(c, q) ==
  /\ q \in Queue /\ Consistent(q)
  /\ q.dirty \subseteq OwnKeys(c) /\ q.delayed \subseteq OwnKeys(c)

WorkerOK(w, st) ==
  /\ st \in WorkerState
  /\ st.pc \in Busy => st.key \in OwnKeys(w[1])

\* ServerTypeOK is not inductive: that a worker's key is one of its own
\* controller's rests on what is in that controller's queue.
TypeInv ==
  /\ ServerTypeOK
  /\ \A c \in Controllers : QueueOK(c, wq[c])
  /\ \A w \in Worker : WorkerOK(w, worker[w])
  /\ \A c \in Controllers : left[c] \subseteq OwnKeys(c)

\* What is being processed is exactly what the workers handle.
HandleInv ==
  /\ \A w \in Worker :
       worker[w].pc \in Busy => worker[w].key \in wq[w[1]].processing
  /\ \A v, w \in Worker :
       worker[v].pc \in Busy /\ worker[w].pc \in Busy /\ worker[v].key = worker[w].key => v = w
  /\ \A c \in Controllers : \A k \in wq[c].processing :
       \E w \in Worker : w[1] = c /\ worker[w].pc \in Busy /\ worker[w].key = k

\* What the process has done when it gets to a phase.
PhaseInv ==
  /\ phase # "serving" => \A c \in Controllers : run[c] = "new"
  /\ \A w \in Worker : run[w[1]] = "new" => worker[w].pc = "none"
  /\ phase \in {"start", "validated", "clients", "exited"} =>
       \A i \in Informer : informer[i] = "none"
  /\ phase = "registered" => \A i \in Informer : informer[i] = "requested"
  /\ phase \in {"started", "ownSynced"} =>
       \A i \in Informer : informer[i] \in {"running", "synced"}
  /\ phase = "ownSynced" => \A c \in Controllers : informer[c] = "synced"
  /\ phase = "serving" => \A i \in Informer : informer[i] = "synced"
  /\ phase \notin {"start", "exited"} => opts.namespace # "" /\ opts.velero # ""

BaseInv == TypeInv /\ HandleInv /\ PhaseInv

-----------------------------------------------------------------------------
(* Lemmas.                                                                 *)

LEMMA WorkerController ==
  ASSUME NEW w \in Worker PROVE w[1] \in Controllers
BY DEF Worker

\* What a queue operation does for the array of queues.
LEMMA QueuesFacts ==
  ASSUME TypeInv, NEW c \in Controllers, NEW q, QueueOK(c, q), Queues(c, q)
  PROVE  /\ wq' \in [Controllers -> Queue]
         /\ wq'[c] = q /\ \A d \in Controllers : d # c => wq'[d] = wq[d]
         /\ \A d \in Controllers : QueueOK(d, wq'[d])
<1>1. wq \in [Controllers -> Queue]
  BY DEF TypeInv, ServerTypeOK, BaseTypeOK
<1>2. wq' = [wq EXCEPT ![c] = q] /\ q \in Queue
  BY DEF Queues, QueueOK
<1>3. wq'[c] = q /\ \A d \in Controllers : d # c => wq'[d] = wq[d]
  BY <1>1, <1>2
<1>4. \A d \in Controllers : QueueOK(d, wq'[d])
  BY <1>3 DEF TypeInv
<1> QED
  BY <1>1, <1>2, <1>3, <1>4

LEMMA BecomesFacts ==
  ASSUME TypeInv, NEW w \in Worker, NEW st, WorkerOK(w, st), Becomes(w, st)
  PROVE  /\ worker' \in [Worker -> WorkerState]
         /\ worker'[w] = st /\ \A v \in Worker : v # w => worker'[v] = worker[v]
         /\ \A v \in Worker : WorkerOK(v, worker'[v])
<1>1. worker \in [Worker -> WorkerState]
  BY DEF TypeInv, ServerTypeOK, BaseTypeOK, WorkerState
<1>2. worker' = [worker EXCEPT ![w] = st] /\ st \in WorkerState
  BY DEF Becomes, WorkerOK
<1>3. worker'[w] = st /\ \A v \in Worker : v # w => worker'[v] = worker[v]
  BY <1>1, <1>2
<1>4. \A v \in Worker : WorkerOK(v, worker'[v])
  BY <1>3 DEF TypeInv
<1> QED
  BY <1>1, <1>2, <1>3, <1>4

\* Each operation keeps a controller's queue its own.
LEMMA QueueOps ==
  ASSUME NEW c \in Controllers, NEW q, QueueOK(c, q), NEW k \in OwnKeys(c)
  PROVE  /\ QueueOK(c, Add(q, k)) /\ QueueOK(c, Ready(q, k))
         /\ QueueOK(c, AddRateLimited(q, k)) /\ QueueOK(c, Forget(q, k))
         /\ QueueOK(c, ShutDown(q))
         /\ k \in q.processing => QueueOK(c, Done(q, k))
         /\ q.items # <<>> => QueueOK(c, Get(q)) /\ Head(q.items) \in OwnKeys(c)
<1>1. q \in Queue /\ Consistent(q) /\ k \in Key
  BY DEF QueueOK, OwnKeys
<1>2. QueueOK(c, Add(q, k))
  BY <1>1, AddFacts DEF QueueOK
<1>3. QueueOK(c, Ready(q, k))
  BY <1>1, ReadyFacts DEF QueueOK
<1>4. QueueOK(c, AddRateLimited(q, k))
  BY <1>1, AddRateLimitedFacts DEF QueueOK
<1>5. QueueOK(c, Forget(q, k))
  BY <1>1, ForgetFacts DEF QueueOK
<1>6. QueueOK(c, ShutDown(q))
  BY <1>1, ShutDownFacts DEF QueueOK
<1>7. ASSUME k \in q.processing PROVE QueueOK(c, Done(q, k))
  BY <1>1, <1>7, DoneFacts DEF QueueOK
<1>8. ASSUME q.items # <<>> PROVE QueueOK(c, Get(q)) /\ Head(q.items) \in OwnKeys(c)
  BY <1>1, <1>8, GetFacts DEF QueueOK
<1> QED
  BY <1>2, <1>3, <1>4, <1>5, <1>6, <1>7, <1>8

\* Get and ShutDown need no key.
LEMMA QueueGets ==
  ASSUME NEW c \in Controllers, NEW q, QueueOK(c, q)
  PROVE  /\ QueueOK(c, ShutDown(q))
         /\ q.items # <<>> => QueueOK(c, Get(q)) /\ Head(q.items) \in OwnKeys(c)
<1>1. q \in Queue /\ Consistent(q)
  BY DEF QueueOK
<1>2. QueueOK(c, ShutDown(q))
  BY <1>1, ShutDownFacts DEF QueueOK
<1>3. ASSUME q.items # <<>> PROVE QueueOK(c, Get(q)) /\ Head(q.items) \in OwnKeys(c)
  BY <1>1, <1>3, GetFacts DEF QueueOK
<1> QED
  BY <1>2, <1>3

\* The process without a past.
LEMMA FreshFacts ==
  /\ NoInformer \in [Informer -> {"none", "requested", "running", "synced"}]
  /\ NothingCached \in [Key -> Nat]
  /\ EmptyQueues \in [Controllers -> Queue]
  /\ \A c \in Controllers : QueueOK(c, EmptyQueues[c])
  /\ NotRun \in [Controllers -> {"new", "running", "stopping", "stopped", "failed"}]
  /\ NoWorker \in [Worker -> WorkerState]
  /\ \A w \in Worker : WorkerOK(w, NoWorker[w]) /\ NoWorker[w].pc = "none"
  /\ NothingLeft \in [Controllers -> SUBSET Key]
  /\ \A c \in Controllers : NothingLeft[c] = {}
  /\ NoSyncer \in [Controllers -> {"none", "on", "ended"}]
<1>1. /\ NoInformer \in [Informer -> {"none", "requested", "running", "synced"}]
      /\ NothingCached \in [Key -> Nat]
      /\ NotRun \in [Controllers -> {"new", "running", "stopping", "stopped", "failed"}]
      /\ NothingLeft \in [Controllers -> SUBSET Key]
      /\ \A c \in Controllers : NothingLeft[c] = {}
      /\ NoSyncer \in [Controllers -> {"none", "on", "ended"}]
  BY DEF NoInformer, NothingCached, NotRun, NothingLeft, NoSyncer
<1>2. Idle("none") \in WorkerState /\ Idle("none").pc = "none"
  BY DEF Idle, WorkerState
<1>3. /\ NoWorker \in [Worker -> WorkerState]
      /\ \A w \in Worker : WorkerOK(w, NoWorker[w]) /\ NoWorker[w].pc = "none"
  BY <1>2 DEF NoWorker, WorkerOK, Busy
<1>4. /\ EmptyQueues \in [Controllers -> Queue]
      /\ \A c \in Controllers : QueueOK(c, EmptyQueues[c])
  BY EmptyFacts DEF EmptyQueues, QueueOK
<1> QED
  BY <1>1, <1>3, <1>4

\* A step that leaves workers busy with what they were, and the queues' sets
\* of keys in process alone.
LEMMA HandleQuiet ==
  ASSUME HandleInv,
         \A c \in Controllers : wq'[c].processing = wq[c].processing,
         \A w \in Worker : /\ worker'[w].pc \in Busy <=> worker[w].pc \in Busy
                           /\ worker[w].pc \in Busy => worker'[w].key = worker[w].key
  PROVE  HandleInv'
<1>1. \A w \in Worker :
        worker'[w].pc \in Busy => worker'[w].key \in wq'[w[1]].processing
  BY WorkerController DEF HandleInv
<1>2. \A v, w \in Worker :
        worker'[v].pc \in Busy /\ worker'[w].pc \in Busy /\ worker'[v].key = worker'[w].key => v = w
  BY DEF HandleInv
<1>3. ASSUME NEW c \in Controllers, NEW k \in wq'[c].processing
      PROVE  \E w \in Worker : w[1] = c /\ worker'[w].pc \in Busy /\ worker'[w].key = k
  <2>1. PICK w \in Worker : w[1] = c /\ worker[w].pc \in Busy /\ worker[w].key = k
    BY <1>3 DEF HandleInv
  <2> QED
    BY <2>1
<1> QED
  BY <1>1, <1>2, <1>3 DEF HandleInv

\* The end of a process leaves nothing of the controllers.
LEMMA ForgetsFacts ==
  ASSUME BaseInv, Forgets, hist' = hist, read' = read, faults' \in Nat, opts' \in OptionType,
         limits' \in [qps : Int, burst : Int], phase' \in {"start", "exited"}
  PROVE  BaseInv'
<1>1. wq' = EmptyQueues /\ worker' = NoWorker /\ left' = NothingLeft /\ informer' = NoInformer
      /\ run' = NotRun /\ cached' = NothingCached /\ syncer' = NoSyncer
      /\ pending' = {} /\ shouldRequeue' = FALSE /\ cancelled' = FALSE
  BY DEF Forgets
<1>2. ServerTypeOK'
  BY <1>1, FreshFacts DEF BaseInv, TypeInv, ServerTypeOK, BaseTypeOK, Phase, WorkerState
<1>3. TypeInv'
  BY <1>1, <1>2, FreshFacts DEF TypeInv
<1>4. HandleInv'
  <2>1. \A w \in Worker : worker'[w].pc \notin Busy
    BY <1>1, FreshFacts DEF Busy
  <2>2. \A c \in Controllers : wq'[c].processing = {}
    BY <1>1, EmptyFacts DEF EmptyQueues
  <2> QED
    BY <2>1, <2>2 DEF HandleInv
<1>5. PhaseInv'
  BY <1>1, FreshFacts, WorkerController DEF PhaseInv, NotRun, NoInformer
<1> QED
  BY <1>3, <1>4, <1>5 DEF BaseInv
-----------------------------------------------------------------------------
(* BaseInv is inductive.                                                   *)

\* A step that leaves queues, workers and the sync goroutine's list alone.
LEMMA Aside ==
  ASSUME BaseInv, ServerTypeOK', wq' = wq, worker' = worker, left' = left
  PROVE  TypeInv' /\ HandleInv'
<1>1. TypeInv'
  BY DEF BaseInv, TypeInv
<1>2. HandleInv'
  BY HandleQuiet DEF BaseInv
<1> QED
  BY <1>1, <1>2

LEMMA PhaseAside ==
  ASSUME PhaseInv, UNCHANGED <<phase, opts, informer, run, worker>> PROVE PhaseInv'
BY DEF PhaseInv

LEMMA ControllerInformers ==
  ASSUME NEW c \in Controllers PROVE New(c).informers = {c}
<1>1. c \in ControllerName
  BY ControllersAssumption
<1> QED
  BY <1>1 DEF ControllerName, New, NewPreBackupActionController, NewDMaaSRestoreController,
              NewDMaaSBackupController

LEMMA InitBaseInv == ServerInit => BaseInv
<1> SUFFICES ASSUME ServerInit PROVE BaseInv
  OBVIOUS
<1>1. wq = EmptyQueues /\ worker = NoWorker /\ left = NothingLeft /\ informer = NoInformer
      /\ run = NotRun /\ cached = NothingCached /\ syncer = NoSyncer
      /\ pending = {} /\ shouldRequeue = FALSE /\ cancelled = FALSE
      /\ hist = [k \in Key |-> <<>>] /\ read = [k \in Key |-> 0] /\ faults = 0
      /\ phase = "start" /\ opts \in Options /\ limits = NoLimit
  BY DEF ServerInit, Init, Fresh
<1>2. ServerTypeOK
  <2>1. hist \in [Key -> Seq({"absent", "settled", "active"})] /\ read \in [Key -> Nat]
    BY <1>1
  <2>2. phase \in Phase /\ opts \in OptionType /\ limits \in [qps : Int, burst : Int]
    BY <1>1, OptionsAssumption DEF Phase, NoLimit
  <2> QED
    BY <1>1, <2>1, <2>2, FreshFacts DEF ServerTypeOK, BaseTypeOK, WorkerState
<1>3. TypeInv
  BY <1>1, <1>2, FreshFacts DEF TypeInv
<1>4. HandleInv
  <2>1. \A w \in Worker : worker[w].pc \notin Busy
    BY <1>1, FreshFacts DEF Busy
  <2>2. \A c \in Controllers : wq[c].processing = {}
    BY <1>1, EmptyFacts DEF EmptyQueues
  <2> QED
    BY <2>1, <2>2 DEF HandleInv
<1>5. PhaseInv
  BY <1>1, FreshFacts, WorkerController DEF PhaseInv, NotRun, NoInformer
<1> QED
  BY <1>3, <1>4, <1>5 DEF BaseInv

LEMMA ExitBaseInv ==
  ASSUME BaseInv, Exit PROVE BaseInv'
<1>1. /\ Forgets /\ hist' = hist /\ read' = read /\ faults' \in Nat /\ opts' \in OptionType
      /\ phase' \in {"start", "exited"}
  BY DEF Exit, BaseInv, TypeInv, ServerTypeOK, BaseTypeOK
<1>2. limits' \in [qps : Int, burst : Int]
  BY DEF Exit, NoLimit
<1> QED
  BY <1>1, <1>2, ForgetsFacts

\* The steps of the process from its start to serving.
LEMMA StartUpBaseInv ==
  ASSUME BaseInv, StartUp PROVE BaseInv'
<1> USE DEF BaseInv, TypeInv, ServerTypeOK, BaseTypeOK
<1>1. CASE ValidateConfig
  <2>1. Defaulted(opts) \in OptionType /\ Defaulted(opts).namespace # "" /\ Defaulted(opts).velero # ""
    BY <1>1 DEF ValidateConfig, Defaulted, OptionType
  <2>2. ServerTypeOK'
    BY <1>1, <2>1 DEF ValidateConfig, vars, informerVars, runVars, Phase
  <2>3. PhaseInv'
    BY <1>1, <2>1 DEF ValidateConfig, vars, informerVars, runVars, PhaseInv
  <2> QED
    BY <1>1, <2>2, <2>3, Aside DEF ValidateConfig, vars, runVars
<1>2. CASE ConfigInvalid
  BY <1>2, ExitBaseInv DEF ConfigInvalid
<1>3. CASE NewServer
  <2>1. ClientConfig(opts) \in [qps : Int, burst : Int]
    <3>1. opts.qps \in Int /\ opts.burst \in Int
      BY DEF OptionType
    <3>2. (IF opts.qps > 0 THEN opts.qps ELSE 0) \in Int
      BY <3>1
    <3>3. (IF opts.burst > 0 THEN opts.burst ELSE 0) \in Int
      BY <3>1
    <3> QED
      BY <3>2, <3>3, Zenon DEF ClientConfig
  <2>2. ServerTypeOK'
    BY <1>3, <2>1 DEF NewServer, vars, informerVars, runVars, Phase
  <2>3. PhaseInv'
    BY <1>3 DEF NewServer, vars, informerVars, runVars, PhaseInv
  <2> QED
    BY <1>3, <2>2, <2>3, Aside DEF NewServer, vars, runVars
<1>4. CASE NewServerFails
  BY <1>4, ExitBaseInv DEF NewServerFails
<1>5. CASE GetSupportedControllers
  <2>1. \A i \in Informer : informer'[i] = "requested"
    <3> DEFINE I == (UNION {New(c).informers : c \in Controllers}) \union BackupperInformers
    <3>1. \A c \in Controllers : c \in New(c).informers
      BY ControllerInformers
    <3>2. Informer \subseteq I
      BY <3>1 DEF Informer, BackupperInformers
    <3>3. informer' = [i \in Informer |-> IF i \in I THEN "requested" ELSE informer[i]]
      BY <1>5 DEF GetSupportedControllers, Requested
    <3> HIDE DEF I
    <3> QED
      BY <3>2, <3>3
  <2>2. informer' \in [Informer -> {"none", "requested", "running", "synced"}]
    BY <1>5 DEF GetSupportedControllers, Requested
  <2>3. ServerTypeOK'
    BY <1>5, <2>2 DEF GetSupportedControllers, runVars, Phase
  <2>4. PhaseInv'
    BY <1>5, <2>1 DEF GetSupportedControllers, runVars, PhaseInv
  <2> QED
    BY <1>5, <2>3, <2>4, Aside DEF GetSupportedControllers, runVars
<1>6. CASE StartInformers
  <2>1. \A i \in Informer : informer'[i] = "running"
    BY <1>6 DEF StartInformers, PhaseInv
  <2>2. informer' \in [Informer -> {"none", "requested", "running", "synced"}]
    BY <1>6 DEF StartInformers
  <2>3. ServerTypeOK'
    BY <1>6, <2>2 DEF StartInformers, runVars, Phase
  <2>4. PhaseInv'
    BY <1>6, <2>1 DEF StartInformers, runVars, PhaseInv
  <2> QED
    BY <1>6, <2>3, <2>4, Aside DEF StartInformers, runVars
<1>7. CASE WaitForOwnCaches
  <2>1. CASE ~Synced(Controllers) /\ cancelled /\ Exit
    BY <2>1, ExitBaseInv
  <2>2. CASE Synced(Controllers) /\ phase' = "ownSynced" /\ UNCHANGED <<vars, opts, limits>>
    <3>1. ServerTypeOK'
      BY <2>2 DEF vars, informerVars, runVars, Phase
    <3>2. PhaseInv'
      BY <1>7, <2>2
         DEF WaitForOwnCaches, Waits, Synced, vars, informerVars, runVars, PhaseInv, Informer
    <3> QED
      BY <2>2, <3>1, <3>2, Aside DEF vars, runVars
  <2> QED
    BY <1>7, <2>1, <2>2 DEF WaitForOwnCaches, Waits
<1>8. CASE WaitForVeleroCaches
  <2>1. CASE ~Synced(VeleroInformer) /\ cancelled /\ Exit
    BY <2>1, ExitBaseInv
  <2>2. CASE Synced(VeleroInformer) /\ phase' = "serving" /\ UNCHANGED <<vars, opts, limits>>
    <3>1. ServerTypeOK'
      BY <2>2 DEF vars, informerVars, runVars, Phase
    <3>2. \A i \in Informer : informer[i] = "synced"
      BY <1>8, <2>2 DEF WaitForVeleroCaches, Waits, Synced, PhaseInv, Informer
    <3>3. PhaseInv'
      BY <1>8, <2>2, <3>2
         DEF WaitForVeleroCaches, Waits, vars, informerVars, runVars, PhaseInv
    <3> QED
      BY <2>2, <3>1, <3>3, Aside DEF vars, runVars
  <2> QED
    BY <1>8, <2>1, <2>2 DEF WaitForVeleroCaches, Waits
<1> QED
  BY <1>1, <1>2, <1>3, <1>4, <1>5, <1>6, <1>7, <1>8 DEF StartUp
\* A step that changes one queue, but not what is being processed.
LEMMA QueueStep ==
  ASSUME BaseInv, NEW c \in Controllers, NEW q, QueueOK(c, q),
         q.processing = wq[c].processing, Queues(c, q), worker' = worker
  PROVE  /\ wq' \in [Controllers -> Queue] /\ \A d \in Controllers : QueueOK(d, wq'[d])
         /\ HandleInv'
<1>1. /\ wq' \in [Controllers -> Queue] /\ \A d \in Controllers : QueueOK(d, wq'[d])
      /\ wq'[c] = q /\ \A d \in Controllers : d # c => wq'[d] = wq[d]
  BY QueuesFacts DEF BaseInv
<1>2. HandleInv'
  BY <1>1, HandleQuiet DEF BaseInv
<1> QED
  BY <1>1, <1>2

\* The steps of objects, informers and event handlers.
LEMMA InformerBaseInv ==
  ASSUME BaseInv, UNCHANGED serverVars,
         InformerStep \/ \E k \in Key : Change(k)
  PROVE  BaseInv'
<1> USE DEF BaseInv, TypeInv, ServerTypeOK, BaseTypeOK, serverVars
<1>1. ASSUME NEW k \in Key, Change(k) PROVE BaseInv'
  <2>1. PICK s \in {"active", "settled", "absent"} : hist' = [hist EXCEPT ![k] = Append(@, s)]
    BY <1>1 DEF Change
  <2>2. hist' \in [Key -> Seq({"absent", "settled", "active"})]
    BY <2>1
  <2>3. ServerTypeOK'
    BY <1>1, <2>2 DEF Change, informerVars, runVars
  <2>4. PhaseInv'
    BY <1>1 DEF Change, informerVars, runVars, PhaseInv
  <2> QED
    BY <1>1, <2>3, <2>4, Aside DEF Change, runVars
<1>2. ASSUME NEW i \in Informer, ListInitial(i) PROVE BaseInv'
  <2>1. /\ informer' \in [Informer -> {"none", "requested", "running", "synced"}]
        /\ informer'[i] = "synced" /\ \A j \in Informer : j # i => informer'[j] = informer[j]
    BY <1>2 DEF ListInitial
  <2>2. cached' \in [Key -> Nat]
    <3>1. \A k \in Key : Version(k) \in Nat
      BY DEF Version
    <3> QED
      BY <1>2, <3>1 DEF ListInitial
  <2>3. ServerTypeOK'
    BY <1>2, <2>1, <2>2 DEF ListInitial, runVars
  <2>4. PhaseInv'
    BY <1>2, <2>1 DEF ListInitial, runVars, PhaseInv, Informer
  <2> QED
    BY <1>2, <2>3, <2>4, Aside DEF ListInitial, runVars
<1>3. ASSUME NEW k \in Key, Watch(k) \/ Relist(k) PROVE BaseInv'
  <2>1. cached' \in [Key -> Nat]
    BY <1>3 DEF Watch, Relist, Version
  <2>2. ServerTypeOK'
    BY <1>3, <2>1 DEF Watch, Relist, runVars
  <2>3. PhaseInv'
    BY <1>3, PhaseAside DEF Watch, Relist, runVars
  <2> QED
    BY <1>3, <2>2, <2>3, Aside DEF Watch, Relist, runVars
<1>4. ASSUME NEW k \in Key, Enqueue(k) \/ BackoffOver(k) PROVE BaseInv'
  <2> DEFINE c == Owner[k]
  <2>1. c \in Controllers /\ k \in OwnKeys(c) /\ QueueOK(c, wq[c]) /\ wq[c] \in Queue
    BY ControllersAssumption DEF OwnKeys
  <2>2. PICK q \in {Add(wq[c], k), Ready(wq[c], k)} : Queues(c, q)
    BY <1>4 DEF Enqueue, BackoffOver
  <2>3. QueueOK(c, q) /\ q.processing = wq[c].processing
    BY <2>1, <2>2, QueueOps, AddFacts, ReadyFacts
  <2>4. worker' = worker /\ left' = left
    BY <1>4 DEF Enqueue, BackoffOver, runVars
  <2>5. /\ wq' \in [Controllers -> Queue] /\ \A d \in Controllers : QueueOK(d, wq'[d])
        /\ HandleInv'
    <3> HIDE DEF c, BaseInv
    <3> QED
      BY <2>1, <2>2, <2>3, <2>4, QueueStep
  <2>6. ServerTypeOK'
    BY <1>4, <2>5 DEF Enqueue, BackoffOver, informerVars, runVars
  <2>7. PhaseInv'
    BY <1>4, PhaseAside DEF Enqueue, BackoffOver, informerVars, runVars
  <2> QED
    BY <2>4, <2>5, <2>6, <2>7
<1> QED
  BY <1>1, <1>2, <1>3, <1>4 DEF InformerStep

LEMMA RunFacts ==
  ASSUME BaseInv, NEW c \in Controllers, Run(c)
  PROVE  /\ run[c] = "new" /\ run'[c] \in {"failed", "running"}
         /\ \A d \in Controllers : d # c => run'[d] = run[d]
         /\ run' \in [Controllers -> {"new", "running", "stopping", "stopped", "failed"}]
         /\ syncer' \in [Controllers -> {"none", "on", "ended"}]
         /\ worker' \in [Worker -> WorkerState]
         /\ \A w \in Worker : worker'[w] = worker[w] \/ (worker'[w] = Idle("until") /\ w[1] = c)
         /\ UNCHANGED <<hist, read, informerVars, wq, left, cancelled, shouldRequeue, faults>>
<1>1. /\ run[c] = "new"
      /\ \/ run' = [run EXCEPT ![c] = "failed"] /\ UNCHANGED <<worker, syncer>>
         \/ /\ run' = [run EXCEPT ![c] = "running"]
            /\ worker' = [w \in Worker |-> IF w[1] = c THEN Idle("until") ELSE worker[w]]
            /\ syncer' = IF New(c).sync THEN [syncer EXCEPT ![c] = "on"] ELSE syncer
      /\ UNCHANGED <<hist, read, informerVars, wq, left, cancelled, shouldRequeue, faults>>
  BY Zenon DEF Run
<1>2. /\ run \in [Controllers -> {"new", "running", "stopping", "stopped", "failed"}]
      /\ syncer \in [Controllers -> {"none", "on", "ended"}]
  BY DEF BaseInv, TypeInv, ServerTypeOK, BaseTypeOK
<1>3. syncer' \in [Controllers -> {"none", "on", "ended"}]
  BY <1>1, <1>2
<1>4. /\ worker' \in [Worker -> WorkerState]
      /\ \A w \in Worker : worker'[w] = worker[w] \/ (worker'[w] = Idle("until") /\ w[1] = c)
  <2>1. worker \in [Worker -> WorkerState] /\ Idle("until") \in WorkerState
    BY DEF BaseInv, TypeInv, ServerTypeOK, BaseTypeOK, WorkerState, Idle
  <2>2. CASE worker' = worker
    BY <2>1, <2>2
  <2>3. CASE worker' = [w \in Worker |-> IF w[1] = c THEN Idle("until") ELSE worker[w]]
    BY <2>1, <2>3
  <2> QED
    BY <1>1, <2>2, <2>3
<1>5. run'[c] \in {"failed", "running"} /\ \A d \in Controllers : d # c => run'[d] = run[d]
  BY <1>1, <1>2
<1> QED
  BY <1>1, <1>2, <1>3, <1>4, <1>5

\* The steps of Run and of the sync goroutine.
LEMMA RunBaseInv ==
  ASSUME BaseInv, NEW c \in Controllers, UNCHANGED serverVars,
         RunStep(c) \/ StartController(c) \/ CancelContext
  PROVE  BaseInv'
<1> USE DEF BaseInv, TypeInv, ServerTypeOK, BaseTypeOK, serverVars
<1>1. CASE SyncList(c)
  <2>1. left' \in [Controllers -> SUBSET Key] /\ \A d \in Controllers : left'[d] \subseteq OwnKeys(d)
    BY <1>1 DEF SyncList, OwnKeys
  <2>2. ServerTypeOK'
    BY <1>1, <2>1 DEF SyncList, informerVars
  <2>3. HandleInv'
    BY <1>1, HandleQuiet DEF SyncList
  <2>4. PhaseInv'
    BY <1>1 DEF SyncList, informerVars, PhaseInv
  <2> QED
    BY <1>1, <2>1, <2>2, <2>3, <2>4 DEF SyncList
<1>2. CASE SyncEnqueue(c)
  <2>1. PICK k \in left[c] : /\ left' = [left EXCEPT ![c] = @ \ {k}]
                             /\ Queues(c, Add(wq[c], k))
    BY <1>2 DEF SyncEnqueue
  <2>2. k \in OwnKeys(c) /\ k \in Key /\ QueueOK(c, wq[c]) /\ wq[c] \in Queue
    BY <2>1
  <2>3. QueueOK(c, Add(wq[c], k)) /\ Add(wq[c], k).processing = wq[c].processing
    BY <2>2, QueueOps, AddFacts
  <2>4. left' \in [Controllers -> SUBSET Key] /\ \A d \in Controllers : left'[d] \subseteq OwnKeys(d)
    BY <2>1
  <2>5. /\ wq' \in [Controllers -> Queue] /\ \A d \in Controllers : QueueOK(d, wq'[d])
        /\ HandleInv'
    <3> HIDE DEF BaseInv
    <3> QED
      BY <1>2, <2>1, <2>3, QueueStep DEF SyncEnqueue
  <2>6. ServerTypeOK'
    BY <1>2, <2>4, <2>5 DEF SyncEnqueue, informerVars
  <2>7. PhaseInv'
    BY <1>2 DEF SyncEnqueue, informerVars, PhaseInv
  <2> QED
    BY <1>2, <2>4, <2>5, <2>6, <2>7 DEF SyncEnqueue
<1>3. CASE SyncEnds(c)
  <2>1. ServerTypeOK'
    BY <1>3 DEF SyncEnds, informerVars
  <2>2. PhaseInv'
    BY <1>3 DEF SyncEnds, informerVars, PhaseInv
  <2> QED
    BY <1>3, <2>1, <2>2, Aside DEF SyncEnds
<1>4. CASE CloseQueue(c)
  <2>1. QueueOK(c, ShutDown(wq[c])) /\ ShutDown(wq[c]).processing = wq[c].processing
    BY QueueGets, ShutDownFacts
  <2>2. /\ wq' \in [Controllers -> Queue] /\ \A d \in Controllers : QueueOK(d, wq'[d])
        /\ HandleInv'
    <3> HIDE DEF BaseInv
    <3> QED
      BY <1>4, <2>1, QueueStep DEF CloseQueue
  <2>3. ServerTypeOK'
    BY <1>4, <2>2 DEF CloseQueue, informerVars
  <2>4. PhaseInv'
    BY <1>4, WorkerController DEF CloseQueue, informerVars, PhaseInv
  <2> QED
    BY <1>4, <2>2, <2>3, <2>4 DEF CloseQueue
<1>5. CASE RunReturns(c)
  <2>1. ServerTypeOK'
    BY <1>5 DEF RunReturns, informerVars
  <2>2. PhaseInv'
    BY <1>5, WorkerController DEF RunReturns, informerVars, PhaseInv
  <2> QED
    BY <1>5, <2>1, <2>2, Aside DEF RunReturns
<1>6. CASE CancelContext
  <2>1. ServerTypeOK'
    BY <1>6 DEF CancelContext, Cancel, informerVars
  <2>2. PhaseInv'
    BY <1>6 DEF CancelContext, Cancel, informerVars, PhaseInv
  <2> QED
    BY <1>6, <2>1, <2>2, Aside DEF CancelContext, Cancel
<1>7. CASE StartController(c)
  <2> USE DEF StartController
  <2>0. run[c] = "new" /\ wq' = wq
    BY <1>7, RunFacts
  <2>1. \A w \in Worker : w[1] = c => worker[w].pc = "none"
    BY <2>0 DEF PhaseInv
  <2>2. Idle("until") \in WorkerState /\ Idle("until").pc = "until"
    BY DEF Idle, WorkerState
  <2>3. \A w \in Worker : worker'[w] = worker[w] \/ (worker'[w] = Idle("until") /\ w[1] = c)
    BY <1>7, RunFacts
  <2>4. worker' \in [Worker -> WorkerState]
    BY <1>7, RunFacts
  <2>5. \A w \in Worker : WorkerOK(w, worker'[w])
    BY <2>2, <2>3 DEF WorkerOK, Busy
  <2>6. HandleInv'
    <3>1. \A w \in Worker : /\ worker'[w].pc \in Busy <=> worker[w].pc \in Busy
                            /\ worker[w].pc \in Busy => worker'[w].key = worker[w].key
      BY <2>1, <2>2, <2>3 DEF Busy
    <3>2. \A d \in Controllers : wq'[d].processing = wq[d].processing
      BY <2>0
    <3> HIDE DEF TypeInv, ServerTypeOK, BaseTypeOK
    <3> QED
      BY <3>1, <3>2, HandleQuiet
  <2>7. ServerTypeOK'
    BY <1>7, <2>4, RunFacts DEF informerVars, WorkerState
  <2>8. PhaseInv'
    <3>1. \A w \in Worker : run'[w[1]] = "new" => worker'[w].pc = "none"
      <4> SUFFICES ASSUME NEW w \in Worker, run'[w[1]] = "new" PROVE worker'[w].pc = "none"
        OBVIOUS
      <4>1. w[1] # c /\ run[w[1]] = "new"
        BY <1>7, RunFacts, WorkerController
      <4> QED
        BY <4>1, <2>3 DEF PhaseInv
    <3>2. phase = "serving" /\ UNCHANGED <<phase, opts, informer>>
      BY <1>7, RunFacts DEF informerVars
    <3> QED
      BY <3>1, <3>2 DEF PhaseInv
  <2> QED
    BY <1>7, <2>5, <2>6, <2>7, <2>8, RunFacts
<1> QED
  BY <1>1, <1>2, <1>3, <1>4, <1>5, <1>6, <1>7 DEF RunStep
\* A worker that moves has been started, so Run was called and the process is
\* serving.
LEMMA WorkerPhase ==
  ASSUME BaseInv, NEW w \in Worker, NEW st, WorkerOK(w, st), Becomes(w, st),
         worker[w].pc # "none", UNCHANGED <<phase, opts, informer, run>>
  PROVE  PhaseInv' /\ phase = "serving" /\ \A i \in Informer : informer[i] = "synced"
<1>1. run[w[1]] # "new" /\ phase = "serving"
  BY WorkerController DEF BaseInv, PhaseInv
<1>2. \A v \in Worker : v # w => worker'[v] = worker[v]
  BY BecomesFacts DEF BaseInv
<1>3. \A v \in Worker : run'[v[1]] = "new" => worker'[v].pc = "none"
  BY <1>1, <1>2 DEF BaseInv, PhaseInv
<1> QED
  BY <1>1, <1>3 DEF BaseInv, PhaseInv

\* A worker moves and perhaps changes its controller's queue, but goes on with
\* the key it has, or has none before and after.
LEMMA WorkerMoves ==
  ASSUME BaseInv, NEW w \in Worker, NEW st, WorkerOK(w, st), Becomes(w, st),
         NEW q, QueueOK(w[1], q), Queues(w[1], q), q.processing = wq[w[1]].processing,
         st.pc \in Busy <=> worker[w].pc \in Busy,
         worker[w].pc \in Busy => st.key = worker[w].key
  PROVE  HandleInv'
<1>1. \A d \in Controllers : wq'[d].processing = wq[d].processing
  BY QueuesFacts, WorkerController DEF BaseInv
<1>2. \A v \in Worker : /\ worker'[v].pc \in Busy <=> worker[v].pc \in Busy
                        /\ worker[v].pc \in Busy => worker'[v].key = worker[v].key
  BY BecomesFacts DEF BaseInv
<1> QED
  BY <1>1, <1>2, HandleQuiet DEF BaseInv

\* What is typed after a worker's step.
LEMMA WorkerTypes ==
  ASSUME BaseInv, NEW w \in Worker, NEW st, WorkerOK(w, st), Becomes(w, st),
         wq' \in [Controllers -> Queue], \A d \in Controllers : QueueOK(d, wq'[d]),
         read' \in [Key -> Nat], shouldRequeue' \in BOOLEAN, faults' \in Nat,
         UNCHANGED <<hist, informerVars, runVars, serverVars>>
  PROVE  TypeInv'
<1>1. worker' \in [Worker -> WorkerState] /\ \A v \in Worker : WorkerOK(v, worker'[v])
  BY BecomesFacts DEF BaseInv
<1>2. ServerTypeOK'
  BY <1>1 DEF BaseInv, TypeInv, ServerTypeOK, BaseTypeOK, informerVars, runVars, serverVars,
              WorkerState
<1> QED
  BY <1>1, <1>2 DEF BaseInv, TypeInv, runVars

\* Between Get and Done a worker has a key of its controller.
LEMMA BusyFacts ==
  ASSUME BaseInv, NEW w \in Worker
  PROVE  /\ worker[w] \in WorkerState
         /\ worker[w] = [pc |-> worker[w].pc, key |-> worker[w].key, wants |-> worker[w].wants]
         /\ worker[w].pc \in Busy =>
              /\ worker[w].key \in OwnKeys(w[1]) /\ worker[w].key \in Key
              /\ Owner[worker[w].key] = w[1]
              /\ worker[w].key \in wq[w[1]].processing
         /\ QueueOK(w[1], wq[w[1]]) /\ wq[w[1]] \in Queue /\ Consistent(wq[w[1]])
<1>1. worker[w] \in WorkerState
  BY DEF BaseInv, TypeInv, ServerTypeOK, BaseTypeOK, WorkerState
<1>2. worker[w] = [pc |-> worker[w].pc, key |-> worker[w].key, wants |-> worker[w].wants]
  BY <1>1 DEF WorkerState
<1>3. worker[w].pc \in Busy => worker[w].key \in OwnKeys(w[1])
  BY DEF BaseInv, TypeInv, WorkerOK
<1>4. worker[w].pc \in Busy => worker[w].key \in wq[w[1]].processing
  BY DEF BaseInv, HandleInv
<1>5. QueueOK(w[1], wq[w[1]])
  BY WorkerController DEF BaseInv, TypeInv
<1> QED
  BY <1>1, <1>2, <1>3, <1>4, <1>5 DEF OwnKeys, QueueOK

\* Idle has the type of a worker's state.
LEMMA IdleOK ==
  ASSUME NEW w \in Worker, NEW pc \in {"none", "until", "get", "ended"}
  PROVE  WorkerOK(w, Idle(pc)) /\ Idle(pc).pc = pc /\ pc \notin Busy
<1>1. Idle(pc) \in WorkerState /\ Idle(pc).pc = pc /\ pc \notin Busy
  BY DEF Idle, WorkerState, Busy
<1> QED
  BY <1>1 DEF WorkerOK

\* The steps of a worker that has no key, and takes none.
LEMMA IdleStepBaseInv ==
  ASSUME BaseInv, NEW w \in Worker, UntilRound(w) \/ GetShutDown(w), UNCHANGED serverVars
  PROVE  BaseInv'
<1>1. PICK pc \in {"until", "get", "ended"} : Becomes(w, Idle(pc))
  BY DEF UntilRound, GetShutDown
<1>2. worker[w].pc \in {"until", "get"}
      /\ UNCHANGED <<hist, read, informerVars, wq, runVars, shouldRequeue, faults>>
  BY DEF UntilRound, GetShutDown
<1>3. WorkerOK(w, Idle(pc)) /\ Idle(pc).pc = pc /\ pc \notin Busy
  BY IdleOK
<1>4. TypeInv'
  BY <1>1, <1>2, <1>3, WorkerTypes DEF BaseInv, TypeInv, ServerTypeOK, BaseTypeOK
<1>5. HandleInv'
  <2>1. \A v \in Worker : /\ worker'[v].pc \in Busy <=> worker[v].pc \in Busy
                          /\ worker[v].pc \in Busy => worker'[v].key = worker[v].key
    BY <1>1, <1>2, <1>3, BecomesFacts DEF BaseInv, Busy
  <2> QED
    BY <1>2, <2>1, HandleQuiet DEF BaseInv
<1>6. PhaseInv'
  BY <1>1, <1>2, <1>3, WorkerPhase DEF serverVars, runVars, informerVars
<1> QED
  BY <1>4, <1>5, <1>6 DEF BaseInv

\* Take: the key was not being processed, so no other worker has it.
LEMMA TakeBaseInv ==
  ASSUME BaseInv, NEW w \in Worker, Take(w), UNCHANGED serverVars
  PROVE  BaseInv'
<1> DEFINE c == w[1]
           k == Head(wq[c].items)
           st == [pc |-> "call", key |-> k, wants |-> FALSE]
<1>1. /\ worker[w].pc = "get" /\ wq[c].items # <<>> /\ Becomes(w, st) /\ Queues(c, Get(wq[c]))
      /\ UNCHANGED <<hist, read, informerVars, runVars, shouldRequeue, faults>>
  BY DEF Take
<1>2. c \in Controllers /\ QueueOK(c, wq[c]) /\ wq[c] \in Queue /\ Consistent(wq[c])
  BY BusyFacts, WorkerController
<1>3. QueueOK(c, Get(wq[c])) /\ k \in OwnKeys(c) /\ k \in Key
  BY <1>1, <1>2, QueueGets DEF OwnKeys
<1>4. Get(wq[c]).processing = wq[c].processing \union {k} /\ k \notin wq[c].processing
  BY <1>1, <1>2, GetFacts
<1>5. WorkerOK(w, st) /\ st.pc \in Busy /\ st.key = k
  BY <1>3 DEF WorkerOK, WorkerState, Busy
<1> HIDE DEF st, k
<1>6. /\ wq' \in [Controllers -> Queue] /\ \A d \in Controllers : QueueOK(d, wq'[d])
      /\ wq'[c] = Get(wq[c]) /\ \A d \in Controllers : d # c => wq'[d] = wq[d]
  BY <1>1, <1>2, <1>3, QueuesFacts DEF BaseInv
<1>7. worker'[w] = st /\ \A v \in Worker : v # w => worker'[v] = worker[v]
  BY <1>1, <1>5, BecomesFacts DEF BaseInv
<1>8. TypeInv'
  BY <1>1, <1>5, <1>6, WorkerTypes DEF BaseInv, TypeInv, ServerTypeOK, BaseTypeOK
<1>9. HandleInv'
  <2>1. ASSUME NEW v \in Worker, worker'[v].pc \in Busy
        PROVE  worker'[v].key \in wq'[v[1]].processing
    <3>1. CASE v = w
      BY <3>1, <1>4, <1>5, <1>6, <1>7
    <3>2. CASE v # w
      BY <3>2, <2>1, <1>4, <1>6, <1>7, WorkerController DEF BaseInv, HandleInv
    <3> QED
      BY <3>1, <3>2
  <2>2. \A v \in Worker : v # w /\ worker[v].pc \in Busy => worker[v].key # k
    <3> SUFFICES ASSUME NEW v \in Worker, worker[v].pc \in Busy, worker[v].key = k PROVE FALSE
      OBVIOUS
    <3>1. Owner[k] = v[1] /\ k \in wq[v[1]].processing
      BY BusyFacts
    <3>2. Owner[k] = c
      BY <1>3 DEF OwnKeys
    <3> QED
      BY <3>1, <3>2, <1>4
  <2>3. \A u, v \in Worker :
          worker'[u].pc \in Busy /\ worker'[v].pc \in Busy /\ worker'[u].key = worker'[v].key => u = v
    BY <2>2, <1>5, <1>7 DEF BaseInv, HandleInv
  <2>4. ASSUME NEW d \in Controllers, NEW l \in wq'[d].processing
        PROVE  \E v \in Worker : v[1] = d /\ worker'[v].pc \in Busy /\ worker'[v].key = l
    <3>1. CASE d = c /\ l = k
      BY <3>1, <1>5, <1>7
    <3>2. CASE ~(d = c /\ l = k)
      <4>1. l \in wq[d].processing
        BY <2>4, <3>2, <1>4, <1>6
      <4>2. PICK v \in Worker : v[1] = d /\ worker[v].pc \in Busy /\ worker[v].key = l
        BY <4>1 DEF BaseInv, HandleInv
      <4>3. v # w
        BY <4>2, <1>1 DEF Busy
      <4> QED
        BY <4>2, <4>3, <1>7
    <3> QED
      BY <3>1, <3>2
  <2> QED
    BY <2>1, <2>3, <2>4 DEF HandleInv
<1>10. PhaseInv'
  BY <1>1, <1>5, WorkerPhase DEF serverVars, runVars, informerVars
<1> QED
  BY <1>8, <1>9, <1>10 DEF BaseInv
\* The steps of a reconciliation and of what follows it, up to Done.
LEMMA CallBaseInv ==
  ASSUME BaseInv, NEW w \in Worker, Read(w) \/ ReadFails(w) \/ Reserve(w) \/ Return(w),
         UNCHANGED serverVars
  PROVE  BaseInv'
<1> DEFINE c == w[1]
           k == worker[w].key
<1>1. worker[w].pc \in {"call", "execute", "return"}
  BY DEF Read, ReadFails, Reserve, Return
<1>2. /\ worker[w] \in WorkerState /\ k \in OwnKeys(c) /\ k \in Key
      /\ c \in Controllers /\ QueueOK(c, wq[c]) /\ wq[c] \in Queue
  BY <1>1, BusyFacts, WorkerController DEF Busy
<1>3. PICK st \in WorkerState :
        Becomes(w, st) /\ st.pc \in {"execute", "return", "done"} /\ st.key = k
  <2>1. \A pc \in {"execute", "return", "done"} :
          LET st == [worker[w] EXCEPT !.pc = pc]
          IN  st \in WorkerState /\ st.pc = pc /\ st.key = k
    BY <1>2 DEF WorkerState
  <2>2. LET st == [worker[w] EXCEPT !.wants = TRUE]
        IN  st \in WorkerState /\ st.pc = worker[w].pc /\ st.key = k
    BY <1>2 DEF WorkerState
  <2>3. CASE Read(w)
    BY <2>1, <2>3 DEF Read
  <2>4. CASE ReadFails(w) \/ Return(w)
    BY <2>1, <2>4 DEF ReadFails, Return
  <2>5. CASE Reserve(w)
    BY <2>2, <2>5 DEF Reserve
  <2> QED
    BY <2>3, <2>4, <2>5
<1>4. WorkerOK(w, st) /\ st.pc \in Busy /\ st.key = k
  BY <1>2, <1>3 DEF WorkerOK, Busy
<1>5. PICK q \in {wq[c], AddRateLimited(wq[c], k), Add(wq[c], k), Forget(wq[c], k)} :
        Queues(c, q)
  BY <1>2 DEF Read, ReadFails, Reserve, Return, Queues, BaseInv, TypeInv, ServerTypeOK, BaseTypeOK
<1>6. QueueOK(c, q) /\ q.processing = wq[c].processing
  BY <1>2, QueueOps, AddFacts, AddRateLimitedFacts, ForgetFacts
<1>7. wq' \in [Controllers -> Queue] /\ \A d \in Controllers : QueueOK(d, wq'[d])
  BY <1>2, <1>5, <1>6, QueuesFacts DEF BaseInv
<1>8. /\ UNCHANGED <<hist, informerVars, runVars>>
      /\ read' \in [Key -> Nat] /\ shouldRequeue' \in BOOLEAN /\ faults' \in Nat
  <2>1. read \in [Key -> Nat] /\ shouldRequeue \in BOOLEAN /\ faults \in Nat /\ Version(k) \in Nat
    BY <1>2 DEF Version, BaseInv, TypeInv, ServerTypeOK, BaseTypeOK
  <2>2. read' = read \/ read' = [read EXCEPT ![k] = Version(k)]
    BY DEF Read, ReadFails, Reserve, Return
  <2>3. read' \in [Key -> Nat]
    BY <2>1, <2>2
  <2>4. faults' \in Nat
    BY <2>1 DEF Read, ReadFails, Reserve, Return
  <2>5. shouldRequeue' \in BOOLEAN
    BY <2>1 DEF Read, ReadFails, Reserve, Return
  <2>6. UNCHANGED <<hist, informerVars, runVars>>
    BY DEF Read, ReadFails, Reserve, Return
  <2> QED
    BY <2>3, <2>4, <2>5, <2>6
<1> HIDE DEF k
<1>9. TypeInv'
  BY <1>3, <1>4, <1>7, <1>8, WorkerTypes
<1>10. HandleInv'
  BY <1>1, <1>3, <1>4, <1>5, <1>6, WorkerMoves DEF k, Busy
<1>11. PhaseInv'
  BY <1>1, <1>3, <1>4, <1>8, WorkerPhase DEF serverVars, runVars, informerVars
<1> QED
  BY <1>9, <1>10, <1>11 DEF BaseInv

\* Done: the worker was the only one with its key.
LEMMA GiveBackBaseInv ==
  ASSUME BaseInv, NEW w \in Worker, GiveBack(w), UNCHANGED serverVars
  PROVE  BaseInv'
<1> DEFINE c == w[1]
           k == worker[w].key
<1>1. /\ worker[w].pc = "done" /\ worker[w].pc \in Busy
      /\ Becomes(w, Idle("get")) /\ Queues(c, Done(wq[c], k))
      /\ UNCHANGED <<hist, read, informerVars, runVars, shouldRequeue, faults>>
  BY DEF GiveBack, Busy
<1>2. /\ c \in Controllers /\ QueueOK(c, wq[c]) /\ wq[c] \in Queue
      /\ k \in OwnKeys(c) /\ k \in wq[c].processing
  BY <1>1, BusyFacts, WorkerController
<1>3. QueueOK(c, Done(wq[c], k)) /\ Done(wq[c], k).processing = wq[c].processing \ {k}
  BY <1>2, QueueOps, DoneFacts
<1>4. WorkerOK(w, Idle("get")) /\ Idle("get").pc \notin Busy
  BY IdleOK
<1> HIDE DEF k
<1>5. /\ wq' \in [Controllers -> Queue] /\ \A d \in Controllers : QueueOK(d, wq'[d])
      /\ wq'[c] = Done(wq[c], k) /\ \A d \in Controllers : d # c => wq'[d] = wq[d]
  BY <1>1, <1>2, <1>3, QueuesFacts DEF BaseInv
<1>6. worker'[w] = Idle("get") /\ \A v \in Worker : v # w => worker'[v] = worker[v]
  BY <1>1, <1>4, BecomesFacts DEF BaseInv
<1>7. TypeInv'
  BY <1>1, <1>4, <1>5, WorkerTypes DEF BaseInv, TypeInv, ServerTypeOK, BaseTypeOK
<1>8. HandleInv'
  <2>1. ASSUME NEW v \in Worker, worker'[v].pc \in Busy
        PROVE  worker'[v].key \in wq'[v[1]].processing
    <3>1. v # w /\ worker'[v] = worker[v]
      BY <2>1, <1>4, <1>6
    <3>2. worker[v].key # k
      BY <2>1, <3>1, <1>1 DEF k, BaseInv, HandleInv
    <3>3. worker[v].key \in wq[v[1]].processing
      BY <2>1, <3>1 DEF BaseInv, HandleInv
    <3> QED
      BY <3>1, <3>2, <3>3, <1>3, <1>5, WorkerController
  <2>2. \A u, v \in Worker :
          worker'[u].pc \in Busy /\ worker'[v].pc \in Busy /\ worker'[u].key = worker'[v].key => u = v
    BY <1>4, <1>6 DEF BaseInv, HandleInv
  <2>3. ASSUME NEW d \in Controllers, NEW l \in wq'[d].processing
        PROVE  \E v \in Worker : v[1] = d /\ worker'[v].pc \in Busy /\ worker'[v].key = l
    <3>1. l \in wq[d].processing /\ ~(d = c /\ l = k)
      BY <2>3, <1>3, <1>5
    <3>2. PICK v \in Worker : v[1] = d /\ worker[v].pc \in Busy /\ worker[v].key = l
      BY <3>1 DEF BaseInv, HandleInv
    <3>3. v # w
      BY <3>1, <3>2 DEF k
    <3> QED
      BY <3>2, <3>3, <1>6
  <2> QED
    BY <2>1, <2>2, <2>3 DEF HandleInv
<1>9. PhaseInv'
  BY <1>1, <1>4, WorkerPhase DEF serverVars, runVars, informerVars
<1> QED
  BY <1>7, <1>8, <1>9 DEF BaseInv

LEMMA NextBaseInv ==
  ASSUME BaseInv, [ServerNext]_allVars PROVE BaseInv'
<1>1. CASE StartUp
  BY <1>1, StartUpBaseInv
<1>2. CASE \E c \in Controllers : StartController(c)
  BY <1>2, RunBaseInv DEF StartController
<1>3. CASE BaseStep /\ UNCHANGED serverVars
  <2>1. CASE (\E k \in Key : Change(k)) \/ InformerStep
    BY <1>3, <2>1, InformerBaseInv
  <2>2. CASE \E c \in Controllers : RunStep(c)
    BY <1>3, <2>2, RunBaseInv
  <2>3. CASE \E w \in Worker : WorkerStep(w)
    BY <1>3, <2>3, IdleStepBaseInv, TakeBaseInv, CallBaseInv, GiveBackBaseInv DEF WorkerStep
  <2> QED
    BY <1>3, <2>1, <2>2, <2>3 DEF BaseStep
<1>4. CASE ServerStops
  BY <1>4, ExitBaseInv DEF ServerStops
<1>5. CASE CancelContext
  <2>1. ServerTypeOK'
    BY <1>5 DEF CancelContext, Cancel, informerVars, serverVars, BaseInv, TypeInv, ServerTypeOK,
                BaseTypeOK
  <2>2. PhaseInv'
    BY <1>5, PhaseAside DEF CancelContext, Cancel, informerVars, serverVars, BaseInv
  <2> QED
    BY <1>5, <2>1, <2>2, Aside DEF CancelContext, Cancel, BaseInv
<1>6. CASE ProcessDies
  <2>1. /\ Forgets /\ hist' = hist /\ read' = read /\ faults' \in Nat /\ opts' \in OptionType
        /\ phase' \in {"start", "exited"}
    BY <1>6 DEF ProcessDies, BaseInv, TypeInv, ServerTypeOK, BaseTypeOK
  <2>2. limits' \in [qps : Int, burst : Int]
    BY <1>6 DEF ProcessDies, NoLimit
  <2> QED
    BY <2>1, <2>2, ForgetsFacts
<1>7. CASE UNCHANGED allVars
  <2>1. ServerTypeOK'
    BY <1>7 DEF allVars, vars, informerVars, runVars, serverVars, BaseInv, TypeInv, ServerTypeOK,
                BaseTypeOK
  <2>2. PhaseInv'
    BY <1>7, PhaseAside DEF allVars, vars, informerVars, runVars, serverVars, BaseInv
  <2> QED
    BY <1>7, <2>1, <2>2, Aside DEF allVars, vars, runVars, BaseInv
<1> QED
  BY <1>1, <1>2, <1>3, <1>4, <1>5, <1>6, <1>7 DEF ServerNext

\* BaseInv holds in every state: the types, the agreement of queues and workers
\* and the order of start-up do not depend on anybody's speed, failure or crash.
THEOREM AlwaysBaseInv == ServerSpec => []BaseInv
BY InitBaseInv, NextBaseInv, PTL DEF ServerSpec
-----------------------------------------------------------------------------
(* What follows from BaseInv.                                              *)

\* Types of all variables, whatever the options, faults and changes.
THEOREM ServerTypes == ServerSpec => []ServerTypeOK
<1>1. BaseInv => ServerTypeOK
  BY DEF BaseInv, TypeInv
<1> QED
  BY <1>1, AlwaysBaseInv, PTL

\* No object is reconciled by two workers at once, for any number of workers.
THEOREM ExclusiveReconcile == ServerSpec => []OneWorkerPerKey
<1>1. BaseInv => OneWorkerPerKey
  BY DEF BaseInv, HandleInv, OneWorkerPerKey, Handles, Busy
<1> QED
  BY <1>1, AlwaysBaseInv, PTL

\* The queues and the workers agree, and a key is in line at most once.
THEOREM QueuesAgree == ServerSpec => []QueuesWellFormed
<1>1. ASSUME BaseInv PROVE QueuesWellFormed
  <2> SUFFICES ASSUME NEW c \in Controllers
               PROVE  /\ Consistent(wq[c])
                      /\ wq[c].processing = {k \in Key : \E w \in Worker : w[1] = c /\ Handles(w, k)}
    BY DEF QueuesWellFormed
  <2>1. Consistent(wq[c]) /\ wq[c] \in Queue
    BY <1>1 DEF BaseInv, TypeInv, QueueOK
  <2>2. wq[c].processing \subseteq Key
    BY <2>1 DEF Queue
  <2>3. ASSUME NEW k \in wq[c].processing PROVE \E w \in Worker : w[1] = c /\ Handles(w, k)
    BY <1>1, <2>3 DEF BaseInv, HandleInv, Handles, Busy
  <2>4. ASSUME NEW k \in Key, NEW w \in Worker, w[1] = c, Handles(w, k)
        PROVE  k \in wq[c].processing
    BY <1>1, <2>4 DEF BaseInv, HandleInv, Handles, Busy
  <2> QED
    BY <2>1, <2>2, <2>3, <2>4
<1> QED
  BY <1>1, AlwaysBaseInv, PTL

\* No reconciliation before every cache is filled.
THEOREM CachesFirst == ServerSpec => []NoWorkBeforeSync
<1>1. ASSUME BaseInv PROVE NoWorkBeforeSync
  <2> SUFFICES ASSUME NEW w \in Worker, NEW k \in Key, Handles(w, k)
               PROVE  \A i \in Informer : informer[i] = "synced"
    BY DEF NoWorkBeforeSync
  <2>1. worker[w].pc # "none"
    BY DEF Handles
  <2> QED
    BY <1>1, <2>1, WorkerController DEF BaseInv, PhaseInv
<1> QED
  BY <1>1, AlwaysBaseInv, PTL

\* The informers never look at all namespaces.
THEOREM OneNamespace == ServerSpec => []WatchesOneNamespace
<1>1. BaseInv => WatchesOneNamespace
  BY DEF BaseInv, PhaseInv, WatchesOneNamespace
<1> QED
  BY <1>1, AlwaysBaseInv, PTL

-----------------------------------------------------------------------------
(* No trigger is lost.                                                     *)

\* An informer is never ahead of the API server: so a change is always still to
\* be seen by it.
TriggerInv ==
  /\ \A k \in Key : cached[k] <= Version(k)
  /\ NoLostTrigger

\* What stands for a key in a queue.
Triggered(k) ==
  \/ wq[Owner[k]].down \/ k \in wq[Owner[k]].dirty \/ k \in wq[Owner[k]].delayed

\* NoLostTrigger, key by key.
Promised(k) ==
  \/ informer[Owner[k]] # "synced" \/ Current(k) = "absent" \/ read[k] = Version(k)
  \/ cached[k] < Version(k) \/ k \in pending \/ Triggered(k)
  \/ \E w \in Worker : worker[w].pc = "call" /\ worker[w].key = k

LEMMA PromisedFacts == NoLostTrigger <=> \A k \in Key : Promised(k)
BY DEF NoLostTrigger, OnItsWay, Promised, Triggered

\* A step after which nothing that stands for a key is gone.
LEMMA PromiseKept ==
  ASSUME BaseInv, TriggerInv, UNCHANGED <<hist, read, informer, cached>>,
         pending \subseteq pending',
         \A k \in Key : Triggered(k) => Triggered(k)',
         \A w \in Worker : worker[w].pc = "call" => worker'[w] = worker[w]
  PROVE  TriggerInv'
<1>1. \A k \in Key : cached'[k] <= Version(k)'
  BY DEF TriggerInv, Version
<1>2. ASSUME NEW k \in Key PROVE Promised(k)'
  <2>1. Promised(k)
    BY PromisedFacts DEF TriggerInv
  <2>2. Version(k)' = Version(k) /\ Current(k)' = Current(k)
    BY DEF Version, Current, StateAt
  <2> QED
    BY <2>1, <2>2 DEF Promised
<1>3. NoLostTrigger'
  BY <1>2 DEF NoLostTrigger, OnItsWay, Promised, Triggered
<1> QED
  BY <1>1, <1>3 DEF TriggerInv
\* A controller's queue after an operation: dirty and delayed keys remain.
LEMMA TriggeredKept ==
  ASSUME BaseInv, NEW c \in Controllers, NEW q, QueueOK(c, q), Queues(c, q),
         q.down \/ (wq[c].dirty \subseteq q.dirty /\ wq[c].delayed \subseteq q.delayed /\ ~wq[c].down)
  PROVE  \A k \in Key : Triggered(k) => Triggered(k)'
<1>1. wq'[c] = q /\ \A d \in Controllers : d # c => wq'[d] = wq[d]
  BY QueuesFacts DEF BaseInv
<1>2. \A k \in Key : Owner[k] \in Controllers
  BY ControllersAssumption
<1> QED
  BY <1>1, <1>2 DEF Triggered

\* Steps that touch no object, informer, handler, queue or worker.
LEMMA PromiseUntouched ==
  ASSUME BaseInv, TriggerInv, UNCHANGED <<hist, read, informer, cached, pending, wq, worker>>
  PROVE  TriggerInv'
<1>1. \A k \in Key : Triggered(k) => Triggered(k)'
  BY DEF Triggered
<1> QED
  BY <1>1, PromiseKept

\* No informer is synced: nothing is promised yet.
LEMMA PromiseOfNothing ==
  ASSUME UNCHANGED hist, \A i \in Informer : informer'[i] # "synced",
         \A k \in Key : cached'[k] <= Version(k)
  PROVE  TriggerInv'
<1>1. \A k \in Key : Owner[k] \in Informer
  BY ControllersAssumption DEF Informer
<1> QED
  BY <1>1 DEF TriggerInv, NoLostTrigger, Version

LEMMA PromiseForgotten ==
  ASSUME BaseInv, Forgets, hist' = hist PROVE TriggerInv'
<1>1. informer' = NoInformer /\ cached' = NothingCached
  BY DEF Forgets
<1>2. \A k \in Key : Version(k) \in Nat
  BY DEF Version, BaseInv, TypeInv, ServerTypeOK, BaseTypeOK
<1> QED
  BY <1>1, <1>2, PromiseOfNothing DEF NoInformer, NothingCached

LEMMA InformerTriggerInv ==
  ASSUME BaseInv, TriggerInv, InformerStep \/ \E k \in Key : Change(k)
  PROVE  TriggerInv'
<1> DEFINE Types == /\ hist \in [Key -> Seq({"absent", "settled", "active"})]
                    /\ cached \in [Key -> Nat] /\ wq \in [Controllers -> Queue]
                    /\ informer \in [Informer -> {"none", "requested", "running", "synced"}]
                    /\ \A k \in Key : Version(k) \in Nat /\ Promised(k) /\ cached[k] <= Version(k)
<1>1. Types
  BY PromisedFacts DEF Version, BaseInv, TypeInv, ServerTypeOK, BaseTypeOK, TriggerInv
<1>2. ASSUME (\A k \in Key : cached'[k] <= Version(k)'), (\A k \in Key : Promised(k)')
      PROVE  TriggerInv'
  BY <1>2 DEF TriggerInv, NoLostTrigger, OnItsWay, Promised, Triggered
<1>3. ASSUME NEW k \in Key, Change(k) PROVE TriggerInv'
  <2>1. PICK s \in {"active", "settled", "absent"} : hist' = [hist EXCEPT ![k] = Append(@, s)]
    BY <1>3 DEF Change
  <2>2. Version(k)' = Version(k) + 1 /\ hist'[k] = Append(hist[k], s)
        /\ \A l \in Key : l # k => hist'[l] = hist[l]
    BY <1>1, <2>1 DEF Version
  <2>3. \A l \in Key : l # k => Version(l)' = Version(l) /\ Current(l)' = Current(l)
    BY <2>2 DEF Version, Current, StateAt
  <2>4. UNCHANGED <<read, informer, cached, pending, wq, worker>>
    BY <1>3 DEF Change, informerVars
  <2>5. ASSUME NEW l \in Key PROVE cached'[l] <= Version(l)'
    <3>1. cached'[l] \in Nat /\ cached'[l] <= Version(l) /\ Version(l) \in Nat
      BY <1>1, <2>4
    <3>2. Version(l)' \in {Version(l), Version(l) + 1}
      BY <2>2, <2>3
    <3> QED
      BY <3>1, <3>2
  <2>6. Promised(k)'
    BY <1>1, <2>2, <2>4 DEF Promised
  <2>7. \A l \in Key : l # k => Promised(l)'
    BY <1>1, <2>3, <2>4 DEF Promised, Triggered
  <2> QED
    BY <1>2, <2>5, <2>6, <2>7
<1>4. ASSUME NEW i \in Informer, ListInitial(i) PROVE TriggerInv'
  <2>1. /\ UNCHANGED <<hist, read, wq, worker>>
        /\ cached' = [k \in Key |-> IF Owner[k] = i THEN Version(k) ELSE cached[k]]
        /\ pending' = pending \union {k \in Key : Owner[k] = i /\ Current(k) # "absent"}
        /\ \A j \in Informer : j # i => informer'[j] = informer[j]
    BY <1>1, <1>4 DEF ListInitial
  <2>2. \A k \in Key : Version(k)' = Version(k) /\ Current(k)' = Current(k) /\ Owner[k] \in Informer
    BY <2>1, ControllersAssumption DEF Version, Current, StateAt, Informer
  <2>3. \A k \in Key : cached'[k] <= Version(k)'
    BY <1>1, <2>1, <2>2
  <2>4. \A k \in Key : Promised(k)'
    BY <1>1, <2>1, <2>2 DEF Promised, Triggered
  <2> QED
    BY <1>2, <2>3, <2>4
<1>5. ASSUME NEW k \in Key, Watch(k) \/ Relist(k) PROVE TriggerInv'
  <2>1. /\ UNCHANGED <<hist, read, informer, wq, worker>>
        /\ k \in pending' \/ Current(k) = "absent"
        /\ pending \subseteq pending'
        /\ \A l \in Key : l # k => cached'[l] = cached[l]
        /\ cached[k] < Version(k) /\ cached'[k] \in {cached[k] + 1, Version(k)}
    <3>1. cached[k] \in Nat /\ cached \in [Key -> Nat] /\ Version(k) \in Nat
      BY <1>1
    <3> HIDE DEF Types
    <3>2. CASE Watch(k)
      BY <3>1, <3>2 DEF Watch
    <3>3. CASE Relist(k)
      BY <3>1, <3>3 DEF Relist
    <3> QED
      BY <1>5, <3>2, <3>3
  <2>2. \A l \in Key : Version(l)' = Version(l) /\ Current(l)' = Current(l)
    BY <2>1 DEF Version, Current, StateAt
  <2>3. \A l \in Key : cached'[l] <= Version(l)'
    BY <1>1, <2>1, <2>2
  <2>4. \A l \in Key : Promised(l)'
    BY <1>1, <2>1, <2>2 DEF Promised, Triggered
  <2> QED
    BY <1>2, <2>3, <2>4
<1>6. ASSUME NEW k \in Key, Enqueue(k) \/ BackoffOver(k) PROVE TriggerInv'
  <2> DEFINE c == Owner[k]
  <2>1. c \in Controllers /\ k \in OwnKeys(c) /\ QueueOK(c, wq[c]) /\ wq[c] \in Queue
    BY ControllersAssumption DEF OwnKeys, BaseInv, TypeInv, QueueOK
  <2>2. PICK q \in {Add(wq[c], k), Ready(wq[c], k)} : Queues(c, q)
    BY <1>6 DEF Enqueue, BackoffOver
  <2>3. /\ QueueOK(c, q) /\ q.down = wq[c].down /\ (q.down \/ k \in q.dirty)
        /\ wq[c].dirty \subseteq q.dirty /\ wq[c].delayed \ {k} \subseteq q.delayed
    BY <2>1, <2>2, QueueOps, AddFacts, ReadyFacts
  <2>4. wq'[c] = q /\ \A d \in Controllers : d # c => wq'[d] = wq[d]
    <3> HIDE DEF c
    <3> QED
      BY <2>1, <2>2, <2>3, QueuesFacts DEF BaseInv
  <2>5. /\ UNCHANGED <<hist, read, informer, cached, worker>>
        /\ pending \ {k} \subseteq pending'
    BY <1>6 DEF Enqueue, BackoffOver, informerVars
  <2>6. \A l \in Key : Version(l)' = Version(l) /\ Current(l)' = Current(l)
    BY <2>5 DEF Version, Current, StateAt
  <2>7. Triggered(k)'
    BY <2>3, <2>4 DEF Triggered
  <2>8. \A l \in Key : Triggered(l) => Triggered(l)'
    BY <2>1, <2>3, <2>4, <2>7, ControllersAssumption DEF Triggered
  <2>9. \A l \in Key : Promised(l)'
    BY <1>1, <2>5, <2>6, <2>7, <2>8 DEF Promised
  <2> QED
    BY <1>1, <1>2, <2>5, <2>6, <2>9
<1> QED
  BY <1>3, <1>4, <1>5, <1>6 DEF InformerStep
LEMMA RunTriggerInv ==
  ASSUME BaseInv, TriggerInv, NEW c \in Controllers, RunStep(c) \/ StartController(c)
  PROVE  TriggerInv'
<1>1. CASE SyncList(c) \/ SyncEnds(c) \/ RunReturns(c)
  BY <1>1, PromiseUntouched DEF SyncList, SyncEnds, RunReturns, informerVars
<1>2. CASE SyncEnqueue(c) \/ CloseQueue(c)
  <2>1. QueueOK(c, wq[c]) /\ wq[c] \in Queue
    BY DEF BaseInv, TypeInv, QueueOK
  <2>2. PICK q : /\ QueueOK(c, q) /\ Queues(c, q)
                 /\ \/ q.down
                    \/ wq[c].dirty \subseteq q.dirty /\ wq[c].delayed \subseteq q.delayed /\ ~wq[c].down
    <3>1. CASE SyncEnqueue(c)
      <4>1. PICK k \in OwnKeys(c) : Queues(c, Add(wq[c], k)) /\ k \in Key
        BY <3>1 DEF SyncEnqueue, BaseInv, TypeInv, OwnKeys
      <4> QED
        BY <2>1, <4>1, QueueOps, AddFacts
    <3>2. CASE CloseQueue(c)
      BY <2>1, <3>2, QueueGets, ShutDownFacts DEF CloseQueue
    <3> QED
      BY <1>2, <3>1, <3>2
  <2>3. \A k \in Key : Triggered(k) => Triggered(k)'
    BY <2>2, TriggeredKept
  <2> QED
    BY <1>2, <2>3, PromiseKept DEF SyncEnqueue, CloseQueue, informerVars
<1>3. CASE StartController(c)
  <2>1. \A w \in Worker : worker[w].pc = "call" => worker'[w] = worker[w]
    <3> SUFFICES ASSUME NEW w \in Worker, worker[w].pc = "call" PROVE worker'[w] = worker[w]
      OBVIOUS
    <3>1. run[w[1]] # "new"
      BY WorkerController DEF BaseInv, PhaseInv
    <3> QED
      BY <1>3, <3>1, RunFacts DEF StartController
  <2>2. UNCHANGED <<hist, read, informer, cached, pending, wq>>
    BY <1>3, RunFacts DEF StartController, informerVars
  <2>3. \A k \in Key : Triggered(k) => Triggered(k)'
    BY <2>2 DEF Triggered
  <2> QED
    BY <2>1, <2>2, <2>3, PromiseKept
<1> QED
  BY <1>1, <1>2, <1>3 DEF RunStep
\* A worker's steps between the reading of the object and the next Take.
LEMMA QuietTriggerInv ==
  ASSUME BaseInv, TriggerInv, NEW w \in Worker,
         UntilRound(w) \/ GetShutDown(w) \/ Reserve(w) \/ Return(w) \/ GiveBack(w)
  PROVE  TriggerInv'
<1> DEFINE c == w[1]
           k == worker[w].key
<1>1. c \in Controllers /\ QueueOK(c, wq[c]) /\ wq[c] \in Queue /\ wq \in [Controllers -> Queue]
  BY BusyFacts, WorkerController DEF BaseInv, TypeInv, ServerTypeOK, BaseTypeOK
<1>2. /\ worker[w].pc # "call" /\ UNCHANGED <<hist, read, informerVars>>
      /\ \A v \in Worker : v # w => worker'[v] = worker[v]
  BY DEF UntilRound, GetShutDown, Reserve, Return, GiveBack, Becomes, BaseInv, TypeInv, ServerTypeOK,
         BaseTypeOK
<1>3. \A l \in Key : Triggered(l) => Triggered(l)'
  <2>1. CASE wq' = wq
    BY <2>1 DEF Triggered
  <2>2. CASE Return(w) \/ GiveBack(w)
    <3>1. k \in OwnKeys(c) /\ k \in wq[c].processing /\ k \in Key
      BY <2>2, BusyFacts DEF Return, GiveBack, Busy
    <3>2. PICK q \in {Add(wq[c], k), Forget(wq[c], k), Done(wq[c], k)} : Queues(c, q)
      BY <2>2 DEF Return, GiveBack
    <3>3. QueueOK(c, q) /\ wq[c].dirty \subseteq q.dirty /\ wq[c].delayed = q.delayed
          /\ q.down = wq[c].down
      BY <1>1, <3>1, <3>2, QueueOps, AddFacts, ForgetFacts, DoneFacts
    <3> HIDE DEF c
    <3> QED
      BY <1>1, <3>2, <3>3, TriggeredKept
  <2> QED
    BY <2>1, <2>2 DEF UntilRound, GetShutDown, Reserve
<1> QED
  BY <1>2, <1>3, PromiseKept DEF informerVars

\* Take: what was promised by the line is promised by the worker.
LEMMA TakeTriggerInv ==
  ASSUME BaseInv, TriggerInv, NEW w \in Worker, Take(w) PROVE TriggerInv'
<1> DEFINE c == w[1]
           k == Head(wq[c].items)
<1>1. /\ worker[w].pc = "get" /\ wq[c].items # <<>> /\ Queues(c, Get(wq[c]))
      /\ Becomes(w, [pc |-> "call", key |-> k, wants |-> FALSE])
      /\ UNCHANGED <<hist, read, informerVars>>
  BY DEF Take
<1>2. c \in Controllers /\ QueueOK(c, wq[c]) /\ wq[c] \in Queue
  BY BusyFacts, WorkerController
<1>3. QueueOK(c, Get(wq[c])) /\ Get(wq[c]).delayed = wq[c].delayed
      /\ Get(wq[c]).dirty = wq[c].dirty \ {k} /\ Get(wq[c]).down = wq[c].down
  BY <1>1, <1>2, QueueGets, GetFacts
<1>4. wq'[c] = Get(wq[c]) /\ \A d \in Controllers : d # c => wq'[d] = wq[d]
  BY <1>1, <1>2, <1>3, QueuesFacts DEF BaseInv
<1>5. /\ worker'[w].pc = "call" /\ worker'[w].key = k
      /\ \A v \in Worker : v # w => worker'[v] = worker[v]
  BY <1>1 DEF Becomes, BaseInv, TypeInv, ServerTypeOK, BaseTypeOK
<1> HIDE DEF c, k
<1>6. \A l \in Key : Version(l)' = Version(l) /\ Current(l)' = Current(l) /\ Owner[l] \in Controllers
  BY <1>1, ControllersAssumption DEF Version, Current, StateAt
<1>7. ASSUME NEW l \in Key PROVE Promised(l)'
  <2>1. CASE l = k
    BY <2>1, <1>5 DEF Promised
  <2>2. CASE l # k
    <3>1. Triggered(l) => Triggered(l)'
      BY <2>2, <1>3, <1>4, <1>6 DEF Triggered
    <3>2. \A v \in Worker : worker[v].pc = "call" => worker'[v] = worker[v]
      BY <1>1, <1>5
    <3> QED
      BY <3>1, <3>2, <1>1, <1>6, PromisedFacts DEF Promised, TriggerInv, informerVars
  <2> QED
    BY <2>1, <2>2
<1> QED
  BY <1>1, <1>6, <1>7
     DEF TriggerInv, NoLostTrigger, OnItsWay, Promised, Triggered, informerVars

\* A reconciliation has read the latest state, or failed to and is retried.
LEMMA ReadTriggerInv ==
  ASSUME BaseInv, TriggerInv, NEW w \in Worker, Read(w) \/ ReadFails(w) PROVE TriggerInv'
<1> DEFINE c == w[1]
           k == worker[w].key
<1>1. /\ worker[w].pc = "call" /\ UNCHANGED <<hist, informer, cached, pending>>
      /\ \A v \in Worker : v # w => worker'[v] = worker[v]
  BY DEF Read, ReadFails, Becomes, BaseInv, TypeInv, ServerTypeOK, BaseTypeOK, informerVars
<1>2. /\ c \in Controllers /\ QueueOK(c, wq[c]) /\ wq[c] \in Queue
      /\ k \in OwnKeys(c) /\ k \in Key /\ Owner[k] = c
  BY <1>1, BusyFacts, WorkerController DEF Busy
<1>3. \A l \in Key : Version(l)' = Version(l) /\ Current(l)' = Current(l)
  BY <1>1 DEF Version, Current, StateAt
<1>4. read \in [Key -> Nat]
  BY DEF BaseInv, TypeInv, ServerTypeOK, BaseTypeOK
<1>5. \A l \in Key : Triggered(l) => Triggered(l)'
  <2>1. CASE Read(w)
    BY <2>1 DEF Read, Triggered
  <2>2. CASE ReadFails(w)
    <3>1. Queues(c, AddRateLimited(wq[c], k))
      BY <2>2 DEF ReadFails
    <3>2. QueueOK(c, AddRateLimited(wq[c], k))
          /\ AddRateLimited(wq[c], k).dirty = wq[c].dirty
          /\ wq[c].delayed \subseteq AddRateLimited(wq[c], k).delayed
          /\ AddRateLimited(wq[c], k).down = wq[c].down
      BY <1>2, QueueOps, AddRateLimitedFacts
    <3> HIDE DEF c, k
    <3> QED
      BY <1>2, <3>1, <3>2, TriggeredKept
  <2> QED
    BY <2>1, <2>2
<1>6. \/ read' = [read EXCEPT ![k] = Version(k)]
      \/ read' = read /\ \A l \in Key : l = k => Triggered(l)'
  <2>1. CASE Read(w)
    BY <2>1 DEF Read
  <2>2. CASE ReadFails(w)
    <3>1. Queues(c, AddRateLimited(wq[c], k)) /\ read' = read
      BY <2>2 DEF ReadFails
    <3>2. QueueOK(c, AddRateLimited(wq[c], k))
          /\ (AddRateLimited(wq[c], k).down \/ k \in AddRateLimited(wq[c], k).delayed)
      BY <1>2, QueueOps, AddRateLimitedFacts
    <3>3. wq'[c] = AddRateLimited(wq[c], k)
      <4> HIDE DEF c, k
      <4> QED
        BY <1>2, <3>1, <3>2, QueuesFacts DEF BaseInv
    <3> QED
      BY <1>2, <3>1, <3>2, <3>3 DEF Triggered
  <2> QED
    BY <2>1, <2>2
<1> HIDE DEF c, k
<1>7. ASSUME NEW l \in Key PROVE Promised(l)'
  <2>1. CASE l = k
    BY <2>1, <1>2, <1>3, <1>4, <1>6 DEF Promised
  <2>2. CASE l # k
    <3>1. read'[l] = read[l]
      BY <2>2, <1>4, <1>6
    <3>2. \A v \in Worker : worker[v].key = l => worker'[v] = worker[v]
      BY <2>2, <1>1 DEF k
    <3> QED
      BY <3>1, <3>2, <1>1, <1>3, <1>5, PromisedFacts DEF Promised, TriggerInv
  <2> QED
    BY <2>1, <2>2
<1> QED
  BY <1>1, <1>3, <1>7 DEF TriggerInv, NoLostTrigger, OnItsWay, Promised, Triggered
LEMMA StartUpTriggerInv ==
  ASSUME BaseInv, TriggerInv, StartUp PROVE TriggerInv'
<1>1. CASE UNCHANGED vars
  BY <1>1, PromiseUntouched DEF vars, informerVars
<1>2. CASE Exit
  BY <1>2, PromiseForgotten DEF Exit
<1>3. CASE GetSupportedControllers \/ StartInformers
  <2>1. /\ UNCHANGED <<hist, read, cached>>
        /\ \A i \in Informer : informer'[i] \in {"none", "requested", "running"}
    <3>1. \A i \in Informer : informer[i] \in {"none", "requested"}
      BY <1>3 DEF GetSupportedControllers, StartInformers, BaseInv, PhaseInv
    <3> QED
      BY <1>3, <3>1 DEF GetSupportedControllers, StartInformers, Requested
  <2> QED
    BY <2>1, PromiseOfNothing DEF TriggerInv
<1> QED
  BY <1>1, <1>2, <1>3
     DEF StartUp, ValidateConfig, ConfigInvalid, NewServer, NewServerFails, WaitForOwnCaches,
         WaitForVeleroCaches, Waits

LEMMA NextTriggerInv ==
  ASSUME BaseInv, TriggerInv, [ServerNext]_allVars PROVE TriggerInv'
<1>1. CASE StartUp
  BY <1>1, StartUpTriggerInv
<1>2. CASE \E c \in Controllers : StartController(c)
  BY <1>2, RunTriggerInv
<1>3. CASE BaseStep /\ UNCHANGED serverVars
  <2>1. CASE (\E k \in Key : Change(k)) \/ InformerStep
    BY <2>1, InformerTriggerInv
  <2>2. CASE \E c \in Controllers : RunStep(c)
    BY <2>2, RunTriggerInv
  <2>3. CASE \E w \in Worker : WorkerStep(w)
    BY <2>3, QuietTriggerInv, TakeTriggerInv, ReadTriggerInv DEF WorkerStep
  <2> QED
    BY <1>3, <2>1, <2>2, <2>3 DEF BaseStep
<1>4. CASE ServerStops
  BY <1>4, PromiseForgotten DEF ServerStops, Exit
<1>5. CASE CancelContext
  BY <1>5, PromiseUntouched DEF CancelContext, Cancel, informerVars
<1>6. CASE ProcessDies
  BY <1>6, PromiseForgotten DEF ProcessDies
<1>7. CASE UNCHANGED allVars
  BY <1>7, PromiseUntouched DEF allVars, vars, informerVars
<1> QED
  BY <1>1, <1>2, <1>3, <1>4, <1>5, <1>6, <1>7 DEF ServerNext

LEMMA InitTriggerInv == ServerInit => TriggerInv
<1> SUFFICES ASSUME ServerInit PROVE TriggerInv
  OBVIOUS
<1>1. informer = NoInformer /\ cached = NothingCached /\ hist = [k \in Key |-> <<>>]
  BY DEF ServerInit, Init, Fresh
<1>2. \A k \in Key : Version(k) = 0 /\ cached[k] = 0
  BY <1>1 DEF Version, NothingCached
<1>3. \A k \in Key : informer[Owner[k]] # "synced"
  BY <1>1, ControllersAssumption DEF NoInformer, Informer
<1> QED
  BY <1>2, <1>3 DEF TriggerInv, NoLostTrigger

\* Whatever coalesces, fails, is re-added or restarted: the latest state of an
\* object has been read by a reconciliation or one is on its way.
THEOREM TriggersKept == ServerSpec => []NoLostTrigger
<1>1. TriggerInv => NoLostTrigger
  BY DEF TriggerInv
<1> QED
  BY <1>1, InitTriggerInv, NextTriggerInv, AlwaysBaseInv, PTL DEF ServerSpec

-----------------------------------------------------------------------------
(* Failures are forgotten.                                                 *)

\* A reconciliation that has not ended yet.
InCall == {"call", "execute", "return"}

\* BackoffForgotten is not inductive: between the end of a reconciliation and
\* Done, the key is in process whatever happens, and Done takes it out.  By then
\* its failures are forgotten or its retry is queued.
BackoffInv ==
  \A k \in Key :
    k \in wq[Owner[k]].backoff =>
      Triggered(k) \/ \E w \in Worker : worker[w].pc \in InCall /\ worker[w].key = k
LEMMA BackoffKept ==
  ASSUME BackoffInv,
         \A k \in Key : k \in wq'[Owner[k]].backoff => k \in wq[Owner[k]].backoff,
         \A k \in Key : Triggered(k) => Triggered(k)',
         \A w \in Worker : worker[w].pc \in InCall =>
           worker'[w].pc \in InCall /\ worker'[w].key = worker[w].key
  PROVE  BackoffInv'
BY DEF BackoffInv

LEMMA BackoffUntouched ==
  ASSUME BackoffInv, UNCHANGED <<wq, worker>> PROVE BackoffInv'
BY DEF BackoffInv, Triggered

LEMMA BackoffNone ==
  ASSUME wq' = EmptyQueues PROVE BackoffInv'
<1>1. \A k \in Key : wq'[Owner[k]].backoff = {}
  BY EmptyFacts, ControllersAssumption DEF EmptyQueues
<1> QED
  BY <1>1 DEF BackoffInv

\* Additions to a queue, and delays that end.
LEMMA QueueBackoffInv ==
  ASSUME BaseInv, BackoffInv, NEW c \in Controllers, NEW k \in OwnKeys(c),
         NEW q \in {Add(wq[c], k), Ready(wq[c], k)},
         Queues(c, q), worker' = worker
  PROVE  BackoffInv'
<1>1. QueueOK(c, wq[c]) /\ wq[c] \in Queue /\ k \in Key
  BY DEF BaseInv, TypeInv, QueueOK, OwnKeys
<1>2. /\ QueueOK(c, q) /\ q.backoff = wq[c].backoff
      /\ q.down \/ (q.down = wq[c].down /\ k \in q.dirty)
      /\ wq[c].dirty \subseteq q.dirty /\ wq[c].delayed \ {k} \subseteq q.delayed
  BY <1>1, QueueOps, AddFacts, ReadyFacts
<1>3. wq'[c] = q /\ \A d \in Controllers : d # c => wq'[d] = wq[d]
  BY <1>2, QueuesFacts DEF BaseInv
<1>4. \A l \in Key : Owner[l] \in Controllers
  BY ControllersAssumption
<1>5. \A l \in Key : Triggered(l) => Triggered(l)'
  BY <1>2, <1>3, <1>4 DEF Triggered
<1> QED
  BY <1>2, <1>3, <1>4, <1>5, BackoffKept

LEMMA TakeBackoffInv ==
  ASSUME BaseInv, BackoffInv, NEW w \in Worker, Take(w) PROVE BackoffInv'
<1> DEFINE c == w[1]
           k == Head(wq[c].items)
<1>1. /\ worker[w].pc = "get" /\ wq[c].items # <<>> /\ Queues(c, Get(wq[c]))
      /\ Becomes(w, [pc |-> "call", key |-> k, wants |-> FALSE])
  BY DEF Take
<1>2. c \in Controllers /\ QueueOK(c, wq[c]) /\ wq[c] \in Queue
  BY BusyFacts, WorkerController
<1>3. /\ QueueOK(c, Get(wq[c])) /\ Get(wq[c]).delayed = wq[c].delayed
      /\ Get(wq[c]).dirty = wq[c].dirty \ {k} /\ Get(wq[c]).down = wq[c].down
      /\ Get(wq[c]).backoff = wq[c].backoff
  BY <1>1, <1>2, QueueGets, GetFacts
<1>4. wq'[c] = Get(wq[c]) /\ \A d \in Controllers : d # c => wq'[d] = wq[d]
  BY <1>1, <1>2, <1>3, QueuesFacts DEF BaseInv
<1>5. /\ worker'[w].pc = "call" /\ worker'[w].key = k
      /\ \A v \in Worker : v # w => worker'[v] = worker[v]
  BY <1>1 DEF Becomes, BaseInv, TypeInv, ServerTypeOK, BaseTypeOK
<1> HIDE DEF c, k
<1>6. ASSUME NEW l \in Key, l \in wq'[Owner[l]].backoff
      PROVE  Triggered(l)' \/ \E v \in Worker : worker'[v].pc \in InCall /\ worker'[v].key = l
  <2>1. CASE l = k
    BY <2>1, <1>5 DEF InCall
  <2>2. CASE l # k
    <3>1. Owner[l] \in Controllers
      BY ControllersAssumption
    <3>2. (Triggered(l) => Triggered(l)') /\ l \in wq[Owner[l]].backoff
      BY <2>2, <3>1, <1>3, <1>4, <1>6 DEF Triggered
    <3>3. \A v \in Worker : worker[v].pc \in InCall => worker'[v] = worker[v]
      BY <1>1, <1>5 DEF InCall
    <3> QED
      BY <3>2, <3>3 DEF BackoffInv
  <2> QED
    BY <2>1, <2>2
<1> QED
  BY <1>6 DEF BackoffInv

\* The other steps of a worker.
LEMMA WorkerBackoffInv ==
  ASSUME BaseInv, BackoffInv, NEW w \in Worker,
         Read(w) \/ ReadFails(w) \/ Reserve(w) \/ Return(w) \/ GiveBack(w)
  PROVE  BackoffInv'
<1> DEFINE c == w[1]
           k == worker[w].key
<1>1. worker[w].pc \in Busy
  BY DEF Read, ReadFails, Reserve, Return, GiveBack, Busy
<1>2. /\ c \in Controllers /\ QueueOK(c, wq[c]) /\ wq[c] \in Queue
      /\ k \in OwnKeys(c) /\ k \in Key /\ Owner[k] = c /\ k \in wq[c].processing
      /\ worker[w] \in WorkerState
  BY <1>1, BusyFacts, WorkerController
<1>3. /\ worker \in [Worker -> WorkerState] /\ wq \in [Controllers -> Queue]
      /\ \A l \in Key : Owner[l] \in Controllers
  BY ControllersAssumption DEF BaseInv, TypeInv, ServerTypeOK, BaseTypeOK, WorkerState
<1>4. CASE Read(w) \/ Reserve(w)
  <2>1. wq' = wq
    BY <1>4 DEF Read, Reserve
  <2>2. \A v \in Worker : worker[v].pc \in InCall =>
          worker'[v].pc \in InCall /\ worker'[v].key = worker[v].key
    BY <1>3, <1>4 DEF Read, Reserve, Becomes, WorkerState, InCall
  <2> QED
    BY <2>1, <2>2, BackoffKept DEF Triggered
<1>5. CASE ReadFails(w) \/ Return(w)
  <2>1. PICK q \in {AddRateLimited(wq[c], k), Add(wq[c], k), Forget(wq[c], k)} : Queues(c, q)
    BY <1>5 DEF ReadFails, Return
  <2>2. /\ QueueOK(c, q) /\ wq[c].dirty \subseteq q.dirty /\ wq[c].delayed \subseteq q.delayed
        /\ q.down = wq[c].down /\ q.backoff \subseteq wq[c].backoff \union {k}
        /\ k \in q.backoff => q.down \/ k \in q.delayed \/ k \in q.dirty
    BY <1>2, <2>1, QueueOps, AddFacts, AddRateLimitedFacts, ForgetFacts
  <2>3. \A v \in Worker : v # w => worker'[v] = worker[v]
    BY <1>3, <1>5 DEF ReadFails, Return, Becomes
  <2> HIDE DEF c
  <2>4. wq'[c] = q /\ \A d \in Controllers : d # c => wq'[d] = wq[d]
    BY <1>2, <2>1, <2>2, QueuesFacts DEF BaseInv
  <2>5. ASSUME NEW l \in Key, l \in wq'[Owner[l]].backoff
        PROVE  Triggered(l)' \/ \E v \in Worker : worker'[v].pc \in InCall /\ worker'[v].key = l
    <3>1. CASE l = k
      BY <3>1, <2>2, <2>4, <2>5, <1>2 DEF Triggered
    <3>2. CASE l # k
      <4>1. (Triggered(l) => Triggered(l)') /\ l \in wq[Owner[l]].backoff
        BY <3>2, <2>2, <2>4, <2>5, <1>3 DEF Triggered
      <4>2. \A v \in Worker : worker[v].key = l => worker'[v] = worker[v]
        BY <3>2, <2>3
      <4> QED
        BY <4>1, <4>2 DEF BackoffInv
    <3> QED
      BY <3>1, <3>2
  <2> QED
    BY <2>5 DEF BackoffInv
<1>6. CASE GiveBack(w)
  <2>1. Queues(c, Done(wq[c], k)) /\ worker[w].pc = "done"
    BY <1>6 DEF GiveBack
  <2>2. QueueOK(c, Done(wq[c], k)) /\ Done(wq[c], k).dirty = wq[c].dirty
        /\ Done(wq[c], k).delayed = wq[c].delayed /\ Done(wq[c], k).down = wq[c].down
        /\ Done(wq[c], k).backoff = wq[c].backoff
    BY <1>2, QueueOps, DoneFacts
  <2>3. \A v \in Worker : worker[v].pc \in InCall => worker'[v] = worker[v]
    BY <1>3, <1>6 DEF GiveBack, Becomes, InCall
  <2> HIDE DEF c, k
  <2>4. wq'[c] = Done(wq[c], k) /\ \A d \in Controllers : d # c => wq'[d] = wq[d]
    BY <1>2, <2>1, <2>2, QueuesFacts DEF BaseInv
  <2>5. \A l \in Key : Triggered(l) => Triggered(l)'
    BY <1>3, <2>2, <2>4 DEF Triggered
  <2> QED
    BY <1>3, <2>2, <2>3, <2>4, <2>5, BackoffKept
<1> QED
  BY <1>4, <1>5, <1>6

LEMMA NextBackoffInv ==
  ASSUME BaseInv, BackoffInv, [ServerNext]_allVars PROVE BackoffInv'
<1>1. CASE UNCHANGED <<wq, worker>>
  BY <1>1, BackoffUntouched
<1>2. CASE wq' = EmptyQueues
  BY <1>2, BackoffNone
<1>3. ASSUME NEW k \in Key, Enqueue(k) \/ BackoffOver(k) PROVE BackoffInv'
  <2>1. Owner[k] \in Controllers /\ k \in OwnKeys(Owner[k])
    BY ControllersAssumption DEF OwnKeys
  <2> QED
    BY <1>3, <2>1, QueueBackoffInv DEF Enqueue, BackoffOver
<1>4. ASSUME NEW c \in Controllers, SyncEnqueue(c) PROVE BackoffInv'
  BY <1>4, QueueBackoffInv DEF SyncEnqueue, BaseInv, TypeInv
<1>5. ASSUME NEW c \in Controllers, CloseQueue(c) PROVE BackoffInv'
  <2>1. QueueOK(c, wq[c]) /\ wq[c] \in Queue
    BY DEF BaseInv, TypeInv, QueueOK
  <2>2. QueueOK(c, ShutDown(wq[c])) /\ ShutDown(wq[c]).backoff = wq[c].backoff
        /\ ShutDown(wq[c]).down
    BY <2>1, QueueGets, ShutDownFacts
  <2>3. wq'[c] = ShutDown(wq[c]) /\ \A d \in Controllers : d # c => wq'[d] = wq[d]
    BY <1>5, <2>2, QueuesFacts DEF CloseQueue, BaseInv
  <2>4. worker' = worker /\ \A k \in Key : Owner[k] \in Controllers
    BY <1>5, ControllersAssumption DEF CloseQueue
  <2>5. \A k \in Key : Triggered(k) => Triggered(k)'
    BY <2>2, <2>3, <2>4 DEF Triggered
  <2> QED
    BY <2>2, <2>3, <2>4, <2>5, BackoffKept
<1>6. ASSUME NEW c \in Controllers, StartController(c) PROVE BackoffInv'
  <2>1. \A w \in Worker : worker[w].pc \in InCall => worker'[w] = worker[w]
    <3> SUFFICES ASSUME NEW w \in Worker, worker[w].pc \in InCall PROVE worker'[w] = worker[w]
      OBVIOUS
    <3>1. run[w[1]] # "new"
      BY WorkerController DEF BaseInv, PhaseInv, InCall
    <3> QED
      BY <1>6, <3>1, RunFacts DEF StartController
  <2>2. wq' = wq
    BY <1>6, RunFacts DEF StartController
  <2> QED
    BY <2>1, <2>2, BackoffKept DEF Triggered
<1>7. ASSUME NEW w \in Worker, UntilRound(w) \/ GetShutDown(w) PROVE BackoffInv'
  <2>1. wq' = wq /\ \A v \in Worker : worker[v].pc \in InCall => worker'[v] = worker[v]
    BY <1>7 DEF UntilRound, GetShutDown, Becomes, InCall, BaseInv, TypeInv, ServerTypeOK, BaseTypeOK
  <2> QED
    BY <2>1, BackoffKept DEF Triggered
<1>8. ASSUME NEW w \in Worker, WorkerStep(w) PROVE BackoffInv'
  BY <1>7, <1>8, TakeBackoffInv, WorkerBackoffInv DEF WorkerStep
<1>9. CASE StartUp
  BY <1>1, <1>2, <1>9
     DEF StartUp, ValidateConfig, ConfigInvalid, NewServer, NewServerFails, GetSupportedControllers,
         StartInformers, WaitForOwnCaches, WaitForVeleroCaches, Waits, Exit, Forgets, vars
<1>10. CASE BaseStep
  <2>1. CASE (\E k \in Key : Change(k)) \/ InformerStep
    BY <2>1, <1>1, <1>3 DEF InformerStep, Change, ListInitial, Watch, Relist
  <2>2. CASE \E c \in Controllers : RunStep(c)
    BY <2>2, <1>1, <1>4, <1>5 DEF RunStep, SyncList, SyncEnds, RunReturns
  <2>3. CASE \E w \in Worker : WorkerStep(w)
    BY <2>3, <1>8
  <2> QED
    BY <1>10, <2>1, <2>2, <2>3 DEF BaseStep
<1>11. CASE ServerStops \/ CancelContext \/ ProcessDies \/ UNCHANGED allVars
  BY <1>1, <1>2, <1>11
     DEF ServerStops, CancelContext, Cancel, ProcessDies, Exit, Forgets, allVars, vars
<1> QED
  BY <1>6, <1>9, <1>10, <1>11 DEF ServerNext

LEMMA InitBackoffInv == ServerInit => BackoffInv
<1> SUFFICES ASSUME ServerInit PROVE BackoffInv
  OBVIOUS
<1>1. wq = EmptyQueues
  BY DEF ServerInit, Init, Fresh
<1>2. \A k \in Key : wq[Owner[k]].backoff = {}
  BY <1>1, EmptyFacts, ControllersAssumption DEF EmptyQueues
<1> QED
  BY <1>2 DEF BackoffInv

\* A key's failures are remembered only while its retry is outstanding.
THEOREM FailuresForgotten == ServerSpec => []BackoffForgotten
<1>1. ASSUME BaseInv, BackoffInv PROVE BackoffForgotten
  <2> SUFFICES ASSUME NEW k \in Key, k \in wq[Owner[k]].backoff
               PROVE  LET q == wq[Owner[k]]
                      IN  q.down \/ k \in q.delayed \union q.dirty \union q.processing
    BY DEF BackoffForgotten
  <2>1. CASE Triggered(k)
    BY <2>1 DEF Triggered
  <2>2. ASSUME NEW w \in Worker, worker[w].pc \in InCall, worker[w].key = k
        PROVE  k \in wq[Owner[k]].processing
    BY <1>1, <2>2, BusyFacts DEF InCall, Busy
  <2> QED
    BY <1>1, <2>1, <2>2 DEF BackoffInv
<1> QED
  BY <1>1, InitBackoffInv, NextBackoffInv, AlwaysBaseInv, PTL DEF ServerSpec
-----------------------------------------------------------------------------
(* The shared flag.                                                        *)

\* With one worker per controller, as the constructors have it, only one
\* reconciliation uses the flag: that of the backup controller's worker.
FlagInv ==
  \A w \in Worker :
    /\ worker[w].pc = "execute" => w[1] = "dmaasBackup" /\ (worker[w].wants <=> shouldRequeue)
    /\ worker[w].pc \in {"call", "return"} => ~worker[w].wants
    /\ worker[w].pc = "done" /\ worker[w].wants =>
         wq[w[1]].down \/ worker[w].key \in wq[w[1]].dirty

SingleWorkers == \A c \in Controllers : NumWorker[c] = 1

LEMMA OneWorker ==
  ASSUME SingleWorkers, NEW v \in Worker, NEW w \in Worker, v[1] = w[1] PROVE v = w
<1>1. PICK c \in Controllers : v \in {c} \X (1 .. NumWorker[c])
  BY DEF Worker
<1>2. PICK d \in Controllers : w \in {d} \X (1 .. NumWorker[d])
  BY DEF Worker
<1>3. v = <<c, 1>> /\ w = <<d, 1>>
  BY <1>1, <1>2 DEF SingleWorkers
<1> QED
  BY <1>3

LEMMA OnlyBackupExecutes ==
  ASSUME NEW c \in Controllers, New(c).reconcile = "processBackup" PROVE c = "dmaasBackup"
<1>1. c \in ControllerName
  BY ControllersAssumption
<1> QED
  BY <1>1 DEF ControllerName, New, NewPreBackupActionController, NewDMaaSRestoreController,
              NewDMaaSBackupController

\* A step that leaves the flag and the reconciliations alone, and what is dirty
\* and in process.
LEMMA FlagKept ==
  ASSUME FlagInv, shouldRequeue' = shouldRequeue,
         \A w \in Worker : worker'[w] = worker[w] \/ worker'[w].pc \notin Busy,
         \A w \in Worker : worker[w].pc = "done" =>
           \/ wq'[w[1]].down
           \/ /\ worker[w].key \in wq[w[1]].dirty => worker[w].key \in wq'[w[1]].dirty
              /\ ~wq[w[1]].down
  PROVE  FlagInv'
<1> SUFFICES ASSUME NEW w \in Worker, worker'[w].pc \in Busy
             PROVE  /\ worker'[w].pc = "execute" =>
                         w[1] = "dmaasBackup" /\ (worker'[w].wants <=> shouldRequeue')
                    /\ worker'[w].pc \in {"call", "return"} => ~worker'[w].wants
                    /\ worker'[w].pc = "done" /\ worker'[w].wants =>
                         wq'[w[1]].down \/ worker'[w].key \in wq'[w[1]].dirty
  BY DEF FlagInv, Busy
<1>1. worker'[w] = worker[w]
  OBVIOUS
<1> QED
  BY <1>1 DEF FlagInv
LEMMA FlagQueue ==
  ASSUME BaseInv, FlagInv, NEW c \in Controllers, NEW q, QueueOK(c, q), Queues(c, q),
         q.down \/ (wq[c].dirty \subseteq q.dirty /\ ~wq[c].down),
         shouldRequeue' = shouldRequeue,
         \A w \in Worker : worker'[w] = worker[w] \/ worker'[w].pc \notin Busy
  PROVE  FlagInv'
<1>1. wq'[c] = q /\ \A d \in Controllers : d # c => wq'[d] = wq[d]
  BY QueuesFacts DEF BaseInv
<1>2. \A w \in Worker : worker[w].pc = "done" =>
        \/ wq'[w[1]].down
        \/ /\ worker[w].key \in wq[w[1]].dirty => worker[w].key \in wq'[w[1]].dirty
           /\ ~wq[w[1]].down
  BY <1>1, WorkerController
<1> QED
  BY <1>2, FlagKept

LEMMA FlagAside ==
  ASSUME FlagInv, UNCHANGED <<shouldRequeue, wq>>,
         \A w \in Worker : worker'[w] = worker[w] \/ worker'[w].pc \notin Busy
  PROVE  FlagInv'
BY FlagKept

LEMMA FlagNone ==
  ASSUME worker' = NoWorker PROVE FlagInv'
<1>1. \A w \in Worker : worker'[w].pc = "none"
  BY FreshFacts
<1> QED
  BY <1>1 DEF FlagInv

\* Take hands out a key that is not in process, so not one that was given a
\* promise at the end of a reconciliation.
LEMMA TakeFlagInv ==
  ASSUME BaseInv, FlagInv, NEW w \in Worker, Take(w) PROVE FlagInv'
<1> DEFINE c == w[1]
           k == Head(wq[c].items)
<1>1. /\ worker[w].pc = "get" /\ wq[c].items # <<>> /\ Queues(c, Get(wq[c]))
      /\ Becomes(w, [pc |-> "call", key |-> k, wants |-> FALSE]) /\ shouldRequeue' = shouldRequeue
  BY DEF Take
<1>2. c \in Controllers /\ QueueOK(c, wq[c]) /\ wq[c] \in Queue /\ Consistent(wq[c])
  BY BusyFacts, WorkerController
<1>3. /\ QueueOK(c, Get(wq[c])) /\ k \notin wq[c].processing
      /\ Get(wq[c]).dirty = wq[c].dirty \ {k} /\ Get(wq[c]).down = wq[c].down
  BY <1>1, <1>2, QueueGets, GetFacts
<1>4. wq'[c] = Get(wq[c]) /\ \A d \in Controllers : d # c => wq'[d] = wq[d]
  BY <1>1, <1>2, <1>3, QueuesFacts DEF BaseInv
<1>5. /\ worker'[w].pc = "call" /\ ~worker'[w].wants
      /\ \A v \in Worker : v # w => worker'[v] = worker[v]
  BY <1>1 DEF Becomes, BaseInv, TypeInv, ServerTypeOK, BaseTypeOK
<1> HIDE DEF k
<1> SUFFICES ASSUME NEW v \in Worker
             PROVE  /\ worker'[v].pc = "execute" =>
                         v[1] = "dmaasBackup" /\ (worker'[v].wants <=> shouldRequeue')
                    /\ worker'[v].pc \in {"call", "return"} => ~worker'[v].wants
                    /\ worker'[v].pc = "done" /\ worker'[v].wants =>
                         wq'[v[1]].down \/ worker'[v].key \in wq'[v[1]].dirty
  BY DEF FlagInv
<1>6. CASE v = w
  BY <1>5, <1>6
<1>7. CASE v # w
  <2>1. worker'[v] = worker[v]
    BY <1>5, <1>7
  <2>2. worker[v].pc = "done" => worker[v].key \in wq[v[1]].processing
    BY BusyFacts DEF Busy
  <2>3. worker[v].pc = "done" /\ worker[v].key \in wq[v[1]].dirty =>
          worker[v].key \in wq'[v[1]].dirty
    BY <2>2, <1>3, <1>4, WorkerController
  <2>4. wq'[v[1]].down = wq[v[1]].down
    BY <1>3, <1>4, WorkerController
  <2> QED
    BY <2>1, <2>3, <2>4, <1>1 DEF FlagInv
<1> QED
  BY <1>6, <1>7

\* The steps of a reconciliation: the flag is this worker's alone.
LEMMA CallFlagInv ==
  ASSUME SingleWorkers, BaseInv, FlagInv, NEW w \in Worker,
         Read(w) \/ ReadFails(w) \/ Reserve(w) \/ Return(w)
  PROVE  FlagInv'
<1> DEFINE c == w[1]
           k == worker[w].key
<1>1. worker[w].pc \in {"call", "execute", "return"}
  BY DEF Read, ReadFails, Reserve, Return
<1>2. /\ c \in Controllers /\ QueueOK(c, wq[c]) /\ wq[c] \in Queue /\ wq \in [Controllers -> Queue]
      /\ k \in OwnKeys(c) /\ k \in Key /\ worker[w] \in WorkerState
      /\ worker \in [Worker -> WorkerState]
  BY <1>1, BusyFacts, WorkerController
     DEF Busy, BaseInv, TypeInv, ServerTypeOK, BaseTypeOK, WorkerState
<1>3. PICK q \in {wq[c], AddRateLimited(wq[c], k), Add(wq[c], k), Forget(wq[c], k)} : Queues(c, q)
  BY <1>2 DEF Read, ReadFails, Reserve, Return, Queues
<1>4. QueueOK(c, q) /\ wq[c].dirty \subseteq q.dirty /\ q.down = wq[c].down
  BY <1>2, QueueOps, AddFacts, AddRateLimitedFacts, ForgetFacts
<1>5. wq'[c] = q /\ \A d \in Controllers : d # c => wq'[d] = wq[d]
  BY <1>2, <1>3, <1>4, QueuesFacts DEF BaseInv
<1>6. \A v \in Worker : v # w => worker'[v] = worker[v]
  BY <1>2 DEF Read, ReadFails, Reserve, Return, Becomes
<1>7. \A v \in Worker : v # w => \/ worker[v].pc # "execute"
                                 \/ shouldRequeue' = shouldRequeue
  <2> SUFFICES ASSUME NEW v \in Worker, v # w, worker[v].pc = "execute"
               PROVE  shouldRequeue' = shouldRequeue
    OBVIOUS
  <2>1. w[1] # "dmaasBackup"
    BY OneWorker DEF FlagInv
  <2>2. ~Executes(w) /\ worker[w].pc # "execute"
    BY <2>1, <1>2, OnlyBackupExecutes DEF FlagInv, Executes
  <2> QED
    BY <2>2 DEF Read, ReadFails, Reserve, Return
<1>8. ASSUME NEW v \in Worker, v # w
      PROVE  /\ worker'[v].pc = "execute" =>
                  v[1] = "dmaasBackup" /\ (worker'[v].wants <=> shouldRequeue')
             /\ worker'[v].pc \in {"call", "return"} => ~worker'[v].wants
             /\ worker'[v].pc = "done" /\ worker'[v].wants =>
                  wq'[v[1]].down \/ worker'[v].key \in wq'[v[1]].dirty
  BY <1>4, <1>5, <1>6, <1>7, <1>8, WorkerController DEF FlagInv
<1>9. /\ worker'[w].pc = "execute" =>
           c = "dmaasBackup" /\ (worker'[w].wants <=> shouldRequeue')
      /\ worker'[w].pc \in {"call", "return"} => ~worker'[w].wants
      /\ worker'[w].pc = "done" /\ worker'[w].wants =>
           wq'[c].down \/ worker'[w].key \in wq'[c].dirty
  <2>1. \A pc \in {"execute", "return", "done"} :
          LET st == [worker[w] EXCEPT !.pc = pc]
          IN  st.pc = pc /\ (st.wants <=> worker[w].wants) /\ st.key = k
    BY <1>2 DEF WorkerState
  <2>2. LET st == [worker[w] EXCEPT !.wants = TRUE]
        IN  st.pc = worker[w].pc /\ st.wants /\ st.key = k
    BY <1>2 DEF WorkerState
  <2>3. CASE Read(w)
    <3>1. worker[w].pc = "call" /\ ~worker[w].wants
      BY <2>3 DEF Read, FlagInv
    <3>2. CASE Executes(w) /\ worker'[w] = [worker[w] EXCEPT !.pc = "execute"] /\ shouldRequeue' = FALSE
      BY <3>1, <3>2, <2>1, <1>2, OnlyBackupExecutes DEF Executes
    <3>3. CASE worker'[w] = [worker[w] EXCEPT !.pc = "return"]
      BY <3>1, <3>3, <2>1
    <3> QED
      BY <2>3, <3>2, <3>3, <1>2 DEF Read, Becomes
  <2>4. CASE ReadFails(w)
    <3>1. worker[w].pc = "call" /\ ~worker[w].wants
          /\ worker'[w] = [worker[w] EXCEPT !.pc = "done"]
      BY <2>4, <1>2 DEF ReadFails, Becomes, FlagInv
    <3> QED
      BY <3>1, <2>1
  <2>5. CASE Reserve(w)
    <3>1. worker[w].pc = "execute" /\ worker'[w] = [worker[w] EXCEPT !.wants = TRUE]
          /\ shouldRequeue' = TRUE
      BY <2>5, <1>2 DEF Reserve, Becomes
    <3> QED
      BY <3>1, <2>2 DEF FlagInv
  <2>6. CASE Return(w)
    <3>1. worker'[w] = [worker[w] EXCEPT !.pc = "done"]
      BY <2>6, <1>2 DEF Return, Becomes
    <3>2. CASE worker[w].pc = "execute" /\ shouldRequeue
      <4>1. Queues(c, Add(wq[c], k)) /\ QueueOK(c, Add(wq[c], k))
            /\ (Add(wq[c], k).down \/ k \in Add(wq[c], k).dirty)
        BY <2>6, <3>2, <1>2, QueueOps, AddFacts DEF Return
      <4>2. wq'[c] = Add(wq[c], k)
        <5> HIDE DEF c, k
        <5> QED
          BY <4>1, <1>2, QueuesFacts DEF BaseInv
      <4> QED
        BY <4>1, <4>2, <3>1, <2>1
    <3>3. CASE ~(worker[w].pc = "execute" /\ shouldRequeue)
      <4>1. ~worker[w].wants
        BY <2>6, <3>3 DEF Return, FlagInv
      <4> QED
        BY <4>1, <3>1, <2>1
    <3> QED
      BY <3>2, <3>3
  <2> QED
    BY <2>3, <2>4, <2>5, <2>6
<1> QED
  BY <1>8, <1>9 DEF FlagInv
LEMMA NextFlagInv ==
  ASSUME SingleWorkers, BaseInv, FlagInv, [ServerNext]_allVars PROVE FlagInv'
<1>1. CASE UNCHANGED <<wq, worker, shouldRequeue>>
  BY <1>1, FlagAside
<1>2. CASE Forgets
  BY <1>2, FlagNone DEF Forgets
<1>3. ASSUME NEW k \in Key, Enqueue(k) \/ BackoffOver(k) PROVE FlagInv'
  <2> DEFINE c == Owner[k]
  <2>1. c \in Controllers /\ k \in OwnKeys(c) /\ QueueOK(c, wq[c]) /\ wq[c] \in Queue
    BY ControllersAssumption DEF OwnKeys, BaseInv, TypeInv, QueueOK
  <2>2. PICK q \in {Add(wq[c], k), Ready(wq[c], k)} : Queues(c, q)
    BY <1>3 DEF Enqueue, BackoffOver
  <2>3. QueueOK(c, q) /\ wq[c].dirty \subseteq q.dirty /\ q.down = wq[c].down
    BY <2>1, <2>2, QueueOps, AddFacts, ReadyFacts
  <2>4. worker' = worker /\ shouldRequeue' = shouldRequeue
    BY <1>3 DEF Enqueue, BackoffOver
  <2> HIDE DEF c
  <2> QED
    BY <2>1, <2>2, <2>3, <2>4, FlagQueue
<1>4. ASSUME NEW c \in Controllers, SyncEnqueue(c) \/ CloseQueue(c) PROVE FlagInv'
  <2>1. QueueOK(c, wq[c]) /\ wq[c] \in Queue /\ left[c] \subseteq OwnKeys(c)
    BY DEF BaseInv, TypeInv, QueueOK
  <2>2. PICK q : /\ QueueOK(c, q) /\ Queues(c, q)
                 /\ q.down \/ (wq[c].dirty \subseteq q.dirty /\ ~wq[c].down)
    <3>1. CASE SyncEnqueue(c)
      <4>1. PICK k \in OwnKeys(c) : Queues(c, Add(wq[c], k)) /\ k \in Key
        BY <2>1, <3>1 DEF SyncEnqueue, OwnKeys
      <4> QED
        BY <2>1, <4>1, QueueOps, AddFacts
    <3>2. CASE CloseQueue(c)
      BY <2>1, <3>2, QueueGets, ShutDownFacts DEF CloseQueue
    <3> QED
      BY <1>4, <3>1, <3>2
  <2> QED
    BY <1>4, <2>2, FlagQueue DEF SyncEnqueue, CloseQueue
<1>5. ASSUME NEW c \in Controllers, StartController(c) PROVE FlagInv'
  BY <1>5, RunFacts, IdleOK, FlagAside DEF StartController, Idle, Busy
<1>6. ASSUME NEW w \in Worker, UntilRound(w) \/ GetShutDown(w) \/ GiveBack(w) PROVE FlagInv'
  <2>1. /\ shouldRequeue' = shouldRequeue
        /\ \A v \in Worker : worker'[v] = worker[v] \/ worker'[v].pc \notin Busy
    BY <1>6 DEF UntilRound, GetShutDown, GiveBack, Becomes, Idle, Busy, BaseInv, TypeInv,
                ServerTypeOK, BaseTypeOK
  <2>2. CASE wq' = wq
    BY <2>1, <2>2, FlagAside
  <2>3. CASE GiveBack(w)
    <3> DEFINE c == w[1]
               q == Done(wq[c], worker[w].key)
    <3>1. c \in Controllers /\ QueueOK(c, wq[c]) /\ wq[c] \in Queue
          /\ worker[w].key \in OwnKeys(c) /\ worker[w].key \in wq[c].processing
      BY <2>3, BusyFacts, WorkerController DEF GiveBack, Busy
    <3>2. QueueOK(c, q) /\ q.dirty = wq[c].dirty /\ q.down = wq[c].down
      BY <3>1, QueueOps, DoneFacts
    <3>3. Queues(c, q)
      BY <2>3 DEF GiveBack
    <3> HIDE DEF c, q
    <3> QED
      BY <3>1, <3>2, <3>3, <2>1, FlagQueue
  <2> QED
    BY <1>6, <2>2, <2>3 DEF UntilRound, GetShutDown
<1>7. CASE StartUp
  BY <1>1, <1>2, <1>7
     DEF StartUp, ValidateConfig, ConfigInvalid, NewServer, NewServerFails, GetSupportedControllers,
         StartInformers, WaitForOwnCaches, WaitForVeleroCaches, Waits, Exit, vars
<1>8. CASE BaseStep
  <2>1. CASE (\E k \in Key : Change(k)) \/ InformerStep
    BY <2>1, <1>1, <1>3 DEF InformerStep, Change, ListInitial, Watch, Relist
  <2>2. CASE \E c \in Controllers : RunStep(c)
    BY <2>2, <1>1, <1>4 DEF RunStep, SyncList, SyncEnds, RunReturns
  <2>3. CASE \E w \in Worker : WorkerStep(w)
    BY <2>3, <1>6, TakeFlagInv, CallFlagInv DEF WorkerStep
  <2> QED
    BY <1>8, <2>1, <2>2, <2>3 DEF BaseStep
<1>9. CASE ServerStops \/ CancelContext \/ ProcessDies \/ UNCHANGED allVars
  BY <1>1, <1>2, <1>9
     DEF ServerStops, CancelContext, Cancel, ProcessDies, Exit, allVars, vars
<1> QED
  BY <1>5, <1>7, <1>8, <1>9 DEF ServerNext

LEMMA InitFlagInv == ServerInit => FlagInv
<1> SUFFICES ASSUME ServerInit PROVE FlagInv
  OBVIOUS
<1>1. \A w \in Worker : worker[w].pc = "none"
  BY FreshFacts DEF ServerInit, Init, Fresh
<1> QED
  BY <1>1 DEF FlagInv

\* With the single worker that every constructor is given, a reconciliation is
\* requeued exactly when it asked for it.
THEOREM FlagHonoured ==
  ASSUME SingleWorkers PROVE ServerSpec => []RequeueHonoured
<1>1. FlagInv => RequeueHonoured
  BY DEF FlagInv, RequeueHonoured
<1>2. BaseInv /\ FlagInv /\ [ServerNext]_allVars => FlagInv'
  BY NextFlagInv
<1> QED
  BY <1>1, <1>2, InitFlagInv, AlwaysBaseInv, PTL DEF ServerSpec
=============================================================================
