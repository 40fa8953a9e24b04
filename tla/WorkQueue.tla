------------------------------ MODULE WorkQueue ------------------------------
(***************************************************************************)
(* The rate-limited work queue that newController makes                     *)
(* (workqueue.NewNamedRateLimitingQueue of client-go), by what the calls of *)
(* base_controller.go do to it.  It is a library, modelled from its use.    *)
(*                                                                         *)
(* items are the keys in line; dirty the keys that have to be handled;      *)
(* processing the keys a worker has taken and not given back.  A key that   *)
(* becomes dirty while it is processed joins the line only at Done.         *)
(* delayed are the keys AddRateLimited holds back for their backoff, and    *)
(* backoff those whose failures are counted: the length of the delay is     *)
(* left out.                                                               *)
(***************************************************************************)
EXTENDS Naturals, Sequences

CONSTANT Key

Queue == [items : Seq(Key), dirty : SUBSET Key, processing : SUBSET Key,
          delayed : SUBSET Key, backoff : SUBSET Key, down : BOOLEAN]

Empty == [items |-> <<>>, dirty |-> {}, processing |-> {},
          delayed |-> {}, backoff |-> {}, down |-> FALSE]

Line(q) == {q.items[i] : i \in DOMAIN q.items}

\* The keys in line, each there once, are the dirty ones that are not being
\* processed.
Consistent(q) ==
  /\ Line(q) = q.dirty \ q.processing
  /\ \A i, j \in DOMAIN q.items : q.items[i] = q.items[j] => i = j

Add(q, k) ==
  IF q.down \/ k \in q.dirty THEN q
  ELSE [q EXCEPT !.dirty = @ \union {k},
                 !.items = IF k \in q.processing THEN @ ELSE Append(@, k)]

AddRateLimited(q, k) ==
  [q EXCEPT !.backoff = @ \union {k},
            !.delayed = IF q.down THEN @ ELSE @ \union {k}]

\* The delay of k is over.
Ready(q, k) == Add([q EXCEPT !.delayed = @ \ {k}], k)

Forget(q, k) == [q EXCEPT !.backoff = @ \ {k}]

\* Get returns the head of the line; it blocks while the line is empty and the
\* queue is not shut down.
Get(q) ==
  [q EXCEPT !.items = Tail(@), !.dirty = @ \ {Head(q.items)},
            !.processing = @ \union {Head(q.items)}]

Done(q, k) ==
  [q EXCEPT !.processing = @ \ {k},
            !.items = IF k \in q.dirty THEN Append(@, k) ELSE @]

\* Keys in line are still handed out; nothing is added any more.
ShutDown(q) == [q EXCEPT !.down = TRUE]
=============================================================================
