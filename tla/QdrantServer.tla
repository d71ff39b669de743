---------------------------- MODULE QdrantServer ----------------------------
(* The Qdrant server as the adapters use it (it is not part of the           *)
(* repository): collections of points, each with a FIFO queue of requests    *)
(* that were received and are applied one by one.  A client that passes      *)
(* wait=True is answered when its request has been applied, which is when    *)
(* nothing is left in front of it; with wait=False it is answered at once.   *)
EXTENDS Integers, Sequences

CONSTANT Coll   \* the names of the collections

VARIABLES
  points,  \* by collection, its points: id and payload
  queue    \* by collection, the requests that are not applied yet

\* A point id is a number a client never gives twice: here the rid it stands
\* for with the number of the write() call that made it.
Id(p) == <<p.rid, p.nth>>

Upsert(new) == [kind |-> "upsert", new |-> new, ids |-> {}, until |-> 0]

SetUntil(ids, at) == [kind |-> "set_payload", new |-> {}, ids |-> ids, until |-> at]

DeletePoints(ids) == [kind |-> "delete", new |-> {}, ids |-> ids, until |-> 0]

Without(pts, ids) == {p \in pts : Id(p) \notin ids}

\* A point is replaced by an upsert of its id; the other two requests pass
\* over ids that are not there.
Effect(pts, req) ==
  CASE req.kind = "upsert" -> Without(pts, {Id(p) : p \in req.new}) \cup req.new
    [] req.kind = "set_payload" ->
         {IF Id(p) \in req.ids THEN [p EXCEPT !.until = req.until] ELSE p : p \in pts}
    [] req.kind = "delete" -> Without(pts, req.ids)

Send(c, req) == queue' = [queue EXCEPT ![c] = Append(@, req)]

\* (mutant) a later request overtakes the ones before it
Apply_Overtaking(c) ==
  /\ queue[c] # <<>>
  /\ points' = [points EXCEPT ![c] = Effect(@, queue[c][Len(queue[c])])]
  /\ queue' = [queue EXCEPT ![c] = SubSeq(@, 1, Len(@) - 1)]

Apply(c) ==
  /\ queue[c] # <<>>
  /\ points' = [points EXCEPT ![c] = Effect(@, Head(queue[c]))]
  /\ queue' = [queue EXCEPT ![c] = Tail(@)]

\* Everything received has been applied.  A collection that reports "green" is
\* taken to be settled: it is what the adapters' flush() waits for.
Settled(c) == queue[c] = <<>>

Received(c) == {queue[c][i] : i \in DOMAIN queue[c]}

\* The requests of a kind, received and not applied, that name a point.
Naming(c, kind, p) == {req \in Received(c) : req.kind = kind /\ Id(p) \in req.ids}

\* What the collection will hold once its queue is applied: every point that is
\* stored or in an upsert, unless a delete names it, and with the end of its
\* interval that a set_payload gives it.  No client upserts an id again behind
\* a request that names it.
Held(c) ==
  {IF Naming(c, "set_payload", p) = {} THEN p
   ELSE [p EXCEPT !.until = (CHOOSE req \in Naming(c, "set_payload", p) : TRUE).until] :
     p \in {q \in points[c] \cup UNION {req.new : req \in Received(c)} :
             Naming(c, "delete", q) = {}}}

Empty == /\ points = [c \in Coll |-> {}]
         /\ queue = [c \in Coll |-> <<>>]

\* delete_collection and create_collection of each: requests that were still
\* queued go with the collection they were for.
Recreate == /\ points' = [c \in Coll |-> {}]
            /\ queue' = [c \in Coll |-> <<>>]
=============================================================================
