--------------------------- MODULE QdrantMonolith ---------------------------
(* The Qdrant adapter with one collection, request by request: a map from    *)
(* rids to point ids on the client's side, bulk upserts that return before   *)
(* they are applied, and a flush() that waits for the server only so long.   *)
(*                                                                           *)
(* compact() only reorganises storage.                                       *)
EXTENDS ScopedReads, Sequences, FiniteSets

CONSTANTS
  CH,         \* points per upsert request
  Retried,    \* the calls that are repeated when they raise
  MaxWrites,  \* bound: how many write() calls give out point ids
  MaxPending  \* bound: requests that may be pending when a call is repeated

ASSUME BoundAssumption == /\ CH \in Nat \ {0}
                          /\ MaxWrites \in Nat /\ MaxPending \in Nat
                          /\ Retried \subseteq {"write", "supersede", "delete"}

VARIABLES
  points, queue,  \* the server
  idmap,    \* _idmap: which write() made the point of a rid; 0, none
  counter,  \* _counter: how many write() calls have given out ids
  pc,       \* what the adapter does next
  todo,     \* the points write() has still to send
  waiting,  \* the adapter waits for the answer to its last request
  status,   \* index_config["status"]: what flush() saw last
  fresh     \* history variable: no call has been made since flush()

client == <<idmap, counter, pc, call, todo, waiting, status, fresh, acked>>

vars == <<points, queue, client>>

COLL == "rq9_mem"

INSTANCE QdrantServer WITH Coll <- {COLL}

Running == {"close", "closed", "insert", "erase", "erased"}

Points == [rid : Rid, nth : 1 .. MaxWrites, from : Instant, until : Instant \cup {TOpen}]

TypeOK ==
  /\ points[COLL] \subseteq Points
  /\ \A p, q \in points[COLL] : Id(p) = Id(q) => p = q
  /\ idmap \in [Rid -> 0 .. counter] /\ counter \in 0 .. MaxWrites
  /\ pc \in Running \cup {"idle", "failed"}
  /\ call.op \in {"none", "write", "supersede", "delete"}
  /\ IsBatch(call.recs) /\ call.rids \subseteq Rid
  /\ todo \subseteq Points
  /\ waiting \in BOOLEAN /\ fresh \in BOOLEAN
  /\ status \in {"none", "green", "yellow"}
  /\ acked \in [Rid -> Interval \cup {Absent}]

-----------------------------------------------------------------------------
(* The requests of a call, in the order the adapter makes them.              *)

Ready == waiting => Settled(COLL)

Request(req, wait) ==
  /\ Send(COLL, req)
  /\ waiting' = wait
  /\ UNCHANGED points

\* The ids of these rids that the map has.
Known(rids) == {<<r, idmap[r]>> : r \in {s \in rids : idmap[s] # 0}}

\* (mutant) the counter is read, but not advanced
StartInserts_SameCount(recs) ==
  /\ counter < MaxWrites
  /\ counter' = counter
  /\ idmap' = [r \in Rid |-> IF r \in DOMAIN recs THEN counter + 1 ELSE idmap[r]]
  /\ todo' = {[rid |-> r, nth |-> counter + 1,
               from |-> recs[r].from, until |-> recs[r].until] : r \in DOMAIN recs}
  /\ pc' = "insert"

\* write() gives out the ids and records them before it makes a request; a rid
\* that had one gets a new one.
StartInserts(recs) ==
  /\ counter < MaxWrites
  /\ counter' = counter + 1
  /\ idmap' = [r \in Rid |-> IF r \in DOMAIN recs THEN counter + 1 ELSE idmap[r]]
  /\ todo' = {[rid |-> r, nth |-> counter + 1,
               from |-> recs[r].from, until |-> recs[r].until] : r \in DOMAIN recs}
  /\ pc' = "insert"

Begin(c) ==
  \/ c.op = "write" /\ StartInserts(c.recs)
  \/ /\ c.op = "supersede" /\ pc' = "close"
     /\ UNCHANGED <<idmap, counter, todo>>
  \/ /\ c.op = "delete" /\ pc' = "erase"
     /\ UNCHANGED <<idmap, counter, todo>>

\* (mutant) the successor is written and the old version's point left as it is
CloseStmt_Skipped ==
  /\ pc = "close"
  /\ UNCHANGED <<points, queue, waiting>>
  /\ pc' = "closed"
  /\ UNCHANGED <<idmap, counter, call, todo, status, fresh, acked>>

CloseStmt ==
  /\ pc = "close"
  /\ IF Known(call.rids) = {} THEN UNCHANGED <<points, queue, waiting>>
     ELSE Request(SetUntil(Known(call.rids), call.at), TRUE)
  /\ pc' = "closed"
  /\ UNCHANGED <<idmap, counter, call, todo, status, fresh, acked>>

Successor ==
  /\ pc = "closed" /\ Ready
  /\ StartInserts(call.recs)
  /\ UNCHANGED <<points, queue, call, waiting, status, fresh, acked>>

\* More than one chunk: none of them is waited for.
UpsertStmt(chunk) ==
  /\ pc = "insert" /\ Ready /\ todo # {}
  /\ \/ chunk = todo /\ Cardinality(chunk) <= CH
     \/ chunk \subseteq todo /\ Cardinality(chunk) = CH
  /\ Request(Upsert(chunk), Cardinality(DOMAIN call.recs) <= CH)
  /\ todo' = todo \ chunk
  /\ UNCHANGED <<idmap, counter, pc, call, status, fresh, acked>>

\* (mutant) the adapter does not wait for a delete to be applied
EraseStmt_NoWait ==
  /\ pc = "erase"
  /\ Request(DeletePoints(Known(call.rids)), FALSE)
  /\ pc' = "erased"
  /\ UNCHANGED <<idmap, counter, call, todo, status, fresh, acked>>

\* The request is made even if no id is known; the ids stay in the map.
EraseStmt ==
  /\ pc = "erase"
  /\ Request(DeletePoints(Known(call.rids)), TRUE)
  /\ pc' = "erased"
  /\ UNCHANGED <<idmap, counter, call, todo, status, fresh, acked>>

Return ==
  /\ pc \in {"insert", "erased"} /\ Ready /\ todo = {}
  /\ pc' = "idle" /\ call' = NoCall /\ waiting' = FALSE /\ acked' = Outcome
  /\ UNCHANGED <<points, queue, idmap, counter, todo, status, fresh>>

\* A request raises, received or not; what was received will be applied.
Fail ==
  /\ pc \in Running
  /\ pc' = "failed" /\ waiting' = FALSE /\ todo' = {}
  /\ UNCHANGED <<points, queue, idmap, counter, call, status, fresh, acked>>

-----------------------------------------------------------------------------
(* The calls of the Backend protocol that change the store, and flush().     *)

Call(c) ==
  /\ pc = "idle"
  /\ call' = c
  /\ Begin(c)
  /\ fresh' = FALSE
  /\ UNCHANGED <<points, queue, waiting, status, acked>>

Write(recs) == Call(WriteOf(recs))

Supersede(rid, new, at) == Call(SupersedeOf(rid, new, at))

Delete(rids) == Call(DeleteOf(rids))

\* The caller makes the call that raised once more.
Retry ==
  /\ pc = "failed" /\ call.op \in Retried
  /\ Len(queue[COLL]) <= MaxPending
  /\ Begin(call)
  /\ UNCHANGED <<points, queue, call, waiting, status, fresh, acked>>

\* (mutant) flush() records "green" also when it gave up
Flush_Optimist ==
  /\ pc = "idle"
  /\ status' = "green"
  /\ fresh' = TRUE
  /\ UNCHANGED <<points, queue, idmap, counter, pc, call, todo, waiting, acked>>

\* The server is polled until it reports green or the deadline has passed, and
\* flush() returns either way; the status it saw last becomes the row's label.
Flush ==
  /\ pc = "idle"
  /\ status' \in {"green", "yellow"}
  /\ status' = "green" => Settled(COLL)
  /\ fresh' = TRUE
  /\ UNCHANGED <<points, queue, idmap, counter, pc, call, todo, waiting, acked>>

\* __init__: the collection is deleted and created, the map starts empty.
Reconstruct ==
  /\ pc \in {"idle", "failed"}
  /\ Recreate
  /\ idmap' = [r \in Rid |-> 0] /\ counter' = 0
  /\ pc' = "idle" /\ call' = NoCall /\ todo' = {} /\ waiting' = FALSE
  /\ status' = "none" /\ fresh' = FALSE /\ acked' = NoRows

ServerApplies == Apply(COLL) /\ UNCHANGED client

-----------------------------------------------------------------------------
Init ==
  /\ Empty
  /\ idmap = [r \in Rid |-> 0] /\ counter = 0
  /\ pc = "idle" /\ call = NoCall /\ todo = {} /\ waiting = FALSE
  /\ status = "none" /\ fresh = FALSE /\ acked = NoRows

Next ==
  \/ \E recs \in Batches : FitsHistory(recs) /\ Write(recs)
  \/ \E rid, new \in Rid, at \in Instant :
       MaySupersede(rid, new, at) /\ Supersede(rid, new, at)
  \/ \E rids \in (SUBSET Rid) \ {{}} : Delete(rids)
  \/ CloseStmt
  \/ Successor
  \/ \E chunk \in SUBSET todo : UpsertStmt(chunk)
  \/ EraseStmt
  \/ Return
  \/ Fail
  \/ Retry
  \/ Flush
  \/ Reconstruct
  \/ ServerApplies

Spec == Init /\ [][Next]_vars

-----------------------------------------------------------------------------
(* Reads.                                                                    *)

Answer(tenant, t) == {p.rid : p \in {q \in points[COLL] : Selects(q.rid, q, tenant, t)}}

\* audit: the server is asked for the point the map has.
AuditPresent(r) == \E p \in points[COLL] : idmap[r] # 0 /\ Id(p) = <<r, idmap[r]>>
=============================================================================
