-------------------------- MODULE QdrantPartitioned -------------------------
(* The epoch-partitioned Qdrant adapter, request by request.  It places and  *)
(* routes like the Postgres one, but a point is known to the server by an id *)
(* the adapter makes up and keeps in a map of its own, and a bulk upsert     *)
(* returns before the server has applied it.                                 *)
(*                                                                           *)
(* The program is single-threaded; between its requests, and after a bulk    *)
(* load also between its calls, the server applies what it has received.  A  *)
(* request that raises may have been received or not (a timeout does not     *)
(* say); the caller then repeats the call, if it is one of Retried, or       *)
(* constructs a new backend.                                                 *)
EXTENDS EpochPlacement, CallerHistory, Sequences, FiniteSets

CONSTANTS
  CH,         \* points per upsert request
  Retried,    \* the calls that are repeated when they raise
  MaxWrites,  \* bound: how many write() calls give out point ids
  MaxPending  \* bound: requests a collection may be behind when a call is repeated

ASSUME ChunkAssumption == CH \in Nat \ {0} /\ MaxWrites \in Nat /\ MaxPending \in Nat

ASSUME RetriedAssumption == Retried \subseteq {"write", "supersede", "delete"}

VARIABLES
  points, queue,  \* the server's collections
  idmap,    \* _idmap: by collection and rid, which write() made its point; 0, none
  counter,  \* _counter: how many write() calls have given out ids
  pc,       \* which loop of requests the adapter is in
  todo,     \* by collection, the points or ids the loop has still to send
  awaits    \* the collection whose answer the adapter waits for, or None

client == <<idmap, counter, pc, call, todo, awaits, acked>>

vars == <<points, queue, client>>

INSTANCE QdrantServer WITH Coll <- Table

None == -2

Loops == {"close", "uncur", "insert", "erase"}

PayloadOf(r, n, iv) == [rid |-> r, nth |-> n, from |-> iv.from, until |-> iv.until]

Points == [rid : Rid, nth : 1 .. MaxWrites, from : Instant, until : Instant \cup {TOpen}]

TypeOK ==
  /\ DOMAIN points = Table
  /\ \A c \in Table : points[c] \subseteq Points
  /\ \A c \in Table : \A p, q \in points[c] : Id(p) = Id(q) => p = q
  /\ idmap \in [Table -> [Rid -> 0 .. counter]] /\ counter \in 0 .. MaxWrites
  /\ pc \in Loops \cup {"idle", "failed"}
  /\ call.op \in {"none", "write", "supersede", "delete"}
  /\ IsBatch(call.recs) /\ call.rids \subseteq Rid
  /\ DOMAIN todo = Table
  /\ \A c \in Table : todo[c] \subseteq IF pc = "insert" THEN Points ELSE Rid \X (1 .. MaxWrites)
  /\ awaits \in Table \cup {None}
  /\ acked \in [Rid -> Interval \cup {Absent}]

-----------------------------------------------------------------------------
(* The requests of a call, in the order the adapter makes them.              *)

\* No request is made while the answer to the last one is awaited.
Ready == \A c \in Table : c = awaits => Settled(c)

\* (mutant) open rows are not added to cur
PlacedIn_EpochsOnly(c, recs) == {r \in DOMAIN recs : c \in EpochsFor(recs[r])}

PlacedIn(c, recs) == {r \in DOMAIN recs : c \in TablesOf(recs[r])}

\* (mutant) the counter is read, but not advanced
StartInserts_SameCount(recs) ==
  /\ counter < MaxWrites
  /\ counter' = counter
  /\ idmap' = [c \in Table |-> [r \in Rid |->
                 IF r \in PlacedIn(c, recs) THEN counter + 1 ELSE idmap[c][r]]]
  /\ todo' = [c \in Table |-> {PayloadOf(r, counter + 1, recs[r]) : r \in PlacedIn(c, recs)}]
  /\ pc' = "insert"

\* write() gives out the ids and records them before it makes a request.
StartInserts(recs) ==
  /\ counter < MaxWrites
  /\ counter' = counter + 1
  /\ idmap' = [c \in Table |-> [r \in Rid |->
                 IF r \in PlacedIn(c, recs) THEN counter + 1 ELSE idmap[c][r]]]
  /\ todo' = [c \in Table |-> {PayloadOf(r, counter + 1, recs[r]) : r \in PlacedIn(c, recs)}]
  /\ pc' = "insert"

\* The ids of these rids that the map has for collection c.
Known(c, rids) == {<<r, idmap[c][r]>> : r \in {s \in rids : idmap[c][s] # 0}}

StartLoop(first, rids) ==
  /\ pc' = first
  /\ todo' = [c \in Table |-> Known(c, rids)]
  /\ UNCHANGED <<idmap, counter>>

\* (mutant) supersede does not close the old version
Begin_NoClose(c) ==
  \/ c.op = "write" /\ StartInserts(c.recs)
  \/ c.op = "supersede" /\ StartLoop("close", {})
  \/ c.op = "delete" /\ StartLoop("erase", c.rids)

\* (mutant) supersede drops the entry of cur before it closes what the map has
Begin_PopFirst(c) ==
  \/ c.op = "write" /\ StartInserts(c.recs)
  \/ /\ c.op = "supersede"
     /\ pc' = "close"
     /\ idmap' = [idmap EXCEPT ![Cur] = [r \in Rid |-> IF r \in c.rids THEN 0 ELSE @[r]]]
     /\ todo' = [[d \in Table |-> Known(d, c.rids)] EXCEPT ![Cur] = {}]
     /\ UNCHANGED counter
  \/ c.op = "delete" /\ StartLoop("erase", c.rids)

Begin(c) ==
  \/ c.op = "write" /\ StartInserts(c.recs)
  \/ c.op = "supersede" /\ StartLoop("close", c.rids)
  \/ c.op = "delete" /\ StartLoop("erase", c.rids)

Others(c) == {d \in Table : d # c /\ todo[d] # {}}

\* "for coll in self._colls": cur first, then the epochs in ascending order.
IsNext(c) == /\ todo[c] # {}
             /\ \A d \in Others(c) : c < d

\* The request is made; wait=True has the adapter wait for its answer.
Request(c, req, wait) ==
  /\ Send(c, req)
  /\ awaits' = IF wait THEN c ELSE None
  /\ UNCHANGED points

\* set_payload(valid_until = at) on the point of the superseded rid
CloseStmt(c) ==
  /\ pc = "close" /\ Ready /\ IsNext(c)
  /\ Request(c, SetUntil(todo[c], call.at), TRUE)
  /\ todo' = [todo EXCEPT ![c] = {}]
  /\ UNCHANGED <<idmap, counter, pc, call, acked>>

\* The map drops the old version from cur; the request that deletes its point
\* there is still to be made, and names it by the number the map had.
PopEntry ==
  /\ pc = "close" /\ Ready /\ \A c \in Table : todo[c] = {}
  /\ idmap' = [idmap EXCEPT ![Cur] = [r \in Rid |-> IF r \in call.rids THEN 0 ELSE @[r]]]
  /\ todo' = [todo EXCEPT ![Cur] = Known(Cur, call.rids)]
  /\ pc' = "uncur"
  /\ UNCHANGED <<points, queue, counter, call, awaits, acked>>

\* (mutant) the entry is dropped, but the point in cur is not deleted
UncurStmt_Unsent ==
  /\ pc = "uncur" /\ Ready /\ todo[Cur] # {}
  /\ todo' = [todo EXCEPT ![Cur] = {}]
  /\ UNCHANGED <<points, queue, idmap, counter, pc, call, awaits, acked>>

UncurStmt ==
  /\ pc = "uncur" /\ Ready /\ todo[Cur] # {}
  /\ Request(Cur, DeletePoints(todo[Cur]), TRUE)
  /\ todo' = [todo EXCEPT ![Cur] = {}]
  /\ UNCHANGED <<idmap, counter, pc, call, acked>>

Successor ==
  /\ pc = "uncur" /\ Ready /\ todo[Cur] = {}
  /\ StartInserts(call.recs)
  /\ UNCHANGED <<points, queue, call, awaits, acked>>

\* per_coll is a dict filled record by record, so a collection comes up after
\* those that the first record placed in it names before it.
InDictOrder(c) ==
  /\ \A d \in Others(c) : Cardinality(todo[d]) = Cardinality(PlacedIn(d, call.recs))
  /\ \E r \in PlacedIn(c, call.recs) :
       \A d \in TablesOf(call.recs[r]) \ {Cur} : (c = Cur \/ d < c) => todo[d] = {}

Many(c) == Cardinality(PlacedIn(c, call.recs)) > CH

\* One chunk; a collection that gets more than one is not waited for.
UpsertStmt(c, chunk) ==
  /\ pc = "insert" /\ Ready /\ todo[c] # {} /\ InDictOrder(c)
  /\ \/ chunk = todo[c] /\ Cardinality(chunk) <= CH
     \/ chunk \subseteq todo[c] /\ Cardinality(chunk) = CH
  /\ Request(c, Upsert(chunk), ~Many(c))
  /\ todo' = [todo EXCEPT ![c] = @ \ chunk]
  /\ UNCHANGED <<idmap, counter, pc, call, acked>>

\* (mutant) the adapter does not wait for a delete to be applied
EraseStmt_NoWait(c) ==
  /\ pc = "erase" /\ Ready /\ IsNext(c)
  /\ Request(c, DeletePoints(todo[c]), FALSE)
  /\ todo' = [todo EXCEPT ![c] = {}]
  /\ UNCHANGED <<idmap, counter, pc, call, acked>>

\* The ids stay in the map.
EraseStmt(c) ==
  /\ pc = "erase" /\ Ready /\ IsNext(c)
  /\ Request(c, DeletePoints(todo[c]), TRUE)
  /\ todo' = [todo EXCEPT ![c] = {}]
  /\ UNCHANGED <<idmap, counter, pc, call, acked>>

Return ==
  /\ pc \in {"insert", "erase"} /\ Ready /\ \A c \in Table : todo[c] = {}
  /\ pc' = "idle" /\ call' = NoCall /\ awaits' = None /\ acked' = Outcome
  /\ UNCHANGED <<points, queue, idmap, counter, todo>>

\* A request raises, received or not; what was received will be applied.
Fail ==
  /\ pc \in Loops
  /\ pc' = "failed" /\ awaits' = None
  /\ todo' = [c \in Table |-> {}]
  /\ UNCHANGED <<points, queue, idmap, counter, call, acked>>

-----------------------------------------------------------------------------
(* The calls of the Backend protocol that change the store.                  *)

Call(c) ==
  /\ pc = "idle"
  /\ call' = c
  /\ Begin(c)
  /\ UNCHANGED <<points, queue, awaits, acked>>

Write(recs) == Call(WriteOf(recs))

Supersede(rid, new, at) == Call(SupersedeOf(rid, new, at))

Delete(rids) == Call(DeleteOf(rids))

\* The caller makes the call that raised once more.
Retry ==
  /\ pc = "failed" /\ call.op \in Retried
  /\ \A c \in Table : Len(queue[c]) <= MaxPending
  /\ Begin(call)
  /\ UNCHANGED <<points, queue, call, awaits, acked>>

\* __init__: the collections are deleted and created, the map starts empty.
Reconstruct ==
  /\ pc \in {"idle", "failed"}
  /\ Recreate
  /\ idmap' = [c \in Table |-> [r \in Rid |-> 0]] /\ counter' = 0
  /\ pc' = "idle" /\ call' = NoCall /\ todo' = [c \in Table |-> {}]
  /\ awaits' = None /\ acked' = NoRows

ServerApplies(c) == Apply(c) /\ UNCHANGED client

-----------------------------------------------------------------------------
Init ==
  /\ Empty
  /\ idmap = [c \in Table |-> [r \in Rid |-> 0]] /\ counter = 0
  /\ pc = "idle" /\ call = NoCall /\ todo = [c \in Table |-> {}]
  /\ awaits = None /\ acked = NoRows

Next ==
  \/ \E recs \in Batches : FitsHistory(recs) /\ Write(recs)
  \/ \E rid, new \in Rid, at \in Instant :
       MaySupersede(rid, new, at) /\ Supersede(rid, new, at)
  \/ \E rids \in (SUBSET Rid) \ {{}} : Delete(rids)
  \/ \E c \in Table : CloseStmt(c)
  \/ PopEntry
  \/ UncurStmt
  \/ Successor
  \/ \E c \in Table : \E chunk \in SUBSET todo[c] : UpsertStmt(c, chunk)
  \/ \E c \in Table : EraseStmt(c)
  \/ Return
  \/ Fail
  \/ Retry
  \/ Reconstruct
  \/ \E c \in Table : ServerApplies(c)

Spec == Init /\ [][Next]_vars

-----------------------------------------------------------------------------
(* What a read sees: a filter over the one collection it is routed to.       *)

ValidPoint(p, t) == p.from <= t /\ t < p.until

AnswerAt(t) == {p.rid : p \in {q \in points[Route(t)] : ValidPoint(q, t)}}

AnswerNow == {p.rid : p \in {q \in points[Cur] : q.until >= TOpen}}

\* audit: the map is asked, not the server.
AuditPresent(r) == idmap[Cur][r] # 0

\* flush() returned because every collection reported green.
AllSettled == \A c \in Table : Settled(c)
=============================================================================
