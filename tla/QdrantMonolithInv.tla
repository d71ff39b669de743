------------------------ MODULE QdrantMonolithInv ---------------------------
(* What the Qdrant adapter promises: its properties, the refinement mapping  *)
(* to the version store, and the inductive invariant of the proofs.          *)
EXTENDS QdrantMonolith

(* Properties.                                                               *)

\* A row measured after a flush() that saw green is measured on all the data:
\* every read, scoped or not, at an instant or over the whole history, is
\* exact.  A flush() that gave up leaves a label that says so.
GreenReadsExact ==
  pc = "idle" /\ fresh /\ status = "green" =>
    \A tenant \in Tenants, t \in Instants : Answer(tenant, t) = Truth(tenant, t)

\* Between calls, with bulk upserts still pending, a read may miss rows but
\* shows nothing deleted, closed or out of scope ("applied" is "unrankable").
NothingStaleReadable ==
  pc = "idle" =>
    \A tenant \in Tenants, t \in Instants : Answer(tenant, t) \subseteq Truth(tenant, t)

\* No as_of read returns two versions of one memory, between two requests and
\* after one raised included.
AtMostOneVersion ==
  \A r, s \in Rid, t \in Instant : SameChain(r, s) => ~({r, s} \subseteq Answer(AnyTenant, t))

\* Between calls the self-report never claims a deleted record, and denies a
\* stored one only while its upsert is pending.
AuditTruthful ==
  pc = "idle" =>
    \A r \in Rid : /\ AuditPresent(r) => acked[r] # Absent
                   /\ acked[r] # Absent /\ Settled(COLL) => AuditPresent(r)

\* Refinement: a row is in the abstract store as its point will be when the
\* requests sent so far are applied.
LastCopies ==
  LET held == Held(COLL)
  IN  [r \in Rid |-> IF \A p \in held : p.rid # r THEN Absent
                     ELSE LET p == CHOOSE q \in held : q.rid = r
                          IN  [from |-> p.from, until |-> p.until]]

\* The requests implement the steps of the version store, each at the moment
\* it is received, whether or not its answer arrives.
Store == INSTANCE VersionStore WITH hist <- LastCopies

StoreSpec == Store!Spec

-----------------------------------------------------------------------------
(* The inductive invariant, if only deletes are repeated: what every copy of *)
(* a row, stored or on its way, says of it.                                  *)

Requests == [kind : {"upsert", "set_payload", "delete"}, new : SUBSET Points,
             ids : SUBSET (Rid \X (1 .. MaxWrites)), until : Nat]

Pending == {queue[COLL][i] : i \in DOMAIN queue[COLL]}

LastSent == queue[COLL][Len(queue[COLL])]

Copies == points[COLL] \cup UNION {req.new : req \in Pending}

CopiesOf(r) == {p \in Copies : p.rid = r}

TodoOf(r) == {p \in todo : p.rid = r}

Says(p, iv) == p.from = iv.from /\ p.until = iv.until

OneEach(pts) == \A p, q \in pts : Id(p) = Id(q) => p = q

\* No call has touched the row, or all that have are done with it.
AsAcked(r) ==
  /\ CopiesOf(r) # {} <=> acked[r] # Absent
  /\ \A p \in CopiesOf(r) : Says(p, acked[r])

Inserting(r) ==
  /\ acked[r] = Absent
  /\ \A p \in CopiesOf(r) \cup TodoOf(r) : Says(p, call.recs[r])
  /\ pc = "insert" => CopiesOf(r) \cup TodoOf(r) # {}
  /\ pc \in {"close", "closed"} => CopiesOf(r) = {}

\* Every copy is closed before a copy of the successor is on its way.
Closing(r) ==
  /\ acked[r] # Absent /\ CopiesOf(r) # {}
  /\ \A p \in CopiesOf(r) : Says(p, acked[r]) \/ Says(p, Closed(acked[r], call.at))
  /\ \/ pc = "insert"
     \/ pc = "closed" /\ Settled(COLL)
     \/ \E s \in DOMAIN call.recs : CopiesOf(s) # {}
     => \A p \in CopiesOf(r) : Says(p, Closed(acked[r], call.at))

Erasing(r) ==
  /\ CopiesOf(r) # {} => acked[r] # Absent
  /\ \A p \in CopiesOf(r) : Says(p, acked[r])
  /\ pc = "erased" /\ Settled(COLL) => CopiesOf(r) = {}

RowOK(r) ==
  IF r \in DOMAIN call.recs THEN Inserting(r)
  ELSE IF r \in call.rids /\ call.op = "supersede" THEN Closing(r)
  ELSE IF r \in call.rids THEN Erasing(r) ELSE AsAcked(r)

HistoryOK ==
  \A r, s \in Rid : SameChain(r, s) /\ acked[r] # Absent /\ acked[s] # Absent
    => Apart(acked[r], acked[s])

CallOK ==
  \/ call = NoCall /\ pc = "idle"
  \/ /\ call.op = "write" /\ pc \in {"insert", "failed"}
     /\ call.rids = {} /\ FitsHistory(call.recs)
  \/ /\ call.op = "supersede" /\ pc \in {"close", "closed", "insert", "failed"}
     /\ \E rid, new \in Rid :
          /\ MaySupersede(rid, new, call.at) /\ call.at \in Instant /\ call.rids = {rid}
          /\ call.recs = [r \in {new} |-> [from |-> call.at, until |-> TOpen]]
  \/ call.op = "delete" /\ pc \in {"erase", "erased", "failed"} /\ call.recs = NoRecs

\* Until a call returns, nothing but upserts is behind it in the queue.
RequestOK(req) ==
  \/ req.kind = "upsert" /\ OneEach(req.new)
  \/ /\ req = SetUntil(Known(call.rids), call.at)
     /\ call.op = "supersede" /\ pc \in {"closed", "failed"}
  \/ req = DeletePoints(Known(call.rids)) /\ call.op = "delete"

\* What is waited for is the last request, and finds what it is about.
WaitOK ==
  /\ pc \in {"closed", "erased"} => waiting
  /\ pc = "closed" /\ ~Settled(COLL) => LastSent = SetUntil(Known(call.rids), call.at)
  /\ pc = "erased" /\ ~Settled(COLL) => LastSent = DeletePoints(Known(call.rids))

TodoOK ==
  /\ todo # {} => pc = "insert"
  /\ OneEach(todo)
  /\ \A p \in todo : p.rid \in DOMAIN call.recs

FlushOK == fresh => pc = "idle" /\ (status = "green" => Settled(COLL))

IInv ==
  /\ TypeOK
  /\ points \in [{COLL} -> SUBSET Points] /\ queue \in [{COLL} -> Seq(Requests)]
  /\ HistoryOK /\ CallOK
  /\ \A req \in Pending : RequestOK(req)
  /\ \A p \in Copies \cup todo : p.nth = idmap[p.rid]
  /\ \A r \in Rid : RowOK(r)
  /\ WaitOK /\ TodoOK /\ FlushOK

\* No upsert is behind a request that names points, ...
NoUpsertBehind ==
  \A i, j \in DOMAIN queue[COLL] :
    i < j /\ queue[COLL][i].kind # "upsert" => queue[COLL][j].kind # "upsert"

\* ... and the copies of a point are alike: so what the requests on their way
\* make of a row can be told without regard to their order.
QueueOK == NoUpsertBehind /\ OneEach(Copies)

\* The inductive invariant of the refinement.
StoreInv == IInv /\ QueueOK
=============================================================================
