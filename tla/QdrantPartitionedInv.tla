------------------------ MODULE QdrantPartitionedInv ------------------------
(* What the partitioned Qdrant adapter promises: its properties, the         *)
(* refinement mapping to the version store, and the inductive invariant of   *)
(* the proofs.                                                               *)
EXTENDS QdrantPartitioned

\* Once every collection has reported green after the calls that returned, a
\* read routed to one collection is exact: inside the horizon at any instant,
\* and for now.  It is what the as_of rows of the g3 driver rest on.
SettledReadsExact ==
  pc = "idle" /\ AllSettled =>
    /\ \A t \in Instant : t < Horizon => AnswerAt(t) = TrueAt(t)
    /\ AnswerNow = TrueNow

\* Between calls, while bulk upserts are still being applied, a read may miss
\* rows but shows nothing that was deleted, closed or never written: deletes
\* and closes are waited for, behind the upserts they have to find applied.
NothingStaleReadable ==
  pc = "idle" =>
    /\ \A t \in Instant : t < Horizon => AnswerAt(t) \subseteq TrueAt(t)
    /\ AnswerNow \subseteq TrueNow

\* No read ever returns two versions of one memory: not while requests are on
\* their way, not between two of them, not after one raised ("Leak must be 0.00
\* even if routing is wrong", and this adapter mirrors the Postgres one).
AtMostOneVersion ==
  \A r, s \in Rid : SameChain(r, s) =>
    /\ \A t \in Instant : ~({r, s} \subseteq AnswerAt(t))
    /\ ~({r, s} \subseteq AnswerNow)

\* The points of a collection: stored, or in an upsert that is on its way.
Pending(c) == {queue[c][i] : i \in DOMAIN queue[c]}

Copies(c) == points[c] \cup UNION {req.new : req \in Pending(c)}

\* The superseded row has been taken out of the map of cur, or will be: its
\* point there may be one that the map does not name.
Dropped(c, r) ==
  c = Cur /\ call.op = "supersede" /\ r \in call.rids /\ pc \in {"uncur", "failed"}

\* In every state, after a call that raised too, the map has every point that is
\* stored or on its way, so that delete and supersede of its rid find it.  The
\* one exception is the old version's point in cur, from the pop of its entry
\* until its delete is applied; if that request is never received nobody
\* reaches the point again, but it was closed before.
EveryPointReachable ==
  \A c \in Table : \A p \in Copies(c) :
    idmap[c][p.rid] = p.nth \/ (Dropped(c, p.rid) /\ p.until = call.at)

\* audit never denies a record that a read for now returns, not even while a
\* supersede drops it from the map, or after that raised; nor, between calls,
\* one that is open and still queued.  (The converse fails: delete leaves the
\* map alone.)
AuditDeniesNoneOpen ==
  /\ \A r \in AnswerNow : AuditPresent(r)
  /\ pc = "idle" => \A r \in TrueNow : AuditPresent(r)

-----------------------------------------------------------------------------
(* Refinement: a row is in the abstract store as its point in the highest    *)
(* epoch collection will be when the requests sent so far are applied.       *)

\* What each collection will have of a row.
Kept ==
  [e \in Epochs |->
    LET held == Held(e)
    IN  [r \in Rid |-> IF \A p \in held : p.rid # r THEN Absent
                       ELSE LET p == CHOOSE q \in held : q.rid = r
                            IN  [from |-> p.from, until |-> p.until]]]

LastCopies ==
  LET kept       == Kept
      holding(r) == {e \in Epochs : kept[e][r] # Absent}
      last(r)    == CHOOSE e \in holding(r) : \A f \in holding(r) : f <= e
  IN  [r \in Rid |-> IF holding(r) = {} THEN Absent ELSE kept[last(r)][r]]

\* The requests implement the steps of the version store, each at the moment
\* it is received: that it is applied later, or that its answer is lost,
\* changes nothing, and a delete that is repeated deletes once.
Store == INSTANCE VersionStore WITH hist <- LastCopies

StoreSpec == Store!Spec

-----------------------------------------------------------------------------
(* The inductive invariant, if only deletes are repeated: what every copy of *)
(* a row, stored or on its way to any collection, says of it.                *)

Requests == [kind : {"upsert", "set_payload", "delete"}, new : SUBSET Points,
             ids : SUBSET (Rid \X (1 .. MaxWrites)), until : Nat]

LastSent(c) == queue[c][Len(queue[c])]

\* The points the loop of upserts has still to send.
Unsent(c) == IF pc = "insert" THEN todo[c] ELSE {}

CopiesOf(c, r) == {p \in Copies(c) : p.rid = r}

UnsentOf(c, r) == {p \in Unsent(c) : p.rid = r}

Says(p, iv) == p.from = iv.from /\ p.until = iv.until

OneEach(pts) == \A p, q \in pts : Id(p) = Id(q) => p = q

\* The loop has made its request to c, and has had the answer.
Done(c) == todo[c] = {} /\ (c = awaits => Settled(c))

\* Every copy says iv, cur has one only of an open row, and no table that the
\* placement rule names is without.
Stands(r, iv) ==
  /\ \A c \in Table : \A p \in CopiesOf(c, r) : Says(p, iv)
  /\ CopiesOf(Cur, r) # {} => IsOpen(iv)
  /\ \A c \in TablesOf(iv) : CopiesOf(c, r) # {}

\* No call has touched the row, or all that have are done with it.
AsAcked(r) == IF acked[r] = Absent THEN \A c \in Table : CopiesOf(c, r) = {}
              ELSE Stands(r, acked[r])

Inserting(r) ==
  /\ acked[r] = Absent
  /\ \A c \in Table : \A p \in CopiesOf(c, r) \cup UnsentOf(c, r) :
       c \in TablesOf(call.recs[r]) /\ Says(p, call.recs[r])
  /\ pc = "insert" =>
       \A c \in TablesOf(call.recs[r]) : CopiesOf(c, r) \cup UnsentOf(c, r) # {}
  /\ pc \in {"close", "uncur"} => \A c \in Table : CopiesOf(c, r) = {}

ClosedIn(c, r) == \A p \in CopiesOf(c, r) : Says(p, Closed(acked[r], call.at))

\* A row being superseded is closed in the collections that have answered, and
\* in all of them before a copy of the successor is on its way to any.
Closing(r) ==
  /\ acked[r] # Absent
  /\ \A c \in Table : \A p \in CopiesOf(c, r) :
       Says(p, acked[r]) \/ Says(p, Closed(acked[r], call.at))
  /\ \A e \in EpochsFor(acked[r]) : CopiesOf(e, r) # {}
  /\ pc = "close" => \A c \in Table : Done(c) => ClosedIn(c, r)
  /\ \/ pc \in {"uncur", "insert"}
     \/ \E c \in Table, s \in DOMAIN call.recs : CopiesOf(c, s) # {}
     => \A c \in Table : ClosedIn(c, r)
  /\ pc = "insert" \/ (pc = "uncur" /\ Done(Cur)) => CopiesOf(Cur, r) = {}

\* A row being deleted is gone from the collections that have answered.
Erasing(r) ==
  /\ \A c \in Table : \A p \in CopiesOf(c, r) : acked[r] # Absent /\ Says(p, acked[r])
  /\ CopiesOf(Cur, r) # {} => IsOpen(acked[r])
  /\ pc = "erase" => \A c \in Table : Done(c) => CopiesOf(c, r) = {}

RowOK(r) ==
  IF r \in DOMAIN call.recs THEN Inserting(r)
  ELSE IF r \in call.rids /\ call.op = "supersede" THEN Closing(r)
  ELSE IF r \in call.rids THEN Erasing(r) ELSE AsAcked(r)

HistoryOK ==
  \A r, s \in Rid : SameChain(r, s) /\ acked[r] # Absent /\ acked[s] # Absent
    => Apart(acked[r], acked[s])

CallOK ==
  \/ call = NoCall /\ pc = "idle"
  \/ /\ call.op = "write" /\ pc \in {"insert", "failed"}
     /\ call.rids = {} /\ FitsHistory(call.recs)
  \/ /\ call.op = "supersede" /\ pc \in {"close", "uncur", "insert", "failed"}
     /\ \E rid, new \in Rid :
          /\ MaySupersede(rid, new, call.at) /\ call.at \in Instant /\ call.rids = {rid}
          /\ call.recs = [r \in {new} |-> [from |-> call.at, until |-> TOpen]]
  \/ call.op = "delete" /\ pc \in {"erase", "failed"} /\ call.recs = NoRecs

\* A close or a delete that is on its way names all the points of the rows of
\* the call, and no others; until the call returns no upsert follows it.
RequestOK(c, req) ==
  \/ req.kind = "upsert" /\ OneEach(req.new)
  \/ /\ req.new = {}
     /\ \/ /\ req.kind = "set_payload" /\ req.until = call.at
           /\ call.op = "supersede" /\ pc \in {"close", "uncur", "failed"}
        \/ /\ req.kind = "delete"
           /\ \/ call.op = "delete" /\ Known(c, call.rids) # {}
              \/ call.op = "supersede" /\ c = Cur /\ pc \in {"uncur", "failed"}
     /\ \A p \in Copies(c) : Id(p) \in req.ids <=> p.rid \in call.rids

\* Such a request is waited for before the loop goes on, unless an attempt at
\* the delete that raised has left it and the loop has still to come to it.
WaitOK ==
  /\ pc \in {"idle", "failed"} => awaits = None
  /\ \A c \in Table : \A req \in Pending(c) :
       \/ req.kind = "upsert"
       \/ c = awaits
       \/ pc = "failed" \/ (pc = "erase" /\ todo[c] # {})
  /\ awaits \in Table /\ ~Settled(awaits) =>
       /\ pc = "close" => LastSent(awaits).kind = "set_payload"
       /\ pc = "uncur" => awaits = Cur
       /\ pc \in {"uncur", "erase"} => LastSent(awaits).kind = "delete"

TodoOK ==
  /\ \A c \in Table :
       /\ pc \in {"idle", "failed"} \/ (pc = "uncur" /\ c # Cur) => todo[c] = {}
       /\ pc \in {"close", "erase"} => todo[c] \in {{}, Known(c, call.rids)}
       /\ OneEach(Unsent(c))
       /\ \A p \in Unsent(c) : p.rid \in DOMAIN call.recs
  /\ pc = "uncur" /\ todo[Cur] # {} =>
       \A p \in Copies(Cur) : Id(p) \in todo[Cur] <=> p.rid \in call.rids

\* What EveryPointReachable says, of the points still to be sent as well.
MapOK ==
  \A c \in Table : \A p \in Copies(c) \cup Unsent(c) :
    p.nth = idmap[c][p.rid] \/ (Dropped(c, p.rid) /\ p.until = call.at)

IInv ==
  /\ TypeOK
  /\ points \in [Table -> SUBSET Points] /\ queue \in [Table -> Seq(Requests)]
  /\ HistoryOK /\ CallOK
  /\ \A c \in Table : \A req \in Pending(c) : RequestOK(c, req)
  /\ MapOK
  /\ \A r \in Rid : RowOK(r)
  /\ WaitOK /\ TodoOK

\* No upsert is behind a request that names points, ...
NoUpsertBehind(c) ==
  \A i, j \in DOMAIN queue[c] :
    i < j /\ queue[c][i].kind # "upsert" => queue[c][j].kind # "upsert"

\* ... and the copies of a point are alike: so what the requests on their way
\* make of a row can be told without regard to their order.
QueueOK == \A c \in Table : NoUpsertBehind(c) /\ OneEach(Copies(c))

\* The inductive invariant of the refinement.
StoreInv == IInv /\ QueueOK
=============================================================================
