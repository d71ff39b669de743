------------------------------ MODULE PgVector ------------------------------
(* The pgvector adapter, statement by statement: one table for the whole     *)
(* history, each statement committed alone, the vector index built on the    *)
(* first flush() if the backend was made to defer it.                        *)
(*                                                                           *)
(* The table maps each rid, its primary key, to the validity interval of its *)
(* row.  Unlike the partitioned adapter it takes a rid a second time: the    *)
(* row keeps its interval and its tenant and gets the new embedding (not     *)
(* modelled: no property depends on it).                                     *)
EXTENDS ScopedReads, FiniteSets

CONSTANTS
  PageSize,   \* rows per INSERT statement of execute_values
  Deferred    \* defer_index: the vector index is left to flush()

ASSUME PgVectorAssumption == PageSize \in Nat \ {0} /\ Deferred \in BOOLEAN

VARIABLES
  rows,      \* the table: by rid, its interval or Absent
  indexes,   \* how many vector indexes the table has
  built,     \* _index_built
  pc,        \* which statement the adapter is at
  todo,      \* the rids write() has still to insert
  fresh      \* history variable: flush() has returned and no call was made since

vars == <<rows, indexes, built, pc, call, todo, fresh, acked>>

Statements == {"close", "insert", "erase", "index", "analyze"}

TypeOK ==
  /\ rows \in [Rid -> Interval \cup {Absent}]
  /\ indexes \in Nat /\ built \in BOOLEAN /\ fresh \in BOOLEAN
  /\ pc \in Statements \cup {"idle", "failed"}
  /\ call.op \in {"none", "write", "supersede", "delete", "flush"}
  /\ IsBatch(call.recs) /\ call.rids \subseteq Rid
  /\ call.op = "supersede" => call.at \in Instant
  /\ todo \subseteq Rid
  /\ acked \in [Rid -> Interval \cup {Absent}]

-----------------------------------------------------------------------------
(* The statements of a call, in the order the adapter issues them.           *)

StartInserts(recs) == pc' = "insert" /\ todo' = DOMAIN recs

FlushOf == [op |-> "flush", recs |-> NoRecs, rids |-> {}, at |-> 0]

\* (mutant) the flag is not consulted
StartFlush_Always ==
  /\ pc' = IF Deferred THEN "index" ELSE "analyze"
  /\ todo' = {}

StartFlush ==
  /\ pc' = IF Deferred /\ ~built THEN "index" ELSE "analyze"
  /\ todo' = {}

Begin(c) ==
  \/ c.op = "write" /\ StartInserts(c.recs)
  \/ c.op = "supersede" /\ pc' = "close" /\ todo' = {}
  \/ c.op = "delete" /\ pc' = "erase" /\ todo' = {}
  \/ c.op = "flush" /\ StartFlush

\* (mutant) the new version is written without closing the old one
CloseStmt_Skipped ==
  /\ pc = "close"
  /\ StartInserts(call.recs)
  /\ UNCHANGED <<rows, indexes, built, call, fresh, acked>>

\* UPDATE rq9_mem SET valid_until = at WHERE rid = rid; then write() of the
\* new version.
CloseStmt ==
  /\ pc = "close"
  /\ rows' = [r \in Rid |-> IF r \in call.rids /\ rows[r] # Absent
                            THEN Closed(rows[r], call.at) ELSE rows[r]]
  /\ StartInserts(call.recs)
  /\ UNCHANGED <<indexes, built, call, fresh, acked>>

\* What the caller may assume once the current call has returned: a rid that
\* was written again still has its interval.
KeptOutcome ==
  [r \in Rid |-> IF r \in DOMAIN call.recs /\ acked[r] # Absent
                 THEN acked[r] ELSE Outcome[r]]

\* (mutant) a row that is written again takes the validity of the new record
Inserted_Overwrites(page) ==
  [r \in Rid |-> IF r \in page THEN call.recs[r] ELSE rows[r]]

\* ON CONFLICT (rid) DO UPDATE SET embedding = EXCLUDED.embedding
Inserted(page) ==
  [r \in Rid |-> IF r \in page /\ rows[r] = Absent THEN call.recs[r] ELSE rows[r]]

\* One page of the INSERT; the call returns after the last.
InsertStmt(page) ==
  /\ pc = "insert" /\ page \subseteq todo
  /\ \/ page = todo /\ Cardinality(page) <= PageSize
     \/ Cardinality(page) = PageSize
  /\ rows' = Inserted(page)
  /\ todo' = todo \ page
  /\ IF page = todo THEN pc' = "idle" /\ call' = NoCall /\ acked' = KeptOutcome
     ELSE UNCHANGED <<pc, call, acked>>
  /\ UNCHANGED <<indexes, built, fresh>>

\* (mutant) the delete passes over closed versions
EraseStmt_OpenOnly ==
  /\ pc = "erase"
  /\ rows' = [r \in Rid |-> IF r \in call.rids /\ rows[r] # Absent /\ IsOpen(rows[r])
                            THEN Absent ELSE rows[r]]
  /\ pc' = "idle" /\ call' = NoCall /\ acked' = KeptOutcome
  /\ UNCHANGED <<indexes, built, todo, fresh>>

\* DELETE FROM rq9_mem WHERE rid = ANY(rids)
EraseStmt ==
  /\ pc = "erase"
  /\ rows' = [r \in Rid |-> IF r \in call.rids THEN Absent ELSE rows[r]]
  /\ pc' = "idle" /\ call' = NoCall /\ acked' = KeptOutcome
  /\ UNCHANGED <<indexes, built, todo, fresh>>

\* The deferred CREATE INDEX, and the flag that keeps flush() from making it again.
IndexStmt ==
  /\ pc = "index"
  /\ indexes' = indexes + 1 /\ built' = TRUE
  /\ pc' = "analyze"
  /\ UNCHANGED <<rows, call, todo, fresh, acked>>

\* ANALYZE rq9_mem, which changes no answer; then flush() returns.
AnalyzeStmt ==
  /\ pc = "analyze"
  /\ pc' = "idle" /\ call' = NoCall /\ fresh' = TRUE
  /\ UNCHANGED <<rows, indexes, built, todo, acked>>

\* A statement raises: it has no effect, and the exception reaches the caller.
Fail ==
  /\ pc \in Statements
  /\ pc' = "failed" /\ todo' = {}
  /\ UNCHANGED <<rows, indexes, built, call, fresh, acked>>

-----------------------------------------------------------------------------
(* The calls of the Backend protocol.                                        *)

Call(c) ==
  /\ pc = "idle"
  /\ call' = c
  /\ Begin(c)
  /\ fresh' = FALSE
  /\ UNCHANGED <<rows, indexes, built, acked>>

Write(recs) == Call(WriteOf(recs))

Supersede(rid, new, at) == Call(SupersedeOf(rid, new, at))

Delete(rids) == Call(DeleteOf(rids))

Flush == Call(FlushOf)

\* The caller makes the call that raised once more.
Retry ==
  /\ pc = "failed"
  /\ Begin(call)
  /\ UNCHANGED <<rows, indexes, built, call, fresh, acked>>

\* _setup: the table is dropped and created, with its vector index unless that
\* is deferred.
Reconstruct ==
  /\ pc \in {"idle", "failed"}
  /\ rows' = NoRows
  /\ indexes' = (IF Deferred THEN 0 ELSE 1) /\ built' = ~Deferred
  /\ pc' = "idle" /\ call' = NoCall /\ todo' = {}
  /\ fresh' = FALSE /\ acked' = NoRows

-----------------------------------------------------------------------------
Init ==
  /\ rows = NoRows
  /\ indexes = (IF Deferred THEN 0 ELSE 1) /\ built = ~Deferred
  /\ pc = "idle" /\ call = NoCall /\ todo = {}
  /\ fresh = FALSE /\ acked = NoRows

\* The records of a batch that are not stored yet have to fit the history; the
\* others are embeddings computed anew.
NewIn(recs) == [r \in {s \in DOMAIN recs : acked[s] = Absent} |-> recs[r]]

Next ==
  \/ \E recs \in Batches : FitsHistory(NewIn(recs)) /\ Write(recs)
  \/ \E rid, new \in Rid, at \in Instant :
       MaySupersede(rid, new, at) /\ Supersede(rid, new, at)
  \/ \E rids \in (SUBSET Rid) \ {{}} : Delete(rids)
  \/ Flush
  \/ CloseStmt
  \/ \E page \in SUBSET todo : InsertStmt(page)
  \/ EraseStmt
  \/ IndexStmt
  \/ AnalyzeStmt
  \/ Fail
  \/ Retry
  \/ Reconstruct

Spec == Init /\ [][Next]_vars

-----------------------------------------------------------------------------
\* A read: the tenant and validity predicates over the table.
Answer(tenant, t) == {r \in Rid : rows[r] # Absent /\ Selects(r, rows[r], tenant, t)}

AuditPresent(r) == rows[r] # Absent

-----------------------------------------------------------------------------
(* Properties.                                                               *)

\* Between calls every read is exact, scoped or not, at an instant or over the
\* whole history, whatever raised and was retried and however often a rid was
\* written again; and audit agrees with it.
ReadsExact ==
  pc = "idle" =>
    /\ Deployed => \A tenant \in Tenants, t \in Instants : Answer(tenant, t) = Truth(tenant, t)
    /\ \A r \in Rid : AuditPresent(r) <=> acked[r] # Absent

\* No as_of read returns two versions of one memory, in any state: not between
\* the two statements of a supersede, and not after one of them raised.
AtMostOneVersion ==
  \A r, s \in Rid, t \in Instant : SameChain(r, s) => ~({r, s} \subseteq Answer(AnyTenant, t))

\* A row measured after flush() is measured with exactly one vector index,
\* however often flush() was called or raised before: none would make it a
\* sequential scan, two would double what the ledger calls the build.
FlushedReady ==
  fresh => indexes = 1 /\ built

\* The statements implement the version store: a version that was closed is
\* not changed or opened by being written again, or by a call repeated.
Store == INSTANCE VersionStore WITH hist <- rows

StoreSpec == Store!Spec

-----------------------------------------------------------------------------
(* The inductive invariant: where each row is between its old and new state. *)

RowOK(r) ==
  IF pc = "idle" THEN rows[r] = acked[r]
  ELSE IF call.op = "write" /\ r \in DOMAIN call.recs /\ acked[r] = Absent
    THEN /\ rows[r] \in {Absent, call.recs[r]}
         /\ pc = "insert" /\ r \notin todo => rows[r] = call.recs[r]
  ELSE IF call.op = "supersede" /\ r \in call.rids
    THEN /\ rows[r] \in {acked[r], Closed(acked[r], call.at)}
         /\ pc = "insert" => rows[r] = Closed(acked[r], call.at)
         /\ (\E s \in DOMAIN call.recs : rows[s] # Absent) => rows[r] = Closed(acked[r], call.at)
  ELSE IF call.op = "supersede" /\ r \in DOMAIN call.recs
    THEN /\ rows[r] \in {Absent, call.recs[r]}
         /\ pc = "insert" /\ r \notin todo => rows[r] = call.recs[r]
  ELSE rows[r] = acked[r]

HistoryOK ==
  \A r, s \in Rid : SameChain(r, s) /\ acked[r] # Absent /\ acked[s] # Absent
    => Apart(acked[r], acked[s])

CallOK ==
  \/ /\ call.op = "write" /\ pc \in {"insert", "failed"}
     /\ call.rids = {} /\ FitsHistory(NewIn(call.recs))
     /\ pc = "insert" => todo \subseteq DOMAIN call.recs
  \/ /\ call.op = "supersede" /\ pc \in {"close", "insert", "failed"}
     /\ \E rid, new \in Rid :
          /\ MaySupersede(rid, new, call.at) /\ call.rids = {rid}
          /\ call.recs = [r \in {new} |-> [from |-> call.at, until |-> TOpen]]
     /\ pc = "insert" => todo \subseteq DOMAIN call.recs
  \/ /\ call.op = "delete" /\ pc \in {"erase", "failed"} /\ call.recs = NoRecs
  \/ /\ call.op = "flush" /\ pc \in {"index", "analyze", "failed"}
     /\ call.recs = NoRecs /\ call.rids = {}

IndexOK ==
  /\ indexes = IF built THEN 1 ELSE 0
  /\ ~built => Deferred
  /\ pc = "index" => ~built
  /\ pc = "analyze" => built
  /\ fresh => pc = "idle" /\ built

\* The inductive strengthening of the properties above: it adds the progress
\* of the running call to what holds between calls.
IInv ==
  /\ TypeOK
  /\ HistoryOK
  /\ pc # "idle" => CallOK
  /\ \A r \in Rid : RowOK(r)
  /\ IndexOK
=============================================================================
