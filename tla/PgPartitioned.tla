--------------------------- MODULE PgPartitioned ----------------------------
(* The epoch-partitioned Postgres adapter, statement by statement.           *)
(*                                                                           *)
(* The connection is in autocommit mode, so a write, supersede or delete is  *)
(* a loop of statements that each commit alone: any of them may raise and    *)
(* leave the rest of its call undone.  The caller is single-threaded; one    *)
(* that has seen a call raise either makes the same call again or constructs *)
(* a new backend, which drops every table.                                   *)
(*                                                                           *)
(* A table maps each rid, its primary key, to the row's validity interval or *)
(* to Absent.  The columns no statement updates (tenant, embedding) are left *)
(* out: they are the same in every copy of a row.                            *)
EXTENDS EpochPlacement, CallerHistory, FiniteSets

CONSTANTS
  PageSize,   \* rows per INSERT statement of execute_values
  MaxIndexes  \* bound: vector indexes a table may be given by repeated flushes

ASSUME PageAssumption == PageSize \in Nat \ {0} /\ MaxIndexes \in Nat

VARIABLES
  tables,     \* what each table holds, by rid
  pc,         \* which loop of statements the adapter is in
  todo,       \* for each table, the rids its statements have still to handle
  indexes,    \* how many vector indexes each table has
  built,      \* _index_built
  unindexed   \* the tables flush() has still to make an index for

index == <<indexes, built, unindexed>>

vars == <<tables, pc, call, todo, acked, index>>

NothingToDo == [t \in Table |-> {}]

InStatements == {"close", "uncur", "insert", "erase", "index", "analyze"}

IndexTypeOK ==
  indexes \in [Table -> Nat] /\ built \in BOOLEAN /\ unindexed \subseteq Table

TypeOK ==
  /\ tables \in [Table -> [Rid -> Interval \cup {Absent}]]
  /\ pc \in InStatements \cup {"idle", "failed"}
  /\ call.op \in {"none", "write", "supersede", "delete", "flush"}
  /\ IsBatch(call.recs) /\ call.rids \subseteq Rid
  /\ call.op = "supersede" => call.at \in Instant
  /\ todo \in [Table -> SUBSET Rid]
  /\ acked \in [Rid -> Interval \cup {Absent}]
  /\ IndexTypeOK

Present(t, r) == tables[t][r] # Absent

\* (mutant) open rows are not added to cur
PlacedIn_EpochsOnly(t, recs) == {r \in DOMAIN recs : t \in EpochsFor(recs[r])}

PlacedIn(t, recs) == {r \in DOMAIN recs : t \in TablesOf(recs[r])}

-----------------------------------------------------------------------------
(* The statements of a call, in the order the adapter issues them.           *)

StartInserts(recs) ==
  /\ pc' = "insert"
  /\ todo' = [t \in Table |-> PlacedIn(t, recs)]

StartLoop(first, rids) ==
  /\ pc' = first
  /\ todo' = [t \in Table |-> rids]

FlushOf == [op |-> "flush", recs |-> NoRecs, rids |-> {}, at |-> 0]

\* Until a flush() has got through, every table is given an index once more.
StartFlush ==
  /\ IF built THEN pc' = "analyze" /\ unindexed' = {}
     ELSE pc' = "index" /\ unindexed' = Table
  /\ todo' = NothingToDo

\* (mutant) supersede takes the old version out of cur, but closes it nowhere
Begin_NoClose(c) ==
  \/ c.op = "write" /\ StartInserts(c.recs) /\ UNCHANGED unindexed
  \/ c.op = "supersede" /\ StartLoop("uncur", c.rids) /\ UNCHANGED unindexed
  \/ c.op = "delete" /\ StartLoop("erase", c.rids) /\ UNCHANGED unindexed
  \/ c.op = "flush" /\ StartFlush

Begin(c) ==
  \/ c.op = "write" /\ StartInserts(c.recs) /\ UNCHANGED unindexed
  \/ c.op = "supersede" /\ StartLoop("close", c.rids) /\ UNCHANGED unindexed
  \/ c.op = "delete" /\ StartLoop("erase", c.rids) /\ UNCHANGED unindexed
  \/ c.op = "flush" /\ StartFlush

\* "for t in self._tables": cur first, then the epochs in ascending order.
IsNext(t) == /\ todo[t] # {}
             /\ \A u \in Table : u < t => todo[u] = {}

Others(t) == {u \in Table : u # t /\ todo[u] # {}}

\* (mutant) the loop of UPDATEs ends at the first table, cur
CloseStmt_FirstOnly(t) ==
  /\ pc = "close" /\ IsNext(t)
  /\ tables' = [tables EXCEPT ![t] =
                  [r \in Rid |-> IF r \in call.rids /\ Present(t, r)
                                 THEN Closed(tables[t][r], call.at)
                                 ELSE tables[t][r]]]
  /\ todo' = NothingToDo /\ pc' = "uncur"
  /\ UNCHANGED <<call, acked, index>>

\* UPDATE t SET valid_until = at WHERE rid = rid
CloseStmt(t) ==
  /\ pc = "close" /\ IsNext(t)
  /\ tables' = [tables EXCEPT ![t] =
                  [r \in Rid |-> IF r \in call.rids /\ Present(t, r)
                                 THEN Closed(tables[t][r], call.at)
                                 ELSE tables[t][r]]]
  /\ todo' = [todo EXCEPT ![t] = {}]
  /\ pc' = IF Others(t) = {} THEN "uncur" ELSE "close"
  /\ UNCHANGED <<call, acked, index>>

Without(rows, rids) == [r \in Rid |-> IF r \in rids THEN Absent ELSE rows[r]]

\* (mutant) the closed version stays in cur
UncurStmt_Kept ==
  /\ pc = "uncur"
  /\ StartInserts(call.recs)
  /\ UNCHANGED <<tables, call, acked, index>>

\* DELETE FROM rq9p_cur WHERE rid = rid; then write() of the new version.
UncurStmt ==
  /\ pc = "uncur"
  /\ tables' = [tables EXCEPT ![Cur] = Without(@, call.rids)]
  /\ StartInserts(call.recs)
  /\ UNCHANGED <<call, acked, index>>

\* per_table is a dict filled record by record, so a table comes up after the
\* tables that the first record placed in it names before it.
InDictOrder(t) ==
  /\ \A u \in Others(t) : todo[u] = PlacedIn(u, call.recs)
  /\ \E r \in PlacedIn(t, call.recs) :
       \A u \in TablesOf(call.recs[r]) \ {Cur} : (t = Cur \/ u < t) => todo[u] = {}

\* One page of "INSERT INTO t VALUES ... ON CONFLICT (rid) DO NOTHING".
InsertStmt(t, page) ==
  /\ pc = "insert" /\ todo[t] # {} /\ InDictOrder(t)
  /\ page \subseteq todo[t]
  /\ \/ page = todo[t] /\ Cardinality(page) <= PageSize
     \/ Cardinality(page) = PageSize
  /\ tables' = [tables EXCEPT ![t] =
                  [r \in Rid |-> IF r \in page /\ ~Present(t, r)
                                 THEN call.recs[r] ELSE tables[t][r]]]
  /\ todo' = [todo EXCEPT ![t] = @ \ page]
  /\ IF Others(t) = {} /\ page = todo[t]
     THEN pc' = "idle" /\ call' = NoCall /\ acked' = Outcome
     ELSE UNCHANGED <<pc, call, acked>>
  /\ UNCHANGED index

\* (mutant) delete goes through the epoch tables and leaves cur alone
EraseStmt_EpochsOnly(t) ==
  /\ pc = "erase" /\ IsNext(t)
  /\ tables' = IF t = Cur THEN tables
               ELSE [tables EXCEPT ![t] = Without(@, call.rids)]
  /\ todo' = [todo EXCEPT ![t] = {}]
  /\ IF Others(t) = {}
     THEN pc' = "idle" /\ call' = NoCall /\ acked' = Outcome
     ELSE UNCHANGED <<pc, call, acked>>
  /\ UNCHANGED index

\* DELETE FROM t WHERE rid = ANY(rids)
EraseStmt(t) ==
  /\ pc = "erase" /\ IsNext(t)
  /\ tables' = [tables EXCEPT ![t] = Without(@, call.rids)]
  /\ todo' = [todo EXCEPT ![t] = {}]
  /\ IF Others(t) = {}
     THEN pc' = "idle" /\ call' = NoCall /\ acked' = Outcome
     ELSE UNCHANGED <<pc, call, acked>>
  /\ UNCHANGED index

\* (mutant) the flag is set when the first index has been made
IndexStmt_FlagEarly(t) ==
  /\ pc = "index" /\ t \in unindexed /\ \A u \in unindexed : t <= u
  /\ indexes[t] < MaxIndexes
  /\ indexes' = [indexes EXCEPT ![t] = @ + 1]
  /\ unindexed' = unindexed \ {t}
  /\ built' = TRUE
  /\ pc' = IF unindexed = {t} THEN "analyze" ELSE "index"
  /\ UNCHANGED <<tables, call, todo, acked>>

\* CREATE INDEX ON t; the flag is set when the loop has made the last one.
IndexStmt(t) ==
  /\ pc = "index" /\ t \in unindexed /\ \A u \in unindexed : t <= u
  /\ indexes[t] < MaxIndexes
  /\ indexes' = [indexes EXCEPT ![t] = @ + 1]
  /\ unindexed' = unindexed \ {t}
  /\ IF unindexed = {t} THEN built' = TRUE /\ pc' = "analyze"
     ELSE UNCHANGED <<built, pc>>
  /\ UNCHANGED <<tables, call, todo, acked>>

\* The loop of ANALYZE, which changes no answer; then flush() returns.
AnalyzeStmts ==
  /\ pc = "analyze"
  /\ pc' = "idle" /\ call' = NoCall
  /\ UNCHANGED <<tables, todo, acked, index>>

\* A statement raises (timeout, deadlock victim, disk full): the exception
\* leaves the loop and reaches the caller; what has committed stays.
Fail ==
  /\ pc \in InStatements
  /\ pc' = "failed" /\ todo' = NothingToDo /\ unindexed' = {}
  /\ UNCHANGED <<tables, call, acked, indexes, built>>

-----------------------------------------------------------------------------
(* The calls of the Backend protocol that change the store.                  *)

Call(c) ==
  /\ pc = "idle"
  /\ call' = c
  /\ Begin(c)
  /\ UNCHANGED <<tables, acked, indexes, built>>

Write(recs) == Call(WriteOf(recs))

Supersede(rid, new, at) == Call(SupersedeOf(rid, new, at))

Delete(rids) == Call(DeleteOf(rids))

Flush == Call(FlushOf)

\* The caller makes the call that raised once more.
Retry ==
  /\ pc = "failed"
  /\ Begin(call)
  /\ UNCHANGED <<tables, call, acked, indexes, built>>

\* __init__: DROP and CREATE every table; the caller starts from nothing.
Reconstruct ==
  /\ pc \in {"idle", "failed"}
  /\ tables' = [t \in Table |-> NoRows]
  /\ pc' = "idle" /\ call' = NoCall /\ todo' = NothingToDo
  /\ acked' = NoRows
  /\ indexes' = [t \in Table |-> 0] /\ built' = FALSE /\ unindexed' = {}

-----------------------------------------------------------------------------
Init ==
  /\ tables = [t \in Table |-> NoRows]
  /\ pc = "idle" /\ call = NoCall /\ todo = NothingToDo
  /\ acked = NoRows
  /\ indexes = [t \in Table |-> 0] /\ built = FALSE /\ unindexed = {}

Next ==
  \/ \E recs \in Batches : FitsHistory(recs) /\ Write(recs)
  \/ \E rid, new \in Rid, at \in Instant :
       MaySupersede(rid, new, at) /\ Supersede(rid, new, at)
  \/ \E rids \in (SUBSET Rid) \ {{}} : Delete(rids)
  \/ Flush
  \/ \E t \in Table : CloseStmt(t)
  \/ UncurStmt
  \/ \E t \in Table : \E page \in SUBSET todo[t] : InsertStmt(t, page)
  \/ \E t \in Table : EraseStmt(t)
  \/ \E t \in Table : IndexStmt(t)
  \/ AnalyzeStmts
  \/ Fail
  \/ Retry
  \/ Reconstruct

Spec == Init /\ [][Next]_vars

-----------------------------------------------------------------------------
(* What a read sees: retrieve(as_of=t) and retrieve(as_of=None) apply their  *)
(* validity predicate to the one table they are routed to.                   *)

AnswerAt(t) ==
  {r \in Rid : Present(Route(t), r) /\ ValidAt(tables[Route(t)][r], t)}

AnswerNow ==
  {r \in Rid : Present(Cur, r) /\ tables[Cur][r].until = TOpen}
=============================================================================
