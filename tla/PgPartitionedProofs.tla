------------------------- MODULE PgPartitionedProofs ------------------------
(* Proofs about the partitioned Postgres adapter, for every set of rids,     *)
(* batches and instants, every epoch length and number of epoch tables.      *)
EXTENDS PgPartitionedInv, ValidTimeProofs, TLAPS

-----------------------------------------------------------------------------
(* Placement and routing.                                                    *)

\* Floor division by the epoch length is monotonic and maps naturals to
\* naturals; below the horizon it names an epoch that has a table.
LEMMA EpochNumber ==
  ASSUME NEW a \in Int, NEW b \in Int, a <= b
  PROVE  /\ a \div Epoch \in Int
         /\ a \div Epoch <= b \div Epoch
         /\ a \in Nat => a \div Epoch \in Nat
         /\ a < Horizon => a \div Epoch <= MaxEpoch
  BY EpochAssumption DEF Horizon

\* The epoch table an instant inside the horizon is routed to is one of those
\* that epochs_for names for every interval valid at that instant.
LEMMA RoutedTableHoldsValid ==
  ASSUME NEW iv \in Interval, NEW t \in Instant, t < Horizon, ValidAt(iv, t)
  PROVE  Route(t) \in EpochsFor(iv)
<1>1. /\ iv.from \in Nat /\ t \in Nat /\ iv.from <= t
      /\ iv.until \in Nat /\ t < iv.until
  BY InstantAssumption DEF Interval, ValidAt
<1>2. /\ t \div Epoch \in Nat /\ t \div Epoch <= MaxEpoch
      /\ iv.from \div Epoch \in Nat
      /\ iv.from \div Epoch <= t \div Epoch
  BY <1>1, EpochNumber
<1>3. /\ (iv.until - 1) \div Epoch \in Int
      /\ t \div Epoch <= (iv.until - 1) \div Epoch
  <2>1. iv.until - 1 \in Int /\ t <= iv.until - 1
    BY <1>1
  <2>2. QED BY <1>1, <2>1, EpochNumber
<1>4. QED
  BY <1>1, <1>2, <1>3, EpochAssumption DEF Route, EpochsFor, FirstEpoch, Epochs

\* A non-empty interval, an open one included, has at least one epoch table:
\* the clamp keeps rows that start beyond the horizon.
LEMMA PlacedSomewhere ==
  ASSUME NEW iv \in Interval, iv.from < iv.until
  PROVE  \E e \in Epochs : e \in EpochsFor(iv)
<1>1. iv.from \in Nat /\ iv.until \in Nat
  BY InstantAssumption DEF Interval
<1>2. /\ iv.from \div Epoch \in Nat
      /\ (iv.until - 1) \div Epoch \in Int
      /\ iv.from \div Epoch <= (iv.until - 1) \div Epoch
  <2>1. iv.until - 1 \in Int /\ iv.from <= iv.until - 1
    BY <1>1
  <2>2. QED BY <1>1, <2>1, EpochNumber
<1>3. /\ FirstEpoch(iv.from) \in Epochs
      /\ FirstEpoch(iv.from) <= (iv.until - 1) \div Epoch
  BY <1>2, EpochAssumption DEF FirstEpoch, Epochs
<1>4. QED BY <1>3 DEF EpochsFor, Epochs

\* Every epoch that has a table and shares an instant with an interval is one
\* that epochs_for names.
LEMMA OverlappedIsPlaced ==
  ASSUME NEW iv \in Interval, NEW e \in Epochs, Overlaps(iv, e)
  PROVE  e \in EpochsFor(iv)
<1>1. /\ iv.from \in Nat /\ iv.until \in Nat /\ e \in Nat
      /\ Epoch \in Nat /\ Epoch > 0 /\ MaxEpoch \in Nat /\ e <= MaxEpoch
  <2>1. iv.from \in Nat /\ iv.until \in Nat
    BY InstantAssumption DEF Interval
  <2>2. QED BY <2>1, EpochAssumption DEF Epochs
<1>2. iv.from \div Epoch <= e
  <2>1. iv.from < (e + 1) * Epoch
    BY DEF Overlaps
  <2>2. QED BY <1>1, <2>1
<1>3. e <= (iv.until - 1) \div Epoch
  <2>1. e * Epoch <= iv.until - 1
    BY <1>1 DEF Overlaps
  <2>2. QED BY <1>1, <2>1
<1>4. FirstEpoch(iv.from) <= e
  BY <1>1, <1>2, EpochNumber DEF FirstEpoch
<1>5. QED BY <1>3, <1>4 DEF EpochsFor

\* Closing an open interval yields an interval whose tables, all of them epoch
\* tables, are among those the open one is in.
LEMMA ClosedStaysPlaced ==
  ASSUME NEW iv \in Interval, IsOpen(iv), NEW at \in Instant
  PROVE  /\ Closed(iv, at) \in Interval
         /\ Closed(iv, at).from = iv.from /\ Closed(iv, at).until = at
         /\ ~IsOpen(Closed(iv, at))
         /\ Closed(iv, at) # iv
         /\ TablesOf(Closed(iv, at)) \subseteq EpochsFor(iv)
<1>1. /\ Closed(iv, at) \in Interval
      /\ Closed(iv, at).from = iv.from /\ Closed(iv, at).until = at
  BY DEF Closed, Interval
<1>2. ~IsOpen(Closed(iv, at)) /\ Closed(iv, at) # iv
  BY <1>1, InstantAssumption DEF IsOpen
<1>3. QED
  BY <1>1, <1>2 DEF TablesOf, EpochsFor

\* cur is no epoch table.
LEMMA CurIsNoEpoch == Cur \in Table /\ Cur \notin Epochs /\ Epochs \subseteq Table
  BY EpochAssumption DEF Cur, Epochs, Table

\* The tables of an interval are tables; cur is one of them iff it is open.
LEMMA TablesOfInterval ==
  ASSUME NEW iv
  PROVE  /\ TablesOf(iv) \subseteq Table
         /\ EpochsFor(iv) \subseteq TablesOf(iv)
         /\ Cur \in TablesOf(iv) <=> IsOpen(iv)
  BY CurIsNoEpoch DEF TablesOf, EpochsFor

-----------------------------------------------------------------------------
(* Types.                                                                    *)

\* The rows a call puts in, takes out and leaves behind are well typed.
LEMMA OutcomeType ==
  ASSUME TypeOK, call.op = "supersede" => \A r \in call.rids : acked[r] # Absent
  PROVE  Outcome \in [Rid -> Interval \cup {Absent}]
<1> SUFFICES ASSUME NEW r \in Rid
             PROVE  Outcome[r] \in Interval \cup {Absent}
  BY DEF Outcome
<1>1. CASE r \in DOMAIN call.recs
  BY <1>1 DEF Outcome, TypeOK, IsBatch
<1>2. CASE r \notin DOMAIN call.recs /\ r \in call.rids /\ call.op = "supersede"
  <2>1. acked[r] \in Interval /\ call.at \in Instant
    BY <1>2 DEF TypeOK
  <2>2. Closed(acked[r], call.at) \in Interval
    BY <2>1 DEF Closed, Interval
  <2>3. QED BY <1>2, <2>2 DEF Outcome
<1>3. CASE r \notin DOMAIN call.recs /\ ~(r \in call.rids /\ call.op = "supersede")
  BY <1>3 DEF Outcome, TypeOK
<1>4. QED BY <1>1, <1>2, <1>3

\* Only a row the caller was told of is ever superseded.
LEMMA SupersededIsStored ==
  ASSUME IInv, pc # "idle", call.op = "supersede", NEW r \in call.rids
  PROVE  acked[r] # Absent
  BY DEF IInv, CallOK, CallShape, MaySupersede

\* Starting a call, or starting it again, keeps its loop well typed.
LEMMA BeginType ==
  ASSUME NEW c, IsBatch(c.recs), c.rids \subseteq Rid, Begin(c)
  PROVE  /\ pc' \in InStatements
         /\ todo' \in [Table -> SUBSET Rid]
         /\ unindexed \subseteq Table => unindexed' \subseteq Table
  BY DEF Begin, StartInserts, StartLoop, StartFlush, NothingToDo, PlacedIn, InStatements,
     IsBatch

\* A batch is a batch: what supersede and delete build around their arguments.
LEMMA BatchTypes ==
  /\ IsBatch(NoRecs)
  /\ \A new \in Rid, at \in Instant :
       IsBatch([r \in {new} |-> [from |-> at, until |-> TOpen]])
  BY DEF IsBatch, NoRecs, Interval

\* The state of flush() stays well typed.
LEMMA IndexTypeStep ==
  ASSUME IInv, [Next]_vars
  PROVE  IndexTypeOK'
<1>1. IndexTypeOK
  BY DEF IInv, TypeOK
<1>2. ASSUME NEW c, Begin(c), UNCHANGED <<indexes, built>>
      PROVE  IndexTypeOK'
  BY <1>1, <1>2 DEF IndexTypeOK, Begin, StartInserts, StartLoop, StartFlush
<1>3. ASSUME NEW t \in Table, IndexStmt(t)
      PROVE  IndexTypeOK'
  <2>1. indexes' \in [Table -> Nat] /\ unindexed' \subseteq Table
    BY <1>1, <1>3 DEF IndexTypeOK, IndexStmt
  <2>2. built' = TRUE \/ built' = built
    BY <1>3, Zenon DEF IndexStmt
  <2>3. built' \in BOOLEAN
    BY <1>1, <2>2, Zenon DEF IndexTypeOK
  <2>4. QED BY <2>1, <2>3 DEF IndexTypeOK
<1>4. CASE UNCHANGED index
  BY <1>1, <1>4 DEF IndexTypeOK, index
<1>5. CASE Fail \/ Reconstruct
  <2>1. CASE Fail
    BY <1>1, <2>1 DEF IndexTypeOK, Fail
  <2>2. CASE Reconstruct
    <3>1. indexes' \in [Table -> Nat] /\ unindexed' \subseteq Table
      BY <2>2 DEF Reconstruct
    <3>2. built' \in BOOLEAN
      BY <2>2, Zenon DEF Reconstruct
    <3>3. QED BY <3>1, <3>2 DEF IndexTypeOK
  <2>3. QED BY <1>5, <2>1, <2>2
<1>6. ASSUME NEW c, Call(c)
      PROVE  IndexTypeOK'
  BY <1>2, <1>6 DEF Call
<1>7. CASE Retry
  BY <1>2, <1>7 DEF Retry
<1>8. CASE UNCHANGED vars \/ UncurStmt \/ AnalyzeStmts
  BY <1>4, <1>8 DEF vars, UncurStmt, AnalyzeStmts
<1>9. ASSUME NEW t \in Table, CloseStmt(t) \/ EraseStmt(t)
             \/ \E page \in SUBSET todo[t] : InsertStmt(t, page)
      PROVE  IndexTypeOK'
  BY <1>4, <1>9 DEF CloseStmt, EraseStmt, InsertStmt
<1>10. QED
  BY <1>3, <1>5, <1>6, <1>7, <1>8, <1>9 DEF Next, Write, Supersede, Delete, Flush

\* Every step of the adapter and of its caller keeps the state well typed.
LEMMA TypeStep ==
  ASSUME IInv, [Next]_vars
  PROVE  TypeOK'
<1> USE DEF InStatements
<1>0. TypeOK /\ IndexTypeOK'
  BY IndexTypeStep DEF IInv
<1>a. IsBatch(NoCall.recs) /\ NoCall.rids = {} /\ NoCall.op = "none"
  BY BatchTypes DEF NoCall
<1>1. ASSUME NEW recs \in Batches, FitsHistory(recs), Write(recs)
      PROVE  TypeOK'
  BY <1>0, <1>1, BeginType, BatchAssumption DEF TypeOK, Write, WriteOf, Call
<1>2. ASSUME NEW rid \in Rid, NEW new \in Rid, NEW at \in Instant, Supersede(rid, new, at)
      PROVE  TypeOK'
  BY <1>0, <1>2, BeginType, BatchTypes DEF TypeOK, Supersede, SupersedeOf, Call
<1>3. ASSUME NEW rids \in (SUBSET Rid) \ {{}}, Delete(rids)
      PROVE  TypeOK'
  BY <1>0, <1>3, BeginType, BatchTypes DEF TypeOK, Delete, DeleteOf, Call
<1>4. ASSUME NEW t \in Table, CloseStmt(t)
      PROVE  TypeOK'
  <2>1. call.op = "supersede"
    BY <1>4 DEF IInv, CallOK, CallShape, CloseStmt
  <2>2. \A r \in Rid : Present(t, r) => Closed(tables[t][r], call.at) \in Interval
    BY <1>0, <2>1 DEF TypeOK, Closed, Interval, Present
  <2>3. tables' \in [Table -> [Rid -> Interval \cup {Absent}]]
    BY <1>0, <1>4, <2>2 DEF TypeOK, CloseStmt
  <2>4. QED BY <1>0, <1>4, <2>3 DEF TypeOK, CloseStmt
<1>5. ASSUME UncurStmt
      PROVE  TypeOK'
  BY <1>0, <1>5 DEF TypeOK, UncurStmt, StartInserts, PlacedIn, IsBatch, Without
<1>6. ASSUME NEW t \in Table, NEW page \in SUBSET todo[t], InsertStmt(t, page)
      PROVE  TypeOK'
  <2>1. acked' \in [Rid -> Interval \cup {Absent}]
    BY <1>0, <1>6, OutcomeType, SupersededIsStored DEF InsertStmt, TypeOK
  <2>2. tables' \in [Table -> [Rid -> Interval \cup {Absent}]]
    <3>1. \A r \in page : r \in DOMAIN call.recs
      BY <1>6 DEF IInv, CallOK, InsertStmt, PlacedIn
    <3>2. QED BY <1>0, <1>6, <3>1 DEF TypeOK, InsertStmt, IsBatch
  <2>3. QED BY <1>0, <1>a, <1>6, <2>1, <2>2 DEF TypeOK, InsertStmt
<1>7. ASSUME NEW t \in Table, EraseStmt(t)
      PROVE  TypeOK'
  <2>1. acked' \in [Rid -> Interval \cup {Absent}]
    BY <1>0, <1>7, OutcomeType, SupersededIsStored DEF EraseStmt, TypeOK
  <2>2. QED BY <1>0, <1>a, <1>7, <2>1 DEF TypeOK, EraseStmt, Without
<1>8. CASE Fail
  BY <1>0, <1>8 DEF TypeOK, Fail, NothingToDo
<1>9. CASE Retry
  BY <1>0, <1>9, BeginType DEF TypeOK, Retry
<1>10. CASE Reconstruct
  BY <1>0, <1>10, BatchTypes DEF TypeOK, Reconstruct, NothingToDo, NoRows, NoCall
<1>11. CASE UNCHANGED vars
  BY <1>0, <1>11 DEF TypeOK, vars
<1>12. CASE Flush
  BY <1>0, <1>12, BeginType, BatchTypes DEF TypeOK, Flush, FlushOf, Call
<1>13. ASSUME NEW t \in Table, IndexStmt(t)
       PROVE  TypeOK'
  BY <1>0, <1>13 DEF TypeOK, IndexStmt
<1>14. CASE AnalyzeStmts
  BY <1>0, <1>a, <1>14 DEF TypeOK, AnalyzeStmts
<1>15. QED
  BY <1>1, <1>2, <1>3, <1>4, <1>5, <1>6, <1>7, <1>8, <1>9, <1>10, <1>11, <1>12, <1>13, <1>14
  DEF Next

-----------------------------------------------------------------------------
(* Every step keeps the rest of the invariant: one lemma per action.         *)

InFlightOK ==
  /\ HistoryOK
  /\ pc # "idle" => CallOK
  /\ \A r \in Rid : RowOK(r)

\* Between calls every row is settled.
LEMMA IdleSettled ==
  ASSUME IInv, pc = "idle", NEW r \in Rid
  PROVE  Settled(r)
  BY DEF IInv, RowOK

\* A write() that starts finds its rids unused: no row of it is anywhere yet.
LEMMA WriteStep ==
  ASSUME IInv, NEW recs \in Batches, FitsHistory(recs), Write(recs)
  PROVE  InFlightOK'
<1>1. /\ pc = "idle" /\ pc' = "insert" /\ tables' = tables /\ acked' = acked
      /\ call' = [op |-> "write", recs |-> recs, rids |-> {}, at |-> 0]
      /\ todo' = [t \in Table |-> PlacedIn(t, recs)]
  BY DEF Write, WriteOf, Call, Begin, StartInserts, StartLoop
<1>2. HistoryOK'
  BY <1>1 DEF IInv, HistoryOK
<1>3. CallOK'
  BY <1>1, BatchAssumption DEF CallOK, CallShape, FitsHistory, PlacedIn
<1>4. ASSUME NEW r \in Rid
      PROVE  RowOK(r)'
  <2>1. Settled(r)
    BY <1>1, IdleSettled
  <2>2. CASE r \notin DOMAIN recs
    BY <1>1, <2>1, <2>2 DEF RowOK, Settled, Present
  <2>3. CASE r \in DOMAIN recs
    <3>1. acked[r] = Absent
      BY <2>3 DEF FitsHistory
    <3>2. \A t \in Table : tables[t][r] = Absent
      BY <2>1, <3>1 DEF Settled
    <3>3. \A t \in TablesOf(recs[r]) : r \in todo'[t]
      BY <1>1, <2>3, TablesOfInterval DEF PlacedIn
    <3>4. Inserting(r)'
      BY <1>1, <3>1, <3>2, <3>3 DEF Inserting, Present
    <3>5. QED BY <1>1, <2>3, <3>4 DEF RowOK
  <2>4. QED BY <2>2, <2>3
<1>5. QED BY <1>2, <1>3, <1>4 DEF InFlightOK

\* A supersede() that starts finds the old version open in all of its tables,
\* and its successor in none.
LEMMA SupersedeStep ==
  ASSUME IInv, NEW rid \in Rid, NEW new \in Rid, NEW at \in Instant,
         MaySupersede(rid, new, at), Supersede(rid, new, at)
  PROVE  InFlightOK'
<1> DEFINE recs == [r \in {new} |-> [from |-> at, until |-> TOpen]]
<1>1. /\ pc = "idle" /\ pc' = "close" /\ tables' = tables /\ acked' = acked
      /\ call' = [op |-> "supersede", rids |-> {rid}, at |-> at, recs |-> recs]
      /\ todo' = [t \in Table |-> {rid}]
  BY DEF Supersede, SupersedeOf, Call, Begin, StartInserts, StartLoop
<1>2. HistoryOK'
  BY <1>1 DEF IInv, HistoryOK
<1>3. CallOK'
  <2>1. MaySupersede(rid, new, at)'
    BY <1>1 DEF MaySupersede
  <2>2. QED BY <1>1, <2>1 DEF CallOK, CallShape
<1>4. /\ acked[rid] # Absent /\ acked[new] = Absent /\ rid # new
      /\ IsOpen(acked[rid])
  BY DEF MaySupersede, SameChain
<1>5. ASSUME NEW r \in Rid
      PROVE  RowOK(r)'
  <2>1. Settled(r)
    BY <1>1, IdleSettled
  <2>2. CASE r \notin {rid, new}
    BY <1>1, <2>1, <2>2 DEF RowOK, Settled, Present
  <2>3. CASE r = new
    <3>1. \A t \in Table : tables[t][r] = Absent
      BY <1>4, <2>1, <2>3 DEF Settled
    <3>2. Inserting(r)'
      BY <1>1, <1>4, <2>3, <3>1 DEF Inserting, Present
    <3>3. QED BY <1>1, <2>3, <3>2 DEF RowOK
  <2>4. CASE r = rid
    <3>1. \A e \in EpochsFor(acked[r]) : Present(e, r)
      BY <1>4, <2>1, <2>4, TablesOfInterval DEF Settled, Present
    <3>2. \A t \in Table : ~Present(t, new)
      BY <1>1, <1>4, IdleSettled DEF Settled, Present
    <3>3. Closing(r)'
      BY <1>1, <2>1, <3>1, <3>2 DEF Closing, Settled, Present
    <3>4. QED BY <1>1, <1>4, <2>4, <3>3 DEF RowOK
  <2>5. QED BY <2>2, <2>3, <2>4
<1>6. QED BY <1>2, <1>3, <1>5 DEF InFlightOK

\* A delete() that starts leaves every other row as settled as it was.
LEMMA DeleteStep ==
  ASSUME IInv, NEW rids \in (SUBSET Rid) \ {{}}, Delete(rids)
  PROVE  InFlightOK'
<1>1. /\ pc = "idle" /\ pc' = "erase" /\ tables' = tables /\ acked' = acked
      /\ call' = [op |-> "delete", recs |-> NoRecs, rids |-> rids, at |-> 0]
      /\ todo' = [t \in Table |-> rids]
  BY DEF Delete, DeleteOf, Call, Begin, StartInserts, StartLoop
<1>2. HistoryOK'
  BY <1>1 DEF IInv, HistoryOK
<1>3. CallOK'
  BY <1>1 DEF CallOK, CallShape
<1>4. ASSUME NEW r \in Rid
      PROVE  RowOK(r)'
  <2>1. Settled(r)
    BY <1>1, IdleSettled
  <2>2. CASE r \notin rids
    BY <1>1, <2>1, <2>2 DEF RowOK, Settled, Present, NoRecs
  <2>3. CASE r \in rids
    <3>1. Erasing(r)'
      BY <1>1, <2>1, <2>3 DEF Erasing, Settled
    <3>2. QED BY <1>1, <2>3, <3>1 DEF RowOK, NoRecs
  <2>4. QED BY <2>2, <2>3
<1>5. QED BY <1>2, <1>3, <1>4 DEF InFlightOK

\* One UPDATE of supersede's loop closes the old version in one more table.
LEMMA CloseStep ==
  ASSUME IInv, NEW t \in Table, CloseStmt(t)
  PROVE  InFlightOK'
<1>1. call.op = "supersede" /\ pc = "close" /\ pc' \in {"close", "uncur"}
  BY DEF IInv, CallOK, CallShape, CloseStmt
<1>2. PICK rid \in Rid, new \in Rid :
        /\ MaySupersede(rid, new, call.at) /\ call.rids = {rid}
        /\ call.recs = [r \in {new} |-> [from |-> call.at, until |-> TOpen]]
  BY <1>1 DEF IInv, CallOK, CallShape
<1>3. /\ call' = call /\ acked' = acked
      /\ todo' = [todo EXCEPT ![t] = {}]
      /\ \A u \in Table : todo[u] \in {{}, {rid}}
      /\ todo \in [Table -> SUBSET Rid] /\ tables \in [Table -> [Rid -> Interval \cup {Absent}]]
      /\ call.at \in Instant
  BY <1>1, <1>2 DEF IInv, CallOK, CallShape, CloseStmt, TypeOK
<1>4. /\ acked[rid] # Absent /\ acked[rid] \in Interval /\ IsOpen(acked[rid])
      /\ rid # new
  BY <1>2 DEF MaySupersede, SameChain, IInv, TypeOK
<1>5. /\ Closed(acked[rid], call.at) # acked[rid]
      /\ Closed(acked[rid], call.at) # Absent
      /\ Closed(Closed(acked[rid], call.at), call.at) = Closed(acked[rid], call.at)
  BY <1>3, <1>4, ClosedStaysPlaced, AbsentAssumption DEF Closed, Interval
<1>6. \A u \in Table, r \in Rid :
        tables'[u][r] = IF u = t /\ r = rid /\ Present(u, r)
                        THEN Closed(tables[u][r], call.at) ELSE tables[u][r]
  BY <1>2, <1>3 DEF CloseStmt
<1>7. Closing(rid)
  BY <1>1, <1>2, <1>4 DEF IInv, RowOK
<1>8. HistoryOK'
  BY <1>3 DEF IInv, HistoryOK
<1>9. CallOK'
  <2>1. MaySupersede(rid, new, call.at)'
    BY <1>2, <1>3 DEF MaySupersede
  <2>2. \A u \in Table : todo'[u] \in {{}, {rid}}
    BY <1>3
  <2>3. QED BY <1>1, <1>2, <1>3, <2>1, <2>2 DEF CallOK, CallShape
<1>10. \A u \in Table, r \in Rid : Present(u, r)' <=> Present(u, r)
  <2>1. \A u \in Table : Present(u, rid) => Closed(tables[u][rid], call.at) # Absent
    BY <1>5, <1>7 DEF Closing, Present
  <2>2. QED BY <1>6, <2>1 DEF Present
<1>11. ASSUME NEW r \in Rid
       PROVE  RowOK(r)'
  <2>1. CASE r \notin {rid, new}
    <3>1. Settled(r)
      BY <1>1, <1>2, <2>1 DEF IInv, RowOK
    <3>2. Settled(r)'
      BY <1>3, <1>6, <1>10, <2>1, <3>1, TablesOfInterval, CurIsNoEpoch DEF Settled
    <3>3. QED BY <1>2, <1>3, <2>1, <3>2 DEF RowOK
  <2>2. CASE r = new
    <3>1. Inserting(r)
      BY <1>1, <1>2, <2>2 DEF IInv, RowOK
    <3>2. Inserting(r)'
      BY <1>1, <1>3, <1>4, <1>6, <1>10, <2>2, <3>1 DEF Inserting
    <3>3. QED BY <1>1, <1>2, <1>3, <2>2, <3>2 DEF RowOK
  <2>3. CASE r = rid
    <3>1. \A u \in Table : tables'[u][r] \in {Absent, acked[r], Closed(acked[r], call.at)}
      BY <1>5, <1>6, <1>7, <2>3 DEF Closing, Present
    <3>2. \A e \in EpochsFor(acked[r]) : Present(e, r)'
      BY <1>7, <1>10, <2>3, TablesOfInterval DEF Closing
    <3>3. \A u \in Table : todo'[u] = {} => tables'[u][r] # acked[r]
      BY <1>1, <1>3, <1>4, <1>5, <1>6, <1>7, <2>3 DEF Closing, Present
    <3>4. pc' = "uncur" => \A u \in Table : todo'[u] = {}
      BY <1>3 DEF CloseStmt, Others
    <3>5. Retired(r) => Retired(r)'
      BY <1>3, <1>4, <1>5, <1>6, <1>7, <1>10, <2>3, CurIsNoEpoch DEF Retired, Closing, Present
    <3>6. (\E u \in Table, s \in DOMAIN call.recs : Present(u, s)') => Retired(r)'
      BY <1>2, <1>7, <1>10, <2>3, <3>5 DEF Closing
    <3>7. Closing(r)'
      BY <1>1, <1>3, <3>1, <3>2, <3>3, <3>4, <3>6 DEF Closing
    <3>8. QED BY <1>1, <1>2, <1>3, <1>4, <2>3, <3>7 DEF RowOK
  <2>4. QED BY <2>1, <2>2, <2>3
<1>12. QED BY <1>8, <1>9, <1>11 DEF InFlightOK

\* When cur drops the old version, every other copy of it has been closed, so
\* the insertion of its successor may begin.
LEMMA UncurStep ==
  ASSUME IInv, UncurStmt
  PROVE  InFlightOK'
<1>1. call.op = "supersede" /\ pc = "uncur" /\ pc' = "insert"
  BY DEF IInv, CallOK, CallShape, UncurStmt, StartInserts
<1>2. PICK rid \in Rid, new \in Rid :
        /\ MaySupersede(rid, new, call.at) /\ call.rids = {rid}
        /\ call.recs = [r \in {new} |-> [from |-> call.at, until |-> TOpen]]
  BY <1>1 DEF IInv, CallOK, CallShape
<1>3. /\ call' = call /\ acked' = acked
      /\ todo' = [t \in Table |-> PlacedIn(t, call.recs)]
      /\ tables \in [Table -> [Rid -> Interval \cup {Absent}]]
  BY DEF IInv, UncurStmt, StartInserts, TypeOK
<1>4. /\ acked[rid] # Absent /\ rid # new
  BY <1>2 DEF MaySupersede, SameChain
<1>5. \A u \in Table, r \in Rid :
        tables'[u][r] = IF u = Cur /\ r = rid THEN Absent ELSE tables[u][r]
  BY <1>2, <1>3, CurIsNoEpoch DEF UncurStmt, Without
<1>6. Closing(rid)
  BY <1>1, <1>2, <1>4 DEF IInv, RowOK
<1>7. HistoryOK'
  BY <1>3 DEF IInv, HistoryOK
<1>8. CallOK'
  <2>1. MaySupersede(rid, new, call.at)'
    BY <1>2, <1>3 DEF MaySupersede
  <2>2. \A u \in Table : todo'[u] \subseteq PlacedIn(u, call'.recs)
    BY <1>3
  <2>3. QED BY <1>1, <1>2, <1>3, <2>1, <2>2 DEF CallOK, CallShape
<1>9. ASSUME NEW r \in Rid
      PROVE  RowOK(r)'
  <2>1. CASE r \notin {rid, new}
    <3>1. Settled(r)
      BY <1>1, <1>2, <2>1 DEF IInv, RowOK
    <3>2. Settled(r)'
      BY <1>3, <1>5, <2>1, <3>1, TablesOfInterval, CurIsNoEpoch DEF Settled, Present
    <3>3. QED BY <1>2, <1>3, <2>1, <3>2 DEF RowOK
  <2>2. CASE r = new
    <3>1. Inserting(r)
      BY <1>1, <1>2, <2>2 DEF IInv, RowOK
    <3>2. \A t \in TablesOf(call.recs[r]) : r \in todo'[t]
      BY <1>2, <1>3, <2>2, TablesOfInterval DEF PlacedIn
    <3>3. Inserting(r)'
      BY <1>3, <1>4, <1>5, <2>2, <3>1, <3>2 DEF Inserting, Present
    <3>4. QED BY <1>1, <1>2, <1>3, <2>2, <3>3 DEF RowOK
  <2>3. CASE r = rid
    <3>1. \A u \in Table : /\ tables'[u][r] \in {Absent, acked[r], Closed(acked[r], call.at)}
                           /\ tables'[u][r] # acked[r]
      BY <1>1, <1>4, <1>5, <1>6, <2>3 DEF Closing
    <3>2. \A e \in EpochsFor(acked[r]) : Present(e, r)'
      <4>1. \A e \in EpochsFor(acked[r]) : e \in Table /\ e # Cur
        BY CurIsNoEpoch DEF EpochsFor
      <4>2. QED BY <1>5, <1>6, <2>3, <4>1 DEF Closing, Present
    <3>3. Retired(r)'
      BY <1>3, <1>5, <2>3, <3>1, CurIsNoEpoch DEF Retired, Present
    <3>4. Closing(r)'
      BY <1>1, <1>3, <3>1, <3>2, <3>3 DEF Closing
    <3>5. QED BY <1>1, <1>2, <1>3, <1>4, <2>3, <3>4 DEF RowOK
  <2>4. QED BY <2>1, <2>2, <2>3
<1>10. QED BY <1>7, <1>8, <1>9 DEF InFlightOK

\* What a finished call leaves the caller with is a history without overlaps.
LEMMA OutcomeHistory ==
  ASSUME IInv, pc # "idle", acked' = Outcome
  PROVE  HistoryOK'
<1> SUFFICES ASSUME NEW r \in Rid, NEW s \in Rid, SameChain(r, s),
                    Outcome[r] # Absent, Outcome[s] # Absent
             PROVE  Apart(Outcome[r], Outcome[s])
  BY DEF HistoryOK, SameChain
<1>1. /\ CallOK /\ HistoryOK /\ SameChain(s, r)
      /\ acked \in [Rid -> Interval \cup {Absent}]
  BY DEF IInv, SameChain, TypeOK
<1>2. CASE call.op = "write"
  <2>1. call.rids = {} /\ FitsHistory(call.recs)
    BY <1>1, <1>2 DEF CallOK, CallShape
  <2>2. QED BY <1>1, <2>1 DEF FitsHistory, Outcome, HistoryOK, Apart
<1>3. CASE call.op = "supersede"
  <2>1. PICK rid \in Rid, new \in Rid :
          /\ MaySupersede(rid, new, call.at) /\ call.rids = {rid}
          /\ call.recs = [x \in {new} |-> [from |-> call.at, until |-> TOpen]]
    BY <1>1, <1>3 DEF CallOK, CallShape
  <2>2. /\ acked[rid] \in Interval /\ IsOpen(acked[rid]) /\ acked[rid].from <= call.at
        /\ call.at \in Instant /\ acked[new] = Absent /\ SameChain(rid, new)
    BY <1>1, <1>3, <2>1 DEF MaySupersede, IInv, TypeOK
  <2>3. \A x \in Rid : Outcome[x] =
          IF x = new THEN [from |-> call.at, until |-> TOpen]
          ELSE IF x = rid THEN Closed(acked[rid], call.at) ELSE acked[x]
    BY <1>3, <2>1 DEF Outcome
  <2>4. ASSUME NEW x \in Rid, x \notin {rid, new}, acked[x] # Absent, SameChain(rid, x)
        PROVE  /\ Apart(Closed(acked[rid], call.at), acked[x])
               /\ Apart([from |-> call.at, until |-> TOpen], acked[x])
    <3>1. Apart(acked[rid], acked[x]) /\ acked[x] \in Interval
      BY <1>1, <2>1, <2>2, <2>4, AbsentAssumption DEF HistoryOK, MaySupersede
    <3>2. QED BY <2>2, <3>1, ClosedStaysApart
  <2>5. Apart(Closed(acked[rid], call.at), [from |-> call.at, until |-> TOpen])
    <3>1. Closed(acked[rid], call.at).until = call.at /\ call.at \in Nat
      BY <2>2, ClosedStaysPlaced, InstantAssumption
    <3>2. QED BY <3>1 DEF Apart
  <2>6. \A x \in Rid : SameChain(new, x) /\ x # rid => SameChain(rid, x)
    BY <2>2 DEF SameChain
  <2>7. CASE r \notin {rid, new} /\ s \notin {rid, new}
    BY <1>1, <2>3, <2>7 DEF HistoryOK
  <2>8. CASE r \in {rid, new} /\ s \in {rid, new}
    BY <2>2, <2>3, <2>5, <2>8 DEF SameChain, Apart
  <2>9. CASE r \in {rid, new} /\ s \notin {rid, new}
    BY <2>3, <2>4, <2>6, <2>9
  <2>10. CASE r \notin {rid, new} /\ s \in {rid, new}
    BY <1>1, <2>3, <2>4, <2>6, <2>10 DEF Apart
  <2>11. QED BY <2>7, <2>8, <2>9, <2>10
<1>4. CASE call.op \in {"delete", "flush"}
  <2>1. call.recs = NoRecs
    BY <1>1, <1>4 DEF CallOK, CallShape
  <2>2. QED BY <1>1, <1>4, <2>1 DEF Outcome, NoRecs, HistoryOK
<1>5. QED BY <1>1, <1>2, <1>3, <1>4 DEF CallOK, CallShape

\* The rows a call inserts have a non-empty interval.
LEMMA NewRowsNonEmpty ==
  ASSUME IInv, pc # "idle", NEW r \in DOMAIN call.recs
  PROVE  call.recs[r] \in Interval /\ call.recs[r].from < call.recs[r].until
<1>1. call.recs[r] \in Interval
  BY DEF IInv, TypeOK, IsBatch
<1>2. CASE call.op = "supersede"
  <2>1. /\ call.at \in Instant
        /\ call.recs[r] = [from |-> call.at, until |-> TOpen]
    BY <1>2 DEF IInv, TypeOK, CallOK, CallShape
  <2>2. call.at < TOpen
    BY <2>1, InstantAssumption
  <2>3. call.recs[r].from = call.at /\ call.recs[r].until = TOpen
    BY <2>1
  <2>4. QED BY <1>1, <2>2, <2>3
<1>3. CASE call.op # "supersede"
  BY <1>1, <1>3 DEF IInv, CallOK, CallShape, NoRecs
<1>4. QED BY <1>2, <1>3

\* One INSERT of a page: it completes rows in one more table, and the last
\* one settles every row of the call.
LEMMA InsertStep ==
  ASSUME IInv, NEW t \in Table, NEW page \in SUBSET todo[t], InsertStmt(t, page)
  PROVE  InFlightOK'
<1>1. /\ pc = "insert" /\ pc' \in {"insert", "idle"} /\ (pc' = "insert" => call' = call)
      /\ CallOK /\ call.op \in {"write", "supersede"}
      /\ todo' = [todo EXCEPT ![t] = todo[t] \ page]
      /\ todo \in [Table -> SUBSET Rid] /\ tables \in [Table -> [Rid -> Interval \cup {Absent}]]
      /\ IsBatch(call.recs) /\ call.rids \subseteq Rid
  BY DEF IInv, CallOK, CallShape, InsertStmt, TypeOK
<1>2. \A r \in page : r \in DOMAIN call.recs /\ t \in TablesOf(call.recs[r])
  BY <1>1 DEF CallOK, PlacedIn
<1>3. /\ \A r \in DOMAIN call.recs : call.recs[r] # Absent /\ r \in Rid
      /\ page \subseteq Rid
  BY <1>1, <1>2, AbsentAssumption DEF IsBatch
<1>4. \A u \in Table, r \in Rid :
        tables'[u][r] = IF u = t /\ r \in page /\ ~Present(u, r)
                        THEN call.recs[r] ELSE tables[u][r]
  BY <1>1 DEF InsertStmt
<1>5. \A r \in DOMAIN call.recs : Inserting(r)
  BY <1>1, <1>3 DEF IInv, RowOK
<1>6. ASSUME NEW r \in DOMAIN call.recs
      PROVE  /\ \A u \in Table : /\ tables'[u][r] \in {Absent, call.recs[r]}
                                 /\ Present(u, r)' => u \in TablesOf(call.recs[r])
             /\ \A u \in TablesOf(call.recs[r]) :
                  r \notin todo'[u] => tables'[u][r] = call.recs[r]
  <2>1. Inserting(r) /\ r \in Rid
    BY <1>3, <1>5
  <2>2. \A u \in Table : /\ tables'[u][r] \in {Absent, call.recs[r]}
                         /\ Present(u, r)' => u \in TablesOf(call.recs[r])
    BY <1>2, <1>4, <2>1 DEF Inserting, Present
  <2>3. ASSUME NEW u \in TablesOf(call.recs[r]), r \notin todo'[u]
        PROVE  tables'[u][r] = call.recs[r]
    <3>1. u \in Table
      BY TablesOfInterval
    <3>2. CASE r \notin todo[u]
      BY <1>1, <1>4, <2>1, <3>1, <3>2 DEF Inserting
    <3>3. CASE r \in todo[u]
      <4>1. u = t /\ r \in page
        BY <1>1, <2>3, <3>1, <3>3
      <4>2. QED BY <1>4, <2>1, <3>1, <4>1 DEF Inserting, Present
    <3>4. QED BY <3>2, <3>3
  <2>4. QED BY <2>2, <2>3
<1>7. ASSUME NEW r \in Rid, r \notin DOMAIN call.recs
      PROVE  \A u \in Table : tables'[u][r] = tables[u][r]
  BY <1>2, <1>4, <1>7
<1>8. CASE pc' = "insert"
  <2>1. acked' = acked /\ call' = call
    BY <1>8 DEF InsertStmt
  <2>2. HistoryOK'
    BY <2>1 DEF IInv, HistoryOK
  <2>3. CallOK'
    <3>1. \A u \in Table : todo'[u] \subseteq PlacedIn(u, call.recs)
      BY <1>1 DEF CallOK
    <3>2. CallShape'
      BY <1>1, <1>8, <2>1 DEF CallOK, CallShape, FitsHistory, MaySupersede
    <3>3. QED BY <1>1, <2>1, <3>1, <3>2 DEF CallOK, PlacedIn
  <2>4. ASSUME NEW r \in Rid
        PROVE  RowOK(r)'
    <3>1. CASE r \in DOMAIN call.recs
      <4>1. Inserting(r)'
        BY <1>1, <1>5, <1>6, <1>8, <2>1, <3>1 DEF Inserting
      <4>2. QED BY <1>1, <1>8, <2>1, <3>1, <4>1 DEF RowOK
    <3>2. CASE r \notin DOMAIN call.recs \cup call.rids
      <4>1. Settled(r)
        BY <3>2 DEF IInv, RowOK
      <4>2. Settled(r)'
        BY <1>7, <2>1, <3>2, <4>1, TablesOfInterval, CurIsNoEpoch DEF Settled, Present
      <4>3. QED BY <1>1, <1>8, <2>1, <3>2, <4>2 DEF RowOK
    <3>3. CASE r \notin DOMAIN call.recs /\ r \in call.rids
      <4>1. call.op = "supersede"
        BY <1>1, <3>3 DEF CallOK, CallShape
      <4>2. Closing(r)
        BY <1>1, <3>3, <4>1 DEF IInv, RowOK
      <4>3. \A u \in Table : Present(u, r)' <=> Present(u, r)
        BY <1>7, <3>3 DEF Present
      <4>4. Retired(r)'
        BY <1>1, <1>7, <2>1, <3>3, <4>2, <4>3, CurIsNoEpoch DEF Closing, Retired
      <4>5. \A e \in EpochsFor(acked[r]) : Present(e, r)'
        BY <4>2, <4>3, TablesOfInterval DEF Closing
      <4>6. Closing(r)'
        BY <1>1, <1>7, <1>8, <2>1, <3>3, <4>2, <4>4, <4>5 DEF Closing
      <4>7. QED BY <1>1, <1>8, <2>1, <3>3, <4>1, <4>6 DEF RowOK
    <3>4. QED BY <3>1, <3>2, <3>3
  <2>5. QED BY <2>2, <2>3, <2>4 DEF InFlightOK
<1>9. CASE pc' = "idle"
  <2>1. /\ acked' = Outcome
        /\ \A u \in Table : todo'[u] = {}
    BY <1>1, <1>9 DEF InsertStmt, Others
  <2>2. ASSUME NEW r \in Rid
        PROVE  Settled(r)'
    <3>1. CASE r \in DOMAIN call.recs
      <4>1. acked'[r] = call.recs[r]
        BY <2>1, <3>1 DEF Outcome
      <4>2. \A u \in TablesOf(call.recs[r]) : tables'[u][r] = call.recs[r]
        BY <1>6, <2>1, <3>1, TablesOfInterval
      <4>3. \E e \in Epochs : e \in EpochsFor(call.recs[r])
        <5>1. call.recs[r] \in Interval /\ call.recs[r].from < call.recs[r].until
          BY <1>1, <3>1, NewRowsNonEmpty DEF IInv
        <5>2. QED BY <5>1, PlacedSomewhere
      <4>4. \E e \in Epochs : tables'[e][r] # Absent
        BY <1>3, <3>1, <4>2, <4>3, TablesOfInterval
      <4>5. QED
        BY <1>1, <1>3, <1>6, <3>1, <4>1, <4>2, <4>4, TablesOfInterval, CurIsNoEpoch
        DEF Settled, Present
    <3>2. CASE r \notin DOMAIN call.recs \cup call.rids
      <4>1. Settled(r) /\ acked'[r] = acked[r]
        BY <2>1, <3>2 DEF IInv, RowOK, Outcome
      <4>2. QED
        BY <1>7, <3>2, <4>1, TablesOfInterval, CurIsNoEpoch DEF Settled, Present
    <3>3. CASE r \notin DOMAIN call.recs /\ r \in call.rids
      <4>1. call.op = "supersede"
        BY <1>1, <3>3 DEF CallOK, CallShape
      <4>2. Closing(r) /\ acked'[r] = Closed(acked[r], call.at)
        BY <1>1, <2>1, <3>3, <4>1 DEF IInv, RowOK, Outcome
      <4>3. acked[r] \in Interval /\ IsOpen(acked[r]) /\ call.at \in Instant
        BY <1>1, <3>3, <4>1 DEF CallOK, CallShape, MaySupersede, IInv, TypeOK
      <4>4. /\ \A u \in Table : tables'[u][r] \in {Absent, Closed(acked[r], call.at)}
            /\ \A e \in EpochsFor(acked[r]) : tables'[e][r] # Absent
            /\ tables'[Cur][r] = Absent
        BY <1>1, <1>7, <3>3, <4>2, TablesOfInterval, CurIsNoEpoch
        DEF Closing, Retired, Present
      <4>5. TablesOf(Closed(acked[r], call.at)) \subseteq EpochsFor(acked[r])
        BY <4>3, ClosedStaysPlaced
      <4>6. EpochsFor(acked[r]) \subseteq Table
        BY CurIsNoEpoch DEF EpochsFor
      <4>7. \E e \in Epochs : e \in EpochsFor(acked[r])
        <5>1. acked[r].from < acked[r].until
          BY <4>3, OpenIsSentinel, InstantAssumption DEF Interval
        <5>2. QED BY <4>3, <5>1, PlacedSomewhere
      <4>8. QED BY <4>2, <4>4, <4>5, <4>6, <4>7 DEF Settled, Present
    <3>4. QED BY <3>1, <3>2, <3>3
  <2>3. HistoryOK'
    BY <1>1, <2>1, OutcomeHistory
  <2>4. QED BY <1>9, <2>2, <2>3 DEF InFlightOK, RowOK
<1>10. QED BY <1>1, <1>8, <1>9

\* One DELETE takes the rows out of one more table, and the last one settles
\* them as absent.
LEMMA EraseStep ==
  ASSUME IInv, NEW t \in Table, EraseStmt(t)
  PROVE  InFlightOK'
<1>1. /\ pc = "erase" /\ pc' \in {"erase", "idle"} /\ (pc' = "erase" => call' = call)
      /\ CallOK /\ call.op = "delete" /\ call.recs = NoRecs /\ DOMAIN call.recs = {}
      /\ todo' = [todo EXCEPT ![t] = {}]
      /\ todo \in [Table -> SUBSET Rid] /\ tables \in [Table -> [Rid -> Interval \cup {Absent}]]
  BY DEF IInv, CallOK, CallShape, EraseStmt, TypeOK, NoRecs
<1>2. \A u \in Table, r \in Rid :
        tables'[u][r] = IF u = t /\ r \in call.rids THEN Absent ELSE tables[u][r]
  BY <1>1 DEF EraseStmt, Without
<1>3. ASSUME NEW r \in Rid, r \notin call.rids, acked'[r] = acked[r]
      PROVE  Settled(r)'
  <2>1. Settled(r)
    BY <1>1, <1>3 DEF IInv, RowOK
  <2>2. QED
    BY <1>2, <1>3, <2>1, TablesOfInterval, CurIsNoEpoch DEF Settled, Present
<1>4. ASSUME NEW r \in Rid, r \in call.rids
      PROVE  /\ \A u \in Table : tables'[u][r] \in {Absent, acked[r]}
             /\ \A u \in Table : todo'[u] = {} => tables'[u][r] = Absent
  <2>1. Erasing(r)
    BY <1>1, <1>4 DEF IInv, RowOK
  <2>2. QED BY <1>1, <1>2, <1>4, <2>1 DEF Erasing, Present
<1>5. CASE pc' = "erase"
  <2>1. acked' = acked
    BY <1>5 DEF EraseStmt
  <2>2. HistoryOK'
    BY <2>1 DEF IInv, HistoryOK
  <2>3. CallOK'
    BY <1>1, <1>5 DEF CallOK, CallShape
  <2>4. ASSUME NEW r \in Rid
        PROVE  RowOK(r)'
    <3>1. CASE r \in call.rids
      <4>1. Erasing(r)'
        BY <1>4, <2>1, <3>1 DEF Erasing, Present
      <4>2. QED BY <1>1, <1>5, <3>1, <4>1 DEF RowOK
    <3>2. CASE r \notin call.rids
      BY <1>1, <1>3, <2>1, <3>2 DEF RowOK
    <3>3. QED BY <3>1, <3>2
  <2>5. QED BY <2>2, <2>3, <2>4 DEF InFlightOK
<1>6. CASE pc' = "idle"
  <2>1. acked' = Outcome /\ \A u \in Table : todo'[u] = {}
    BY <1>1, <1>6 DEF EraseStmt, Others
  <2>2. HistoryOK'
    BY <1>1, <2>1, OutcomeHistory
  <2>3. ASSUME NEW r \in Rid
        PROVE  Settled(r)'
    <3>1. CASE r \in call.rids
      <4>1. acked'[r] = Absent
        BY <1>1, <2>1, <3>1 DEF Outcome
      <4>2. QED BY <1>4, <2>1, <3>1, <4>1 DEF Settled
    <3>2. CASE r \notin call.rids
      <4>1. acked'[r] = acked[r]
        BY <1>1, <2>1, <3>2 DEF Outcome
      <4>2. QED BY <1>3, <3>2, <4>1
    <3>3. QED BY <3>1, <3>2
  <2>4. QED BY <1>6, <2>2, <2>3 DEF InFlightOK, RowOK
<1>7. QED BY <1>1, <1>5, <1>6

\* A statement that raises leaves the rows of its call half way, as the
\* invariant allows for a call that has not returned.
LEMMA FailStep ==
  ASSUME IInv, Fail
  PROVE  InFlightOK'
<1>1. /\ pc # "idle" /\ pc # "failed" /\ pc' = "failed"
      /\ tables' = tables /\ call' = call /\ acked' = acked
  BY DEF Fail, InStatements
<1>2. HistoryOK'
  BY <1>1 DEF IInv, HistoryOK
<1>3. CallOK'
  BY <1>1 DEF IInv, CallOK, CallShape, FitsHistory, MaySupersede
<1>4. ASSUME NEW r \in Rid
      PROVE  RowOK(r)'
  <2>1. RowOK(r)
    BY DEF IInv
  <2>2. Retired(r) => Retired(r)'
    BY <1>1 DEF Retired, Present
  <2>3. QED
    BY <1>1, <2>1, <2>2 DEF RowOK, Settled, Inserting, Closing, Erasing, Present
<1>5. QED BY <1>2, <1>3, <1>4 DEF InFlightOK

\* The same call made again starts from the rows the failed one left half way.
LEMMA RetryStep ==
  ASSUME IInv, Retry
  PROVE  InFlightOK'
<1>1. /\ pc = "failed" /\ tables' = tables /\ call' = call /\ acked' = acked
      /\ Begin(call) /\ CallOK
  BY DEF IInv, Retry
<1>2. HistoryOK'
  BY <1>1 DEF IInv, HistoryOK
<1>3. CASE call.op = "write"
  <2>1. /\ pc' = "insert" /\ call.rids = {}
        /\ todo' = [t \in Table |-> PlacedIn(t, call.recs)]
    BY <1>1, <1>3 DEF Begin, StartInserts, CallOK, CallShape
  <2>2. CallOK'
    BY <1>1, <1>3, <2>1 DEF CallOK, CallShape, FitsHistory
  <2>3. ASSUME NEW r \in Rid
        PROVE  RowOK(r)'
    <3>1. CASE r \in DOMAIN call.recs
      <4>1. Inserting(r)
        BY <1>1, <3>1 DEF IInv, RowOK
      <4>2. \A t \in TablesOf(call.recs[r]) : r \in todo'[t]
        BY <2>1, <3>1, TablesOfInterval DEF PlacedIn
      <4>3. Inserting(r)'
        BY <1>1, <4>1, <4>2 DEF Inserting, Present
      <4>4. QED BY <1>1, <2>1, <3>1, <4>3 DEF RowOK
    <3>2. CASE r \notin DOMAIN call.recs
      BY <1>1, <2>1, <3>2 DEF IInv, RowOK, Settled, Present
    <3>3. QED BY <3>1, <3>2
  <2>4. QED BY <1>2, <2>2, <2>3 DEF InFlightOK
<1>4. CASE call.op \in {"supersede", "delete"}
  <2>1. /\ pc' = IF call.op = "supersede" THEN "close" ELSE "erase"
        /\ todo' = [t \in Table |-> call.rids]
        /\ call.rids # {} \/ call.op = "delete"
    BY <1>1, <1>4 DEF Begin, StartLoop, CallOK, CallShape
  <2>2. CallOK'
    BY <1>1, <1>4, <2>1 DEF CallOK, CallShape, MaySupersede
  <2>3. ASSUME NEW r \in Rid
        PROVE  RowOK(r)'
    <3>1. RowOK(r) /\ (Retired(r) => Retired(r)')
      BY <1>1 DEF IInv, Retired, Present
    <3>2. CASE r \notin DOMAIN call.recs \cup call.rids
      BY <1>1, <3>1, <3>2 DEF RowOK, Settled, Present
    <3>3. CASE r \in DOMAIN call.recs
      BY <1>1, <2>1, <3>1, <3>3 DEF RowOK, Inserting, Present
    <3>4. CASE r \notin DOMAIN call.recs /\ r \in call.rids
      <4>1. \A t \in Table : todo'[t] # {}
        BY <2>1, <3>4
      <4>2. QED
        BY <1>1, <1>4, <2>1, <3>1, <3>4, <4>1 DEF RowOK, Closing, Erasing, Present
    <3>5. QED BY <3>2, <3>3, <3>4
  <2>4. QED BY <1>2, <2>2, <2>3 DEF InFlightOK
<1>5. CASE call.op = "flush"
  <2>1. /\ pc' \in {"index", "analyze"}
        /\ call.recs = NoRecs /\ call.rids = {}
    BY <1>1, <1>5 DEF Begin, StartFlush, CallOK, CallShape
  <2>2. CallOK'
    BY <1>1, <1>5, <2>1 DEF CallOK, CallShape
  <2>3. ASSUME NEW r \in Rid
        PROVE  RowOK(r)'
    BY <1>1, <2>1 DEF IInv, RowOK, Settled, Present, NoRecs
  <2>4. QED BY <1>2, <2>2, <2>3 DEF InFlightOK
<1>6. QED BY <1>1, <1>3, <1>4, <1>5 DEF CallOK, CallShape

\* A flush(), and its statements, leave every row where it is.
LEMMA FlushStep ==
  ASSUME IInv, Flush \/ AnalyzeStmts \/ \E t \in Table : IndexStmt(t)
  PROVE  InFlightOK'
<1>1. CASE Flush
  <2>1. /\ pc = "idle" /\ pc' \in {"index", "analyze"}
        /\ tables' = tables /\ acked' = acked /\ call' = FlushOf
    BY <1>1 DEF Flush, Call, Begin, StartFlush, FlushOf
  <2>2. HistoryOK'
    BY <2>1 DEF IInv, HistoryOK
  <2>3. CallOK'
    BY <2>1 DEF CallOK, CallShape, FlushOf
  <2>4. ASSUME NEW r \in Rid
        PROVE  RowOK(r)'
    <3>1. Settled(r)
      BY <2>1, IdleSettled
    <3>2. QED BY <2>1, <3>1 DEF RowOK, Settled, Present, FlushOf, NoRecs
  <2>5. QED BY <2>2, <2>3, <2>4 DEF InFlightOK
<1>2. CASE AnalyzeStmts \/ \E t \in Table : IndexStmt(t)
  <2>1. /\ pc \in {"index", "analyze"} /\ pc' \in {"index", "analyze", "idle"}
        /\ tables' = tables /\ acked' = acked
        /\ pc' # "idle" => call' = call
    BY <1>2 DEF AnalyzeStmts, IndexStmt
  <2>2. call.op = "flush" /\ call.recs = NoRecs /\ call.rids = {}
    BY <2>1 DEF IInv, CallOK, CallShape
  <2>3. HistoryOK'
    BY <2>1 DEF IInv, HistoryOK
  <2>4. pc' # "idle" => CallOK'
    BY <2>1, <2>2 DEF CallOK, CallShape
  <2>5. ASSUME NEW r \in Rid
        PROVE  RowOK(r)'
    <3>1. Settled(r)
      BY <2>1, <2>2 DEF IInv, RowOK, NoRecs
    <3>2. QED BY <2>1, <2>2, <3>1 DEF RowOK, Settled, Present, NoRecs
  <2>6. QED BY <2>3, <2>4, <2>5 DEF InFlightOK
<1>3. QED BY <1>1, <1>2

\* The flag is set after the loop of CREATE INDEX, and not before its end.
LEMMA IndexStep ==
  ASSUME IInv, [Next]_vars
  PROVE  IndexOK'
<1>1. IndexOK /\ IndexTypeOK
  BY DEF IInv, TypeOK
<1>2. ASSUME NEW c, Begin(c), UNCHANGED <<indexes, built>>
      PROVE  IndexOK'
  BY <1>1, <1>2 DEF IndexOK, BuiltIsWhole, Begin, StartInserts, StartLoop, StartFlush
<1>3. ASSUME NEW t \in Table, IndexStmt(t)
      PROVE  IndexOK'
  <2>1. /\ pc = "index" /\ t \in unindexed /\ unindexed' = unindexed \ {t}
        /\ indexes' = [indexes EXCEPT ![t] = @ + 1]
        /\ IF unindexed = {t} THEN built' = TRUE ELSE built' = built
    BY <1>3 DEF IndexStmt
  <2>2. \A u \in Table : u \notin unindexed' => indexes'[u] >= 1
    BY <1>1, <2>1 DEF IndexOK, IndexTypeOK
  <2>3. built' => \A u \in Table : indexes'[u] >= 1
    <3>1. CASE built' = built
      BY <1>1, <2>1, <3>1 DEF IndexOK, BuiltIsWhole, IndexTypeOK
    <3>2. CASE unindexed = {t}
      BY <2>1, <2>2, <3>2
    <3>3. QED BY <2>1, <3>1, <3>2
  <2>4. QED BY <2>2, <2>3 DEF IndexOK, BuiltIsWhole
<1>4. CASE UNCHANGED index /\ (pc' = pc \/ pc' # "index")
  BY <1>1, <1>4 DEF IndexOK, BuiltIsWhole, index
<1>5. CASE Fail \/ Reconstruct
  BY <1>1, <1>5 DEF IndexOK, BuiltIsWhole, Fail, Reconstruct
<1>6. ASSUME NEW c, Call(c)
      PROVE  IndexOK'
  BY <1>2, <1>6 DEF Call
<1>7. CASE Retry
  BY <1>2, <1>7 DEF Retry
<1>8. CASE UNCHANGED vars \/ UncurStmt \/ AnalyzeStmts
  BY <1>4, <1>8 DEF vars, UncurStmt, StartInserts, AnalyzeStmts
<1>9. ASSUME NEW t \in Table, CloseStmt(t) \/ EraseStmt(t)
             \/ \E page \in SUBSET todo[t] : InsertStmt(t, page)
      PROVE  IndexOK'
  BY <1>4, <1>9 DEF CloseStmt, EraseStmt, InsertStmt
<1>10. QED
  BY <1>3, <1>5, <1>6, <1>7, <1>8, <1>9 DEF Next, Write, Supersede, Delete, Flush

\* An empty store with no call running satisfies the invariant.
LEMMA EmptyOK ==
  /\ Init => IInv
  /\ Reconstruct => InFlightOK'
<1>1. ASSUME Init PROVE IInv
  <2>1. TypeOK
    BY <1>1, BatchTypes DEF Init, TypeOK, IndexTypeOK, NoRows, NoCall, NothingToDo
  <2>2. IndexOK
    BY <1>1 DEF Init, IndexOK, BuiltIsWhole
  <2>3. QED
    BY <1>1, <2>1, <2>2 DEF Init, IInv, HistoryOK, RowOK, Settled, NoRows, Present
<1>2. ASSUME Reconstruct PROVE InFlightOK'
  BY <1>2 DEF Reconstruct, InFlightOK, HistoryOK, RowOK, Settled, NoRows, Present
<1>3. QED BY <1>1, <1>2

\* The invariant is inductive.
LEMMA InvStep ==
  ASSUME IInv, [Next]_vars
  PROVE  IInv'
<1>1. TypeOK' /\ IndexOK'
  BY TypeStep, IndexStep
<1>2. InFlightOK'
  <2>1. CASE UNCHANGED vars
    <3>1. \A r \in Rid : Retired(r)' <=> Retired(r)
      BY <2>1 DEF vars, Retired, Present
    <3>2. HistoryOK'
      BY <2>1 DEF IInv, HistoryOK, vars
    <3>3. pc' # "idle" => CallOK'
      BY <2>1 DEF IInv, CallOK, CallShape, FitsHistory, MaySupersede, vars
    <3>4. ASSUME NEW r \in Rid PROVE RowOK(r)'
      BY <2>1, <3>1 DEF IInv, vars, RowOK, Settled, Inserting, Closing, Erasing, Present
    <3>5. QED BY <3>2, <3>3, <3>4 DEF InFlightOK
  <2>2. CASE Next
    BY <2>2, WriteStep, SupersedeStep, DeleteStep, CloseStep, UncurStep, InsertStep,
       EraseStep, FlushStep, FailStep, RetryStep, EmptyOK DEF Next
  <2>3. QED BY <2>1, <2>2
<1>3. QED BY <1>1, <1>2 DEF IInv, InFlightOK

-----------------------------------------------------------------------------
(* Theorems.                                                                 *)

\* The tables, the loop state and the caller's history stay well typed, and
\* every row is somewhere between its old and its new state: the inductive
\* invariant holds in every state the adapter and its caller can reach.
THEOREM Invariance == Spec => []IInv
<1>1. Init => IInv
  BY EmptyOK
<1>2. IInv /\ [Next]_vars => IInv'
  BY InvStep
<1>3. QED BY <1>1, <1>2, PTL DEF Spec

\* Type correctness of the adapter's state.
THEOREM TypeCorrect == Spec => []TypeOK
<1>1. IInv => TypeOK
  BY DEF IInv
<1>2. QED BY <1>1, Invariance, PTL

\* write, supersede and delete leave, once they return, every row in every
\* table its interval belongs to, whatever statements raised on the way.
THEOREM RowsArePlaced == Spec => []PlacementRule
<1>1. ASSUME IInv, pc = "idle", NEW r \in Rid, acked[r] # Absent
      PROVE  /\ \A e \in Epochs : Overlaps(acked[r], e) => tables[e][r] = acked[r]
             /\ IsOpen(acked[r]) => tables[Cur][r] = acked[r]
             /\ \E e \in Epochs : Present(e, r)
  <2>1. Settled(r) /\ acked[r] \in Interval
    BY <1>1, IdleSettled DEF IInv, TypeOK
  <2>2. QED
    BY <1>1, <2>1, OverlappedIsPlaced, TablesOfInterval DEF Settled
<1>2. IInv => PlacementRule
  BY <1>1 DEF PlacementRule
<1>3. QED BY <1>2, Invariance, PTL

\* write, supersede and delete leave, once they return, no deleted row, no
\* outdated interval and no closed version in cur.
THEOREM NoCopyIsStale == Spec => []NoStaleCopy
<1>1. ASSUME IInv, pc = "idle", NEW r \in Rid, NEW t \in Table, Present(t, r)
      PROVE  tables[t][r] = acked[r] /\ (t = Cur => IsOpen(acked[r]))
  <2>1. Settled(r)
    BY <1>1, IdleSettled
  <2>2. QED BY <1>1, <2>1 DEF Settled, Present
<1>2. IInv => NoStaleCopy
  BY <1>1 DEF NoStaleCopy
<1>3. QED BY <1>2, Invariance, PTL

\* A read routed to a single epoch table misses nothing that was true at an
\* instant inside the horizon and returns nothing that was not; a read of cur
\* returns the open rows.
THEOREM ReadsAreExact == Spec => []RoutedReadsExact
<1>1. ASSUME IInv, pc = "idle", NEW t \in Instant, t < Horizon
      PROVE  AnswerAt(t) = TrueAt(t)
  <2>1. ASSUME NEW r \in Rid
        PROVE  r \in AnswerAt(t) <=> r \in TrueAt(t)
    <3>1. Settled(r) /\ acked[r] \in Interval \cup {Absent}
      BY <1>1, IdleSettled DEF IInv, TypeOK
    <3>2. Route(t) \in Epochs
      BY <1>1, EpochNumber, InstantAssumption, EpochAssumption DEF Route, Epochs
    <3>3. acked[r] # Absent /\ ValidAt(acked[r], t) => Route(t) \in TablesOf(acked[r])
      BY <1>1, <3>1, RoutedTableHoldsValid, TablesOfInterval
    <3>4. QED
      BY <3>1, <3>2, <3>3, CurIsNoEpoch DEF AnswerAt, TrueAt, Settled, Present
  <2>2. QED BY <2>1 DEF AnswerAt, TrueAt
<1>2. ASSUME IInv, pc = "idle"
      PROVE  AnswerNow = TrueNow
  <2>1. ASSUME NEW r \in Rid
        PROVE  r \in AnswerNow <=> r \in TrueNow
    <3>1. Settled(r) /\ acked[r] \in Interval \cup {Absent}
      BY <1>2, IdleSettled DEF IInv, TypeOK
    <3>2. acked[r] \in Interval => (IsOpen(acked[r]) <=> acked[r].until = TOpen)
      BY OpenIsSentinel
    <3>3. acked[r] # Absent /\ IsOpen(acked[r]) => tables[Cur][r] = acked[r]
      BY <3>1, TablesOfInterval DEF Settled
    <3>4. QED
      BY <3>1, <3>2, <3>3, CurIsNoEpoch DEF AnswerNow, TrueNow, Settled, Present
  <2>2. QED BY <2>1 DEF AnswerNow, TrueNow
<1>3. IInv => RoutedReadsExact
  BY <1>1, <1>2 DEF RoutedReadsExact
<1>4. QED BY <1>3, Invariance, PTL

\* In every state, also between two statements, the copies of two versions of
\* one memory carry intervals that are apart, whichever tables they are in.
LEMMA CopiesApart ==
  ASSUME IInv, NEW r \in Rid, NEW s \in Rid, SameChain(r, s),
         NEW t \in Table, NEW u \in Table, Present(t, r), Present(u, s)
  PROVE  Apart(tables[t][r], tables[u][s])
<1> DEFINE Quiet(x) == /\ acked[x] # Absent
                       /\ \A v \in Table : tables[v][x] \in {Absent, acked[x]}
<1>1. /\ SameChain(s, r) /\ HistoryOK
      /\ acked \in [Rid -> Interval \cup {Absent}]
      /\ Quiet(r) /\ Quiet(s) => Apart(tables[t][r], tables[u][s])
  BY DEF IInv, SameChain, HistoryOK, TypeOK, Present
<1>2. \A x \in Rid, v \in Table : Settled(x) /\ Present(v, x) => Quiet(x)
  BY DEF Settled, Present
<1>3. CASE pc = "idle"
  BY <1>1, <1>2, <1>3, IdleSettled
<1>4. CASE pc # "idle" /\ call.op = "write"
  <2>1. call.rids = {} /\ FitsHistory(call.recs)
    BY <1>4 DEF IInv, CallOK, CallShape
  <2>2. \A x \in Rid : IF x \in DOMAIN call.recs THEN Inserting(x) ELSE Settled(x)
    BY <1>4, <2>1 DEF IInv, RowOK
  <2>3. \A x \in Rid, v \in Table : Present(v, x) =>
          IF x \in DOMAIN call.recs THEN tables[v][x] = call.recs[x] ELSE Quiet(x)
    BY <1>2, <2>2 DEF Inserting, Present
  <2>4. QED BY <1>1, <2>1, <2>3 DEF FitsHistory, Present, Apart
<1>5. CASE pc # "idle" /\ call.op \in {"delete", "flush"}
  <2>1. DOMAIN call.recs = {}
    BY <1>5 DEF IInv, CallOK, CallShape, NoRecs
  <2>2. \A x \in Rid, v \in Table : Present(v, x) => Quiet(x)
    BY <1>2, <1>5, <2>1 DEF IInv, RowOK, Erasing, Present
  <2>3. QED BY <1>1, <2>2
<1>6. CASE pc # "idle" /\ call.op = "supersede"
  <2>1. PICK rid \in Rid, new \in Rid :
          /\ MaySupersede(rid, new, call.at) /\ call.rids = {rid}
          /\ call.recs = [x \in {new} |-> [from |-> call.at, until |-> TOpen]]
    BY <1>6 DEF IInv, CallOK, CallShape
  <2> DEFINE old == acked[rid]
             fresh == [from |-> call.at, until |-> TOpen]
  <2>2. /\ old \in Interval /\ IsOpen(old) /\ old.from <= call.at
        /\ call.at \in Instant /\ SameChain(rid, new) /\ old # Absent
    BY <1>1, <1>6, <2>1, AbsentAssumption DEF MaySupersede, IInv, TypeOK
  <2>3. Closing(rid) /\ Inserting(new)
    BY <1>6, <2>1, <2>2 DEF IInv, RowOK, SameChain
  <2>4. \A v \in Table : /\ Present(v, rid) => tables[v][rid] \in {old, Closed(old, call.at)}
                         /\ Present(v, new) => tables[v][new] = fresh
    BY <2>1, <2>3 DEF Closing, Inserting, Present
  <2>5. \A v, w \in Table : Present(v, rid) /\ Present(w, new)
          => tables[v][rid] = Closed(old, call.at)
    BY <2>1, <2>3, <2>4 DEF Closing, Retired
  <2>6. \A x \in Rid, v \in Table : x \notin {rid, new} /\ Present(v, x) => Quiet(x)
    BY <1>2, <1>6, <2>1 DEF IInv, RowOK
  <2>7. ASSUME NEW x \in Rid, SameChain(rid, x), Quiet(x)
        PROVE  /\ Apart(old, acked[x]) /\ Apart(Closed(old, call.at), acked[x])
               /\ Apart(fresh, acked[x])
    <3>1. Apart(old, acked[x]) /\ acked[x] \in Interval
      BY <1>1, <2>2, <2>7 DEF HistoryOK
    <3>2. QED BY <2>2, <3>1, ClosedStaysApart
  <2>8. Apart(Closed(old, call.at), fresh)
    <3>1. Closed(old, call.at).until = call.at /\ call.at \in Nat
      BY <2>2, ClosedStaysPlaced, InstantAssumption
    <3>2. QED BY <3>1 DEF Apart
  <2>9. \A x \in Rid : SameChain(new, x) /\ x # rid => SameChain(rid, x)
    BY <2>2 DEF SameChain
  <2>10. CASE r \notin {rid, new} /\ s \notin {rid, new}
    BY <1>1, <2>6, <2>10
  <2>11. CASE r \in {rid, new} /\ s \in {rid, new}
    BY <2>4, <2>5, <2>8, <2>11 DEF SameChain, Apart
  <2>12. CASE r \in {rid, new} /\ s \notin {rid, new}
    <3>1. Quiet(s) /\ SameChain(rid, s) /\ tables[u][s] = acked[s]
      BY <2>6, <2>9, <2>12 DEF Present
    <3>2. QED BY <2>4, <2>7, <2>12, <3>1
  <2>13. CASE r \notin {rid, new} /\ s \in {rid, new}
    <3>1. Quiet(r) /\ SameChain(rid, r) /\ tables[t][r] = acked[r]
      BY <1>1, <2>6, <2>9, <2>13 DEF Present
    <3>2. QED BY <2>4, <2>7, <2>13, <3>1 DEF Apart
  <2>14. QED BY <2>10, <2>11, <2>12, <2>13
<1>7. QED
  BY <1>3, <1>4, <1>5, <1>6 DEF IInv, CallOK, CallShape

\* No read returns two versions of one memory, at any instant, in any state:
\* between calls, between two statements of one, and after one has raised.
THEOREM NeverTwoVersions == Spec => []AtMostOneVersion
<1>1. ASSUME IInv, NEW r \in Rid, NEW s \in Rid, SameChain(r, s)
      PROVE  /\ \A t \in Instant : ~({r, s} \subseteq AnswerAt(t))
             /\ ~({r, s} \subseteq AnswerNow)
  <2>1. \A t \in Table, x \in Rid : Present(t, x) => tables[t][x] \in Interval
    BY <1>1 DEF IInv, TypeOK, Present
  <2>2. ASSUME NEW t \in Table, Present(t, r), Present(t, s)
        PROVE  /\ \A i \in Instant : ~(ValidAt(tables[t][r], i) /\ ValidAt(tables[t][s], i))
               /\ ~(tables[t][r].until = TOpen /\ tables[t][s].until = TOpen)
    BY <1>1, <2>1, <2>2, CopiesApart, ApartNotTogether
  <2>3. \A t \in Instant : Route(t) \in Table
    BY CurIsNoEpoch, EpochNumber, InstantAssumption, EpochAssumption DEF Route, Epochs
  <2>4. QED BY <2>2, <2>3, CurIsNoEpoch DEF AnswerAt, AnswerNow
<1>2. IInv => AtMostOneVersion
  BY <1>1 DEF AtMostOneVersion
<1>3. QED BY <1>2, Invariance, PTL

\* Whatever statement of flush() raised, and however often the caller flushed
\* again: with the flag set, every table has its vector index.
THEOREM FlushBuildsAll == Spec => []BuiltIsWhole
<1>1. IInv => BuiltIsWhole
  BY DEF IInv, IndexOK
<1>2. QED BY <1>1, Invariance, PTL

\* As long as no interval starts or ends beyond the horizon, as in the corpora
\* of the probes, the fallback to cur is exact too: what is true at the
\* horizon is open.
THEOREM FallbackIsExact ==
  ASSUME \A i \in Instant : i <= Horizon
  PROVE  Spec => []BeyondHorizonExact
<1>1. ASSUME IInv, pc = "idle", NEW t \in Instant, t >= Horizon
      PROVE  AnswerAt(t) = TrueAt(t)
  <2>1. Horizon \in Nat /\ t = Horizon
    BY <1>1, InstantAssumption, EpochAssumption DEF Horizon
  <2>2. Route(t) = Cur
    BY <2>1, EpochAssumption DEF Route, Horizon
  <2>3. ASSUME NEW r \in Rid
        PROVE  r \in AnswerAt(t) <=> r \in TrueAt(t)
    <3>1. Settled(r) /\ acked[r] \in Interval \cup {Absent}
      BY <1>1, IdleSettled DEF IInv, TypeOK
    <3>2. ASSUME acked[r] # Absent, ValidAt(acked[r], t)
          PROVE  tables[Cur][r] = acked[r]
      <4>1. acked[r] \in Interval /\ acked[r].until \in Instant \cup {TOpen}
        BY <3>1, <3>2 DEF Interval
      <4>2. acked[r].until \notin Instant
        <5>1. \A i \in Instant : ~(t < i)
          BY <2>1, InstantAssumption
        <5>2. QED BY <3>2, <5>1 DEF ValidAt
      <4>3. QED
        BY <3>1, <3>2, <4>1, <4>2, OpenIsSentinel, TablesOfInterval DEF Settled
    <3>3. QED
      BY <2>2, <3>1, <3>2, CurIsNoEpoch DEF AnswerAt, TrueAt, Settled, Present
  <2>4. QED BY <2>3 DEF AnswerAt, TrueAt
<1>2. IInv => BeyondHorizonExact
  BY <1>1 DEF BeyondHorizonExact
<1>3. QED BY <1>2, Invariance, PTL

-----------------------------------------------------------------------------
(* Refinement: a row is in the version store as its copy in the highest      *)
(* epoch table has it.                                                       *)

\* What Hist is: for each row its copy in the highest epoch table that has one.
HistOK ==
  /\ Hist = [r \in Rid |-> Hist[r]]
  /\ \A r \in Rid :
       \/ Hist[r] = Absent /\ \A e \in Epochs : tables[e][r] = Absent
       \/ \E e \in Epochs : /\ tables[e][r] # Absent /\ Hist[r] = tables[e][r]
                            /\ \A f \in Epochs : e < f => tables[f][r] = Absent

LEMMA HistIsLast == HistOK
<1>1. Hist = [r \in Rid |-> Hist[r]] /\ \A r \in Rid : Hist[r] = LastCopy(r)
  BY DEF Hist
<1>2. ASSUME NEW r \in Rid, EpochsHolding(r) # {}
      PROVE  \E e \in Epochs : /\ tables[e][r] # Absent /\ Hist[r] = tables[e][r]
                               /\ \A f \in Epochs : e < f => tables[f][r] = Absent
  <2>1. EpochsHolding(r) \in SUBSET Epochs
    BY DEF EpochsHolding
  <2>2. \E e \in EpochsHolding(r) : \A f \in EpochsHolding(r) : f <= e
    BY <1>2, <2>1, LastOf, EpochAssumption DEF Epochs
  <2> DEFINE top == CHOOSE e \in EpochsHolding(r) : \A f \in EpochsHolding(r) : f <= e
  <2>3. top \in EpochsHolding(r) /\ \A f \in EpochsHolding(r) : f <= top
    BY <2>2
  <2>4. Hist[r] = tables[top][r]
    BY <1>1, <1>2 DEF LastCopy
  <2>5. \A e, f \in Epochs : e < f => ~(f <= e)
    BY DEF Epochs
  <2> HIDE DEF top
  <2>6. QED BY <2>1, <2>3, <2>4, <2>5 DEF EpochsHolding, Present
<1>3. ASSUME NEW r \in Rid, EpochsHolding(r) = {}
      PROVE  Hist[r] = Absent /\ \A e \in Epochs : tables[e][r] = Absent
  BY <1>1, <1>3 DEF LastCopy, EpochsHolding, Present
<1>4. QED BY <1>1, <1>2, <1>3 DEF HistOK


\* A row whose copies are where they were is told by the same epoch table.
LEMMA SamePlaces ==
  ASSUME HistOK, HistOK', NEW r \in Rid,
         \A e \in Epochs : tables'[e][r] = Absent <=> tables[e][r] = Absent
  PROVE  \/ Hist[r] = Absent /\ Hist'[r] = Absent
         \/ \E e \in Epochs : /\ tables[e][r] # Absent
                              /\ Hist[r] = tables[e][r] /\ Hist'[r] = tables'[e][r]
<1>1. CASE Hist[r] = Absent /\ \A e \in Epochs : tables[e][r] = Absent
  BY <1>1 DEF HistOK
<1>2. ASSUME NEW e \in Epochs, tables[e][r] # Absent, Hist[r] = tables[e][r],
             \A f \in Epochs : e < f => tables[f][r] = Absent
      PROVE  Hist'[r] = tables'[e][r]
  <2>1. PICK f \in Epochs : /\ tables'[f][r] # Absent /\ Hist'[r] = tables'[f][r]
                            /\ \A g \in Epochs : f < g => tables'[g][r] = Absent
    BY <1>2 DEF HistOK
  <2>2. ~(e < f) /\ ~(f < e)
    BY <1>2, <2>1
  <2>3. e = f
    BY <2>2 DEF Epochs
  <2>4. QED BY <2>1, <2>3
<1>3. QED BY <1>1, <1>2 DEF HistOK

\* Steps that leave a row's copies alone leave its place in the store alone.
LEMMA SameCopies ==
  ASSUME HistOK, HistOK', NEW r \in Rid, \A e \in Epochs : tables'[e][r] = tables[e][r]
  PROVE  Hist'[r] = Hist[r]
  BY SamePlaces

\* The store is well typed.
HistTypeOK == HistOK /\ Hist \in [Rid -> Interval \cup {Absent}]

LEMMA HistType == IInv => HistTypeOK
<1> SUFFICES ASSUME IInv PROVE HistTypeOK
  OBVIOUS
<1>1. HistOK
  BY HistIsLast
<1>2. \A r \in Rid, e \in Epochs : tables[e][r] \in Interval \cup {Absent}
  BY CurIsNoEpoch DEF IInv, TypeOK
<1>3. \A r \in Rid : Hist[r] \in Interval \cup {Absent}
  BY <1>1, <1>2 DEF HistOK
<1>4. QED BY <1>1, <1>3 DEF HistOK, HistTypeOK

-----------------------------------------------------------------------------
(* The steps.                                                                *)

\* An UPDATE is a Close of the store at the highest epoch table that holds the
\* row, and changes nothing at any other.
LEMMA CloseRefines ==
  ASSUME IInv, NEW t \in Table, CloseStmt(t), HistOK', Hist' # Hist
  PROVE  \E r \in Rid, at \in Instant : Store!Close(r, at)
<1>1. /\ pc = "close" /\ call.op = "supersede"
      /\ tables \in [Table -> [Rid -> Interval \cup {Absent}]]
      /\ Epochs \subseteq Table
  BY CurIsNoEpoch DEF IInv, TypeOK, CallOK, CallShape, CloseStmt
<1>2. PICK rid \in Rid, new \in Rid :
        /\ MaySupersede(rid, new, call.at) /\ call.rids = {rid}
        /\ call.recs = [r \in {new} |-> [from |-> call.at, until |-> TOpen]]
  BY <1>1 DEF IInv, CallOK, CallShape
<1>3. /\ acked[rid] \in Interval /\ IsOpen(acked[rid]) /\ acked[rid].from <= call.at
      /\ call.at \in Instant /\ rid # new
  BY <1>1, <1>2 DEF MaySupersede, IInv, TypeOK, SameChain
<1>4. Closing(rid)
  BY <1>1, <1>2, <1>3 DEF IInv, RowOK
<1>5. \A u \in Table, r \in Rid :
        tables'[u][r] = IF u = t /\ r = rid /\ tables[u][r] # Absent
                        THEN Closed(tables[u][r], call.at) ELSE tables[u][r]
  BY <1>1, <1>2 DEF CloseStmt, Present
<1>6. \A u \in Table : tables[u][rid] \in {Absent, acked[rid], Closed(acked[rid], call.at)}
  BY <1>4 DEF Closing
<1>7. /\ Closed(acked[rid], call.at) # Absent
      /\ Closed(Closed(acked[rid], call.at), call.at) = Closed(acked[rid], call.at)
  BY <1>3, ClosedInterval, AbsentAssumption DEF Closed, Interval
<1>8. HistOK /\ Hist \in [Rid -> Interval \cup {Absent}]
  BY HistType DEF HistTypeOK
<1>9. \A r \in Rid \ {rid} : Hist'[r] = Hist[r]
  BY <1>1, <1>5, <1>8, SameCopies
<1>10. Hist'[rid] # Hist[rid]
  BY <1>8, <1>9 DEF HistOK
<1>11. \A e \in Epochs : tables'[e][rid] = Absent <=> tables[e][rid] = Absent
  BY <1>1, <1>5, <1>6, <1>7
<1>12. PICK e \in Epochs : /\ tables[e][rid] # Absent
                           /\ Hist[rid] = tables[e][rid] /\ Hist'[rid] = tables'[e][rid]
  BY <1>8, <1>10, <1>11, SamePlaces
<1>13. Hist[rid] = acked[rid] /\ Hist'[rid] = Closed(acked[rid], call.at)
  BY <1>1, <1>5, <1>6, <1>7, <1>10, <1>12
<1>14. acked[rid].until = TOpen /\ acked[rid] # Absent
  BY <1>3, OpenIsSentinel, AbsentAssumption
<1>15. Hist' = [Hist EXCEPT ![rid] = Closed(acked[rid], call.at)]
  BY <1>8, <1>9, <1>13 DEF HistOK
<1>16. Store!Close(rid, call.at)
  BY <1>3, <1>8, <1>13, <1>14, <1>15 DEF Store!Close, Closed
<1>17. QED BY <1>3, <1>16

\* The versions of one memory are apart in the store.
HistApart ==
  \A r, s \in Rid : SameChain(r, s) /\ Hist[r] # Absent /\ Hist[s] # Absent
    => Apart(Hist[r], Hist[s])

LEMMA HistIsApart == IInv => HistApart
<1>1. ASSUME IInv, NEW r \in Rid, NEW s \in Rid, SameChain(r, s),
             Hist[r] # Absent, Hist[s] # Absent
      PROVE  Apart(Hist[r], Hist[s])
  <2>1. PICK e \in Epochs : tables[e][r] # Absent /\ Hist[r] = tables[e][r]
    BY <1>1, HistIsLast DEF HistOK
  <2>2. PICK f \in Epochs : tables[f][s] # Absent /\ Hist[s] = tables[f][s]
    BY <1>1, HistIsLast DEF HistOK
  <2>3. QED BY <1>1, <2>1, <2>2, CopiesApart, CurIsNoEpoch DEF Present
<1>2. QED BY <1>1 DEF HistApart

\* A page of an INSERT is a Load of the rows it stores the first copy of.
LEMMA InsertRefines ==
  ASSUME IInv, NEW t \in Table, NEW page \in SUBSET todo[t],
         InsertStmt(t, page), HistTypeOK', HistApart', Hist' # Hist
  PROVE  \E S \in (SUBSET Rid) \ {{}} : Store!Load(S)
<1> DEFINE S == {r \in page : Hist[r] = Absent /\ Hist'[r] # Absent}
<1>1. /\ pc = "insert" /\ CallOK /\ page \subseteq DOMAIN call.recs
      /\ page \subseteq Rid /\ IsBatch(call.recs)
      /\ tables \in [Table -> [Rid -> Interval \cup {Absent}]]
      /\ Epochs \subseteq Table
  BY CurIsNoEpoch DEF IInv, TypeOK, InsertStmt, CallOK, PlacedIn
<1>2. HistOK /\ HistOK' /\ Hist \in [Rid -> Interval \cup {Absent}]
  BY HistType DEF HistTypeOK
<1>3. \A e \in Epochs, r \in Rid :
        tables'[e][r] = IF e = t /\ r \in page /\ tables[e][r] = Absent
                        THEN call.recs[r] ELSE tables[e][r]
  BY <1>1 DEF InsertStmt, Present
<1>4. \A r \in Rid \ page : Hist'[r] = Hist[r]
  BY <1>2, <1>3, SameCopies
<1>5. ASSUME NEW r \in page, Hist[r] # Absent
      PROVE  Hist'[r] = Hist[r]
  <2>1. acked[r] = Absent /\ \A e \in Epochs : tables[e][r] \in {Absent, call.recs[r]}
    BY <1>1 DEF IInv, RowOK, Inserting
  <2>2. \A e \in Epochs : tables'[e][r] \in {Absent, call.recs[r]}
    BY <1>1, <1>3, <2>1
  <2>3. Hist[r] = call.recs[r] /\ Hist'[r] \in {Absent, call.recs[r]}
    BY <1>1, <1>2, <1>5, <2>1, <2>2 DEF HistOK
  <2>4. Hist'[r] # Absent
    BY <1>1, <1>2, <1>3, <1>5, <2>1, <2>3 DEF HistOK
  <2>5. QED BY <2>3, <2>4
<1>6. \A r \in Rid : IF r \in S THEN Hist'[r] # Absent ELSE Hist'[r] = Hist[r]
  BY <1>1, <1>4, <1>5
<1>7. Hist' \in [Rid -> Interval \cup {Absent}]
  BY DEF HistTypeOK
<1>8. S # {}
  <2>1. SUFFICES ASSUME S = {} PROVE Hist' = Hist
    OBVIOUS
  <2>2. \A r \in Rid : Hist'[r] = Hist[r]
    BY <1>6, <2>1
  <2>3. Hist' = [r \in Rid |-> Hist'[r]] /\ Hist = [r \in Rid |-> Hist[r]]
    BY <1>2 DEF HistOK
  <2>4. QED BY <2>2, <2>3
<1>9. ASSUME NEW r \in S, NEW s \in Rid, s # r, ChainOf[s] = ChainOf[r], Hist'[s] # Absent
      PROVE  Store!Apart(Hist'[r], Hist'[s])
  BY <1>1, <1>9 DEF HistApart, SameChain, Apart, Store!Apart
<1>10. Store!Load(S)
  BY <1>1, <1>6, <1>7, <1>9 DEF Store!Load, Store!Versions, Store!Interval, Interval
<1>11. QED BY <1>1, <1>8, <1>10

\* A DELETE is a Forget of the rows whose last copy it removes: the epochs
\* below have been handled before.
LEMMA EraseRefines ==
  ASSUME IInv, NEW t \in Table, EraseStmt(t), HistOK', Hist' # Hist
  PROVE  \E S \in (SUBSET Rid) \ {{}} : Store!Forget(S)
<1> DEFINE S == {r \in Rid : Hist'[r] # Hist[r]}
<1>1. /\ pc = "erase" /\ call.op = "delete" /\ DOMAIN call.recs = {}
      /\ tables \in [Table -> [Rid -> Interval \cup {Absent}]]
      /\ Epochs \subseteq Table
  BY CurIsNoEpoch DEF IInv, TypeOK, CallOK, CallShape, EraseStmt, NoRecs
<1>2. HistOK /\ Hist \in [Rid -> Interval \cup {Absent}]
  BY HistType DEF HistTypeOK
<1>3. \A e \in Epochs, r \in Rid :
        tables'[e][r] = IF e = t /\ r \in call.rids THEN Absent ELSE tables[e][r]
  BY <1>1 DEF EraseStmt, Without
<1>4. \A r \in Rid \ call.rids : Hist'[r] = Hist[r]
  BY <1>2, <1>3, SameCopies
<1>5. ASSUME NEW r \in Rid, r \in call.rids, Hist'[r] # Hist[r]
      PROVE  Hist[r] # Absent /\ Hist'[r] = Absent
  <2>1. \A u \in Table : u < t => tables[u][r] = Absent
    BY <1>1, <1>5 DEF EraseStmt, IsNext, IInv, RowOK, Erasing, Present
  <2>2. \A e \in Epochs : e # t => tables'[e][r] = tables[e][r]
    BY <1>3
  <2>3. PICK e \in Epochs : /\ tables[e][r] # Absent /\ Hist[r] = tables[e][r]
                            /\ \A f \in Epochs : e < f => tables[f][r] = Absent
    <3>1. ASSUME Hist[r] = Absent, \A e \in Epochs : tables[e][r] = Absent
          PROVE  FALSE
      BY <1>2, <1>3, <1>5, <3>1, SameCopies
    <3>2. QED BY <1>2, <3>1 DEF HistOK
  <2>4. e = t
    <3>1. SUFFICES ASSUME e # t PROVE FALSE
      OBVIOUS
    <3>2. tables'[e][r] = tables[e][r] /\ \A f \in Epochs : e < f => tables'[f][r] = Absent
      BY <1>3, <2>3, <3>1
    <3>3. PICK f \in Epochs : /\ tables'[f][r] # Absent /\ Hist'[r] = tables'[f][r]
                              /\ \A g \in Epochs : f < g => tables'[g][r] = Absent
      BY <2>3, <3>2 DEF HistOK
    <3>4. e = f
      BY <2>3, <3>2, <3>3 DEF Epochs
    <3>5. QED BY <1>5, <2>3, <3>2, <3>3, <3>4
  <2>5. \A f \in Epochs : tables'[f][r] = Absent
    <3>1. \A f \in Epochs : f < t \/ f = t \/ t < f
      BY <2>4 DEF Epochs
    <3>2. QED BY <1>1, <1>3, <1>5, <2>1, <2>3, <2>4, <3>1
  <2>6. QED BY <2>3, <2>5 DEF HistOK
<1>6. Hist' = [r \in Rid |-> IF r \in S THEN Absent ELSE Hist[r]]
  BY <1>4, <1>5 DEF HistOK
<1>7. \A r \in S : Hist[r] # Absent
  BY <1>4, <1>5
<1>8. S # {}
  <2>1. SUFFICES ASSUME S = {} PROVE Hist' = Hist
    OBVIOUS
  <2>2. Hist' = [r \in Rid |-> Hist[r]]
    BY <1>6, <2>1
  <2>3. QED BY <1>2, <2>2 DEF HistOK
<1>9. Store!Forget(S)
  BY <1>6, <1>7 DEF Store!Forget
<1>10. QED BY <1>8, <1>9

\* The constructor forgets everything; no other step changes an epoch table.
LEMMA RestRefines ==
  ASSUME IInv, [Next]_vars, HistOK', Hist' # Hist,
         \A t \in Table : ~CloseStmt(t) /\ ~EraseStmt(t)
                          /\ \A page \in SUBSET todo[t] : ~InsertStmt(t, page)
  PROVE  \E S \in (SUBSET Rid) \ {{}} : Store!Forget(S)
<1>1. /\ tables \in [Table -> [Rid -> Interval \cup {Absent}]] /\ HistOK
      /\ Epochs \subseteq Table /\ Cur \notin Epochs
  BY HistType, CurIsNoEpoch DEF IInv, TypeOK, HistTypeOK
<1>2. ASSUME \A e \in Epochs : tables'[e] = tables[e]
      PROVE  FALSE
  <2>1. \A r \in Rid : Hist'[r] = Hist[r]
    BY <1>1, <1>2, SameCopies
  <2>2. QED BY <1>1, <2>1 DEF HistOK
<1>3. Reconstruct
  <2>1. ASSUME tables' = tables
        PROVE  FALSE
    BY <1>2, <2>1
  <2>2. ~UncurStmt
    BY <1>1, <1>2 DEF UncurStmt
  <2>3. QED
    BY <2>1, <2>2 DEF Next, vars, Write, Supersede, Delete, Flush, Call, IndexStmt,
                      AnalyzeStmts, Fail, Retry
<1> DEFINE S == {r \in Rid : Hist[r] # Absent}
<1>4. \A r \in Rid : Hist'[r] = Absent
  BY <1>1, <1>3 DEF Reconstruct, NoRows, HistOK
<1>5. Hist' = [r \in Rid |-> IF r \in S THEN Absent ELSE Hist[r]]
  BY <1>4 DEF HistOK
<1>6. S # {}
  <2>1. SUFFICES ASSUME S = {} PROVE Hist' = Hist
    OBVIOUS
  <2>2. Hist' = [r \in Rid |-> Hist[r]]
    BY <1>5, <2>1
  <2>3. QED BY <1>1, <2>2 DEF HistOK
<1>7. Store!Forget(S)
  BY <1>5 DEF Store!Forget
<1>8. QED BY <1>6, <1>7

\* Every step of the adapter is a step of the version store or leaves it alone.
LEMMA StepRefines ==
  ASSUME IInv, [Next]_vars, IInv', HistTypeOK', HistApart'
  PROVE  [Store!Next]_Hist
<1> SUFFICES ASSUME Hist' # Hist
             PROVE  Store!Next
  OBVIOUS
<1>1. HistOK'
  BY DEF HistTypeOK
<1>2. ASSUME NEW t \in Table, CloseStmt(t)
      PROVE  Store!Next
  BY <1>1, <1>2, CloseRefines DEF Store!Next
<1>3. ASSUME NEW t \in Table, NEW page \in SUBSET todo[t], InsertStmt(t, page)
      PROVE  Store!Next
  BY <1>3, InsertRefines DEF Store!Next
<1>4. ASSUME NEW t \in Table, EraseStmt(t)
      PROVE  Store!Next
  BY <1>1, <1>4, EraseRefines DEF Store!Next
<1>5. CASE \A t \in Table : ~CloseStmt(t) /\ ~EraseStmt(t)
                            /\ \A page \in SUBSET todo[t] : ~InsertStmt(t, page)
  BY <1>1, <1>5, RestRefines DEF Store!Next
<1>6. QED BY <1>2, <1>3, <1>4, <1>5

\* The adapter's loops of statements implement the version store: rows appear
\* clear of the other versions of their memory, are closed once and only while
\* open, and never change or reopen, whatever raises and is retried.
THEOREM ImplementsStore == Spec => StoreSpec
<1>1. Init => Store!Init
  <2>1. ASSUME Init, NEW r \in Rid
        PROVE  Hist[r] = Absent
    BY <2>1, HistIsLast, CurIsNoEpoch DEF Init, NoRows, HistOK
  <2>2. QED BY <2>1, HistIsLast DEF HistOK, Store!Init
<1>2. IInv /\ [Next]_vars /\ IInv' => [Store!Next]_Hist
  <2>1. IInv' => HistTypeOK' /\ HistApart'
    BY HistType, HistIsApart, PTL
  <2>2. QED BY <2>1, StepRefines
<1>3. QED BY <1>1, <1>2, Invariance, PTL DEF Spec, StoreSpec, Store!Spec
=============================================================================
