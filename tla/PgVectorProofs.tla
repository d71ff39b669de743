--------------------------- MODULE PgVectorProofs ---------------------------
(* Proofs about the pgvector adapter, for every set of rids, tenants,        *)
(* batches and instants, every page size, with and without deferred index.   *)
EXTENDS PgVector, ValidTimeProofs, TLAPS

-----------------------------------------------------------------------------
(* Calls.                                                                    *)

\* The arguments of the calls are well typed.
LEMMA ArgumentTypes ==
  /\ IsBatch(NoRecs)
  /\ \A recs \in Batches : IsBatch(WriteOf(recs).recs) /\ WriteOf(recs).rids \subseteq Rid
  /\ \A rid, new \in Rid, at \in Instant :
       LET c == SupersedeOf(rid, new, at)
       IN  IsBatch(c.recs) /\ c.rids \subseteq Rid /\ c.at \in Instant
  BY BatchAssumption DEF IsBatch, NoRecs, Interval, WriteOf, SupersedeOf

\* A call that starts, or starts again, is at its first statement.
LEMMA BeginType ==
  ASSUME NEW c, IsBatch(c.recs), Begin(c)
  PROVE  /\ pc' \in Statements
         /\ todo' \subseteq Rid
         /\ pc' = "insert" => todo' = DOMAIN c.recs
  BY DEF Begin, StartInserts, StartFlush, Statements, IsBatch

\* What a call leaves behind is well typed.
LEMMA OutcomeType ==
  ASSUME IInv, pc # "idle"
  PROVE  KeptOutcome \in [Rid -> Interval \cup {Absent}]
<1> SUFFICES ASSUME NEW r \in Rid
             PROVE  KeptOutcome[r] \in Interval \cup {Absent}
  BY DEF KeptOutcome
<1>1. acked[r] \in Interval \cup {Absent} /\ IsBatch(call.recs)
  BY DEF IInv, TypeOK
<1>2. CASE r \in DOMAIN call.recs
  BY <1>1, <1>2 DEF KeptOutcome, Outcome, IsBatch
<1>3. CASE r \notin DOMAIN call.recs /\ r \in call.rids /\ call.op = "supersede"
  <2>1. acked[r] \in Interval /\ call.at \in Instant
    BY <1>1, <1>3 DEF IInv, CallOK, MaySupersede, TypeOK
  <2>2. QED BY <1>3, <2>1, ClosedInterval DEF KeptOutcome, Outcome
<1>4. CASE r \notin DOMAIN call.recs /\ ~(r \in call.rids /\ call.op = "supersede")
  BY <1>1, <1>4 DEF KeptOutcome, Outcome
<1>5. QED BY <1>2, <1>3, <1>4

\* What a supersede that has not returned has in hand.
LEMMA SupersedeInHand ==
  ASSUME IInv, pc # "idle", call.op = "supersede"
  PROVE  \E rid, new \in Rid :
           /\ rid # new /\ ChainOf[rid] = ChainOf[new]
           /\ call.rids = {rid} /\ DOMAIN call.recs = {new}
           /\ call.recs[new] = [from |-> call.at, until |-> TOpen]
           /\ call.at \in Instant
           /\ acked[rid] \in Interval /\ acked[new] = Absent
           /\ IsOpen(acked[rid]) /\ acked[rid].from <= call.at
           /\ RowOK(rid) /\ RowOK(new)
<1>1. PICK rid \in Rid, new \in Rid :
        /\ MaySupersede(rid, new, call.at) /\ call.rids = {rid}
        /\ call.recs = [r \in {new} |-> [from |-> call.at, until |-> TOpen]]
  BY DEF IInv, CallOK
<1>2. /\ call.at \in Instant /\ acked \in [Rid -> Interval \cup {Absent}]
      /\ RowOK(rid) /\ RowOK(new)
  BY DEF IInv, TypeOK
<1>3. QED
  BY <1>1, <1>2 DEF MaySupersede, SameChain

-----------------------------------------------------------------------------
(* Every step keeps the state well typed and the index in order.             *)

LEMMA TypeStep ==
  ASSUME IInv, [Next]_vars
  PROVE  TypeOK'
<1> USE DEF Statements
<1>0. TypeOK
  BY DEF IInv
<1>1. ASSUME NEW recs \in Batches, Write(recs)
      PROVE  TypeOK'
  BY <1>0, <1>1, BeginType, ArgumentTypes DEF TypeOK, Write, WriteOf, Call
<1>2. ASSUME NEW rid \in Rid, NEW new \in Rid, NEW at \in Instant, Supersede(rid, new, at)
      PROVE  TypeOK'
  <2> DEFINE c == SupersedeOf(rid, new, at)
  <2>1. IsBatch(c.recs) /\ c.rids \subseteq Rid /\ c.at \in Instant
    BY ArgumentTypes
  <2>2. c.op = "supersede"
    BY DEF SupersedeOf
  <2>3. /\ call' = c /\ fresh' = FALSE /\ Begin(c)
        /\ UNCHANGED <<rows, indexes, built, acked>>
    BY <1>2 DEF Supersede, Call
  <2> HIDE DEF c
  <2>4. pc' \in Statements /\ todo' \subseteq Rid
    BY <2>1, <2>3, BeginType
  <2>5. QED BY <1>0, <2>1, <2>2, <2>3, <2>4 DEF TypeOK
<1>3. ASSUME NEW rids \in (SUBSET Rid) \ {{}}, Delete(rids)
      PROVE  TypeOK'
  BY <1>0, <1>3, BeginType, ArgumentTypes DEF TypeOK, Delete, DeleteOf, Call
<1>4. CASE Flush
  BY <1>0, <1>4, BeginType, ArgumentTypes DEF TypeOK, Flush, FlushOf, Call
<1>5. ASSUME CloseStmt
      PROVE  TypeOK'
  <2>1. call.op = "supersede" /\ call.at \in Instant
    BY <1>5 DEF IInv, TypeOK, CallOK, CloseStmt
  <2>2. \A r \in Rid : rows[r] # Absent => Closed(rows[r], call.at) \in Interval
    BY <1>0, <2>1, ClosedInterval DEF TypeOK
  <2>3. rows' \in [Rid -> Interval \cup {Absent}]
    BY <1>0, <1>5, <2>2 DEF TypeOK, CloseStmt
  <2>4. QED BY <1>0, <1>5, <2>3 DEF TypeOK, CloseStmt, StartInserts, IsBatch
<1>6. ASSUME NEW page \in SUBSET todo, InsertStmt(page)
      PROVE  TypeOK'
  <2>1. acked' \in [Rid -> Interval \cup {Absent}]
    BY <1>0, <1>6, OutcomeType DEF InsertStmt, TypeOK
  <2>2. page \subseteq DOMAIN call.recs
    BY <1>6 DEF IInv, CallOK, InsertStmt
  <2>3. rows' \in [Rid -> Interval \cup {Absent}]
    BY <1>0, <1>6, <2>2 DEF TypeOK, InsertStmt, Inserted, IsBatch
  <2>4. QED BY <1>0, <1>6, <2>1, <2>3, ArgumentTypes DEF TypeOK, InsertStmt, NoCall
<1>7. ASSUME EraseStmt
      PROVE  TypeOK'
  <2>1. acked' \in [Rid -> Interval \cup {Absent}]
    BY <1>0, <1>7, OutcomeType DEF EraseStmt, TypeOK
  <2>2. QED BY <1>0, <1>7, <2>1, ArgumentTypes DEF TypeOK, EraseStmt, NoCall
<1>8. CASE IndexStmt
  BY <1>0, <1>8 DEF TypeOK, IndexStmt
<1>9. CASE AnalyzeStmt
  BY <1>0, <1>9, ArgumentTypes DEF TypeOK, AnalyzeStmt, NoCall
<1>10. CASE Fail
  BY <1>0, <1>10 DEF TypeOK, Fail
<1>11. CASE Retry
  BY <1>0, <1>11, BeginType DEF TypeOK, Retry
<1>12. CASE Reconstruct
  BY <1>0, <1>12, ArgumentTypes, PgVectorAssumption DEF TypeOK, Reconstruct, NoRows, NoCall
<1>13. CASE UNCHANGED vars
  BY <1>0, <1>13 DEF TypeOK, vars
<1>14. QED
  BY <1>1, <1>2, <1>3, <1>4, <1>5, <1>6, <1>7, <1>8, <1>9, <1>10, <1>11, <1>12, <1>13
  DEF Next

\* The vector index is built once, by _setup or by the first flush() whose
\* CREATE INDEX went through, and flush() returns only after that.
LEMMA IndexStep ==
  ASSUME IInv, [Next]_vars
  PROVE  IndexOK'
<1>0. IndexOK /\ indexes \in Nat /\ built \in BOOLEAN
  BY DEF IInv, TypeOK
<1>1. ASSUME NEW c, c.op \in {"write", "supersede", "delete", "flush"}, Call(c)
      PROVE  IndexOK'
  BY <1>0, <1>1, PgVectorAssumption DEF IndexOK, Call, Begin, StartInserts, StartFlush
<1>2. ASSUME NEW recs \in Batches, Write(recs)
      PROVE  IndexOK'
  <2>1. WriteOf(recs).op = "write"
    BY DEF WriteOf
  <2>2. QED BY <1>1, <1>2, <2>1 DEF Write
<1>3. ASSUME NEW rid \in Rid, NEW new \in Rid, NEW at \in Instant, Supersede(rid, new, at)
      PROVE  IndexOK'
  <2>1. SupersedeOf(rid, new, at).op = "supersede"
    BY DEF SupersedeOf
  <2>2. QED BY <1>1, <1>3, <2>1 DEF Supersede
<1>4. ASSUME NEW rids \in (SUBSET Rid) \ {{}}, Delete(rids)
      PROVE  IndexOK'
  <2>1. DeleteOf(rids).op = "delete"
    BY DEF DeleteOf
  <2>2. QED BY <1>1, <1>4, <2>1 DEF Delete
<1>5. CASE Flush
  BY <1>1, <1>5 DEF Flush, FlushOf
<1>6. CASE CloseStmt
  BY <1>0, <1>6 DEF IndexOK, CloseStmt, StartInserts
<1>7. ASSUME NEW page \in SUBSET todo, InsertStmt(page)
      PROVE  IndexOK'
  BY <1>0, <1>7 DEF IndexOK, InsertStmt
<1>8. CASE EraseStmt
  BY <1>0, <1>8 DEF IndexOK, EraseStmt
<1>9. CASE IndexStmt
  BY <1>0, <1>9 DEF IndexOK, IndexStmt
<1>10. CASE AnalyzeStmt
  BY <1>0, <1>10 DEF IndexOK, AnalyzeStmt
<1>11. CASE Fail
  BY <1>0, <1>11 DEF IndexOK, Fail, Statements
<1>12. CASE Retry
  BY <1>0, <1>12, PgVectorAssumption DEF IndexOK, Retry, Begin, StartInserts, StartFlush
<1>13. CASE Reconstruct
  BY <1>13, PgVectorAssumption DEF IndexOK, Reconstruct
<1>14. CASE UNCHANGED vars
  BY <1>0, <1>14 DEF IndexOK, vars
<1>15. QED
  BY <1>2, <1>3, <1>4, <1>5, <1>6, <1>7, <1>8, <1>9, <1>10, <1>11, <1>12, <1>13, <1>14
  DEF Next

-----------------------------------------------------------------------------
(* Every step keeps the rest of the invariant: one lemma per action.         *)

InFlightOK ==
  /\ HistoryOK
  /\ pc # "idle" => CallOK
  /\ \A r \in Rid : RowOK(r)

\* A call starts from rows that are as the caller knows them.
LEMMA WriteStep ==
  ASSUME IInv, NEW recs \in Batches, FitsHistory(NewIn(recs)), Write(recs)
  PROVE  InFlightOK'
<1>1. /\ pc = "idle" /\ pc' = "insert" /\ rows' = rows /\ acked' = acked
      /\ call' = WriteOf(recs) /\ todo' = DOMAIN recs
  BY DEF Write, Call, Begin, StartInserts, WriteOf
<1>2. HistoryOK'
  BY <1>1 DEF IInv, HistoryOK
<1>3. CallOK'
  BY <1>1 DEF CallOK, WriteOf, FitsHistory, NewIn
<1>4. \A r \in Rid : RowOK(r)'
  BY <1>1 DEF IInv, RowOK, WriteOf
<1>5. QED BY <1>2, <1>3, <1>4 DEF InFlightOK

LEMMA SupersedeStep ==
  ASSUME IInv, NEW rid \in Rid, NEW new \in Rid, NEW at \in Instant,
         MaySupersede(rid, new, at), Supersede(rid, new, at)
  PROVE  InFlightOK'
<1>1. /\ pc = "idle" /\ pc' = "close" /\ rows' = rows /\ acked' = acked
      /\ call' = SupersedeOf(rid, new, at)
  BY DEF Supersede, Call, Begin, StartInserts, SupersedeOf
<1>2. HistoryOK'
  BY <1>1 DEF IInv, HistoryOK
<1>3. CallOK'
  BY <1>1 DEF CallOK, SupersedeOf, MaySupersede
<1>4. acked[new] = Absent /\ rid # new
  BY DEF MaySupersede, SameChain
<1>5. ASSUME NEW r \in Rid
      PROVE  RowOK(r)'
  <2>1. rows[r] = acked[r] /\ rows[new] = Absent
    BY <1>1, <1>4 DEF IInv, RowOK
  <2>2. QED BY <1>1, <1>4, <2>1 DEF RowOK, SupersedeOf
<1>6. QED BY <1>2, <1>3, <1>5 DEF InFlightOK

LEMMA DeleteStep ==
  ASSUME IInv, NEW rids \in (SUBSET Rid) \ {{}}, Delete(rids)
  PROVE  InFlightOK'
<1>1. /\ pc = "idle" /\ pc' = "erase" /\ rows' = rows /\ acked' = acked
      /\ call' = DeleteOf(rids)
  BY DEF Delete, Call, Begin, DeleteOf
<1>2. QED BY <1>1 DEF IInv, InFlightOK, HistoryOK, CallOK, RowOK, DeleteOf

LEMMA FlushStep ==
  ASSUME IInv, Flush
  PROVE  InFlightOK'
<1>1. /\ pc = "idle" /\ pc' \in {"index", "analyze"} /\ rows' = rows /\ acked' = acked
      /\ call' = FlushOf
  BY DEF Flush, Call, Begin, StartFlush, FlushOf
<1>2. QED BY <1>1 DEF IInv, InFlightOK, HistoryOK, CallOK, RowOK, FlushOf

\* The UPDATE of a supersede closes the old version, which may be closed
\* already if the call is repeated.
LEMMA CloseStep ==
  ASSUME IInv, CloseStmt
  PROVE  InFlightOK'
<1>1. /\ pc = "close" /\ pc' = "insert" /\ call' = call /\ acked' = acked
      /\ call.op = "supersede" /\ todo' = DOMAIN call.recs
  BY DEF IInv, CallOK, CloseStmt, StartInserts
<1>2. PICK rid \in Rid, new \in Rid :
        /\ rid # new
        /\ call.rids = {rid} /\ DOMAIN call.recs = {new}
        /\ call.at \in Instant
        /\ acked[rid] \in Interval /\ acked[new] = Absent
        /\ RowOK(rid) /\ RowOK(new)
  BY <1>1, SupersedeInHand
<1>3. HistoryOK'
  BY <1>1 DEF IInv, HistoryOK
<1>4. CallOK'
  BY <1>1 DEF IInv, CallOK, MaySupersede
<1>5. /\ Closed(acked[rid], call.at) # Absent /\ acked[rid] # Absent
      /\ Closed(Closed(acked[rid], call.at), call.at) = Closed(acked[rid], call.at)
  BY <1>2, ClosedInterval, AbsentAssumption
<1>6. rows[rid] \in {acked[rid], Closed(acked[rid], call.at)}
  BY <1>1, <1>2 DEF RowOK
<1>7. rows'[rid] = Closed(acked[rid], call.at)
  BY <1>2, <1>5, <1>6 DEF CloseStmt
<1>8. \A r \in Rid : r # rid => rows'[r] = rows[r]
  BY <1>2 DEF CloseStmt
<1>9. ASSUME NEW r \in Rid
      PROVE  RowOK(r)'
  <2>1. RowOK(r)
    BY DEF IInv
  <2>2. CASE r = rid
    BY <1>1, <1>2, <1>7, <2>2 DEF RowOK
  <2>3. CASE r = new
    BY <1>1, <1>2, <1>8, <2>1, <2>3 DEF RowOK
  <2>4. CASE r \notin {rid, new}
    BY <1>1, <1>2, <1>8, <2>1, <2>4 DEF RowOK
  <2>5. QED BY <2>2, <2>3, <2>4
<1>10. QED BY <1>3, <1>4, <1>9 DEF InFlightOK

\* The rows a call leaves behind are a history without overlapping versions.
LEMMA OutcomeHistory ==
  ASSUME IInv, pc # "idle", NEW r \in Rid, NEW s \in Rid, SameChain(r, s),
         KeptOutcome[r] # Absent, KeptOutcome[s] # Absent
  PROVE  Apart(KeptOutcome[r], KeptOutcome[s])
<1>1. /\ acked \in [Rid -> Interval \cup {Absent}] /\ HistoryOK /\ SameChain(s, r)
      /\ \A x \in Rid : KeptOutcome[x] =
           IF x \in DOMAIN call.recs /\ acked[x] # Absent THEN acked[x]
           ELSE IF x \in DOMAIN call.recs THEN call.recs[x]
           ELSE IF x \notin call.rids THEN acked[x]
           ELSE IF call.op = "supersede" THEN Closed(acked[x], call.at) ELSE Absent
  BY DEF IInv, TypeOK, SameChain, KeptOutcome, Outcome
<1>2. CASE call.op = "write"
  <2>1. call.rids = {} /\ FitsHistory(NewIn(call.recs))
    BY <1>2 DEF IInv, CallOK
  <2>2. \A x, y \in Rid :
          /\ SameChain(x, y) /\ x \in DOMAIN call.recs /\ acked[x] = Absent
          => /\ acked[y] # Absent => Apart(call.recs[x], acked[y])
             /\ y \in DOMAIN call.recs /\ acked[y] = Absent
                  => Apart(call.recs[x], call.recs[y])
    BY <2>1 DEF FitsHistory, NewIn
  <2>3. \A x \in Rid : KeptOutcome[x] # Absent =>
          \/ acked[x] # Absent /\ KeptOutcome[x] = acked[x]
          \/ /\ acked[x] = Absent /\ x \in DOMAIN call.recs
             /\ KeptOutcome[x] = call.recs[x]
    BY <1>1, <2>1
  <2>4. QED BY <1>1, <2>2, <2>3 DEF HistoryOK, Apart
<1>3. CASE call.op = "supersede"
  <2>1. PICK rid \in Rid, new \in Rid :
          /\ rid # new /\ ChainOf[rid] = ChainOf[new]
          /\ call.rids = {rid} /\ DOMAIN call.recs = {new}
          /\ call.recs[new] = [from |-> call.at, until |-> TOpen]
          /\ call.at \in Instant
          /\ acked[rid] \in Interval /\ acked[new] = Absent
          /\ IsOpen(acked[rid]) /\ acked[rid].from <= call.at
    BY <1>3, SupersedeInHand
  <2> DEFINE old == acked[rid]
             succ == [from |-> call.at, until |-> TOpen]
  <2>2. /\ KeptOutcome[rid] = Closed(old, call.at)
        /\ KeptOutcome[new] = succ
        /\ \A x \in Rid : x \notin {rid, new} => KeptOutcome[x] = acked[x]
    BY <1>1, <1>3, <2>1
  <2>3. ASSUME NEW x \in Rid, x \notin {rid, new}, ChainOf[x] = ChainOf[rid],
               acked[x] # Absent
        PROVE  /\ Apart(Closed(old, call.at), acked[x])
               /\ Apart(succ, acked[x])
    <3>1. acked[x] \in Interval /\ Apart(old, acked[x]) /\ acked[rid] # Absent
      BY <1>1, <2>1, <2>3, AbsentAssumption DEF HistoryOK, SameChain
    <3>2. QED BY <2>1, <3>1, ClosedStaysApart
  <2>4. Apart(Closed(old, call.at), succ)
    BY <2>1, SuccessorApart
  <2>5. CASE r \in {rid, new} /\ s \in {rid, new}
    BY <2>2, <2>4, <2>5 DEF SameChain, Apart
  <2>6. CASE r \in {rid, new} /\ s \notin {rid, new}
    <3>1. ChainOf[s] = ChainOf[rid] /\ acked[s] # Absent /\ KeptOutcome[s] = acked[s]
      BY <1>1, <2>1, <2>2, <2>6 DEF SameChain
    <3>2. QED BY <2>2, <2>3, <2>6, <3>1
  <2>7. CASE r \notin {rid, new} /\ s \in {rid, new}
    <3>1. ChainOf[r] = ChainOf[rid] /\ acked[r] # Absent /\ KeptOutcome[r] = acked[r]
      BY <1>1, <2>1, <2>2, <2>7 DEF SameChain
    <3>2. QED BY <2>2, <2>3, <2>7, <3>1 DEF Apart
  <2>8. CASE r \notin {rid, new} /\ s \notin {rid, new}
    BY <1>1, <2>2, <2>8 DEF HistoryOK
  <2>9. QED BY <2>5, <2>6, <2>7, <2>8
<1>4. CASE call.op \in {"delete", "flush"}
  <2>1. \A x \in Rid : KeptOutcome[x] # Absent => KeptOutcome[x] = acked[x]
    BY <1>1, <1>4 DEF IInv, CallOK, NoRecs
  <2>2. QED BY <1>1, <2>1 DEF HistoryOK
<1>5. QED BY <1>2, <1>3, <1>4 DEF IInv, CallOK

\* One page of an INSERT; after the last one every row is as the call leaves it.
LEMMA InsertStep ==
  ASSUME IInv, NEW page \in SUBSET todo, InsertStmt(page)
  PROVE  InFlightOK'
<1>1. /\ pc = "insert" /\ call.op \in {"write", "supersede"}
      /\ page \subseteq DOMAIN call.recs /\ todo' = todo \ page /\ todo \subseteq DOMAIN call.recs
      /\ DOMAIN call.recs \subseteq Rid /\ IsBatch(call.recs)
      /\ rows' = Inserted(page)
  BY DEF IInv, CallOK, InsertStmt, TypeOK, IsBatch
<1>2. \A r \in Rid : rows'[r] = IF r \in page /\ rows[r] = Absent
                                THEN call.recs[r] ELSE rows[r]
  BY <1>1 DEF Inserted
<1>3. \A r \in DOMAIN call.recs : call.recs[r] # Absent
  BY <1>1, AbsentAssumption DEF IsBatch
<1>4. \A r \in Rid : RowOK(r)
  BY DEF IInv
<1>5. ASSUME call.op = "supersede"
      PROVE  \E rid, new \in Rid :
               /\ rid # new /\ call.rids = {rid} /\ DOMAIN call.recs = {new}
               /\ acked[new] = Absent /\ acked[rid] # Absent
  BY <1>1, <1>5, SupersedeInHand, AbsentAssumption
<1>6. CASE page # todo
  <2>1. pc' = "insert" /\ call' = call /\ acked' = acked
    BY <1>1, <1>6 DEF InsertStmt
  <2>2. HistoryOK'
    BY <2>1 DEF IInv, HistoryOK
  <2>3. CallOK'
    BY <1>1, <2>1 DEF IInv, CallOK, FitsHistory, NewIn, MaySupersede
  <2>4. ASSUME NEW r \in Rid
        PROVE  RowOK(r)'
    <3>1. CASE call.op = "write"
      BY <1>1, <1>2, <1>3, <1>4, <2>1, <3>1 DEF RowOK
    <3>2. CASE call.op = "supersede"
      BY <1>1, <1>2, <1>3, <1>4, <1>5, <2>1, <3>2 DEF RowOK
    <3>3. QED BY <1>1, <3>1, <3>2
  <2>5. QED BY <2>1, <2>2, <2>3, <2>4 DEF InFlightOK
<1>7. CASE page = todo
  <2>1. pc' = "idle" /\ call' = NoCall /\ acked' = KeptOutcome
    BY <1>1, <1>7 DEF InsertStmt
  <2>2. HistoryOK'
    BY <1>1, <2>1, OutcomeHistory DEF HistoryOK, SameChain
  <2>3. ASSUME NEW r \in Rid
        PROVE  rows'[r] = KeptOutcome[r]
    <3>1. CASE call.op = "write"
      <4>1. call.rids = {}
        BY <1>1, <3>1 DEF IInv, CallOK
      <4>2. QED BY <1>1, <1>2, <1>3, <1>4, <1>7, <3>1, <4>1 DEF RowOK, KeptOutcome, Outcome
    <3>2. CASE call.op = "supersede"
      BY <1>1, <1>2, <1>3, <1>4, <1>5, <1>7, <3>2 DEF RowOK, KeptOutcome, Outcome
    <3>3. QED BY <1>1, <3>1, <3>2
  <2>4. QED BY <2>1, <2>2, <2>3 DEF InFlightOK, RowOK
<1>8. QED BY <1>6, <1>7

\* The DELETE takes out what delete() was given.
LEMMA EraseStep ==
  ASSUME IInv, EraseStmt
  PROVE  InFlightOK'
<1>1. /\ pc = "erase" /\ pc' = "idle" /\ acked' = KeptOutcome
      /\ call.op = "delete" /\ call.recs = NoRecs
  BY DEF IInv, CallOK, EraseStmt
<1>2. HistoryOK'
  BY <1>1, OutcomeHistory DEF HistoryOK, SameChain
<1>3. \A r \in Rid : rows'[r] = KeptOutcome[r]
  BY <1>1 DEF IInv, RowOK, EraseStmt, KeptOutcome, Outcome, NoRecs
<1>4. QED BY <1>1, <1>2, <1>3 DEF InFlightOK, RowOK

\* The statements of flush() change no row.
LEMMA FlushStmtStep ==
  ASSUME IInv, IndexStmt \/ AnalyzeStmt
  PROVE  InFlightOK'
<1>1. /\ pc \in {"index", "analyze"} /\ pc' \in {"analyze", "idle"}
      /\ rows' = rows /\ acked' = acked /\ call.op = "flush"
      /\ pc' = "analyze" => call' = call
  BY DEF IInv, CallOK, IndexStmt, AnalyzeStmt
<1>2. call.recs = NoRecs /\ call.rids = {}
  BY <1>1 DEF IInv, CallOK
<1>3. \A r \in Rid : rows[r] = acked[r]
  BY <1>1 DEF IInv, RowOK
<1>4. QED BY <1>1, <1>2, <1>3 DEF IInv, InFlightOK, HistoryOK, CallOK, RowOK

\* An exception leaves the rows as the statements before it left them.
LEMMA FailStep ==
  ASSUME IInv, Fail
  PROVE  InFlightOK'
<1>1. /\ pc # "idle" /\ pc' = "failed"
      /\ rows' = rows /\ call' = call /\ acked' = acked
  BY DEF Fail, Statements
<1>2. CallOK'
  BY <1>1 DEF IInv, CallOK, FitsHistory, NewIn, MaySupersede
<1>3. \A r \in Rid : RowOK(r)'
  BY <1>1 DEF IInv, RowOK
<1>4. QED BY <1>1, <1>2, <1>3 DEF IInv, InFlightOK, HistoryOK

\* The same call made again starts from the rows the failed one left.
LEMMA RetryStep ==
  ASSUME IInv, Retry
  PROVE  InFlightOK'
<1>1. /\ pc = "failed" /\ rows' = rows /\ call' = call /\ acked' = acked /\ Begin(call)
  BY DEF Retry
<1>2. CallOK'
  BY <1>1 DEF IInv, CallOK, FitsHistory, NewIn, MaySupersede, Begin, StartInserts, StartFlush
<1>3. ASSUME NEW r \in Rid
      PROVE  RowOK(r)'
  <2>1. RowOK(r) /\ CallOK
    BY <1>1 DEF IInv
  <2>2. CASE call.op = "write"
    BY <1>1, <2>1, <2>2 DEF RowOK, Begin, StartInserts
  <2>3. CASE call.op = "supersede"
    BY <1>1, <2>1, <2>3 DEF RowOK, Begin
  <2>4. CASE call.op \in {"delete", "flush"}
    BY <1>1, <2>1, <2>4 DEF RowOK, Begin, StartFlush
  <2>5. QED BY <2>1, <2>2, <2>3, <2>4 DEF CallOK
<1>4. QED BY <1>1, <1>2, <1>3 DEF IInv, InFlightOK, HistoryOK

\* An empty table with no call running satisfies the invariant.
LEMMA EmptyOK ==
  /\ Init => IInv
  /\ Reconstruct => InFlightOK'
<1>1. ASSUME Init PROVE IInv
  <2>1. TypeOK
    BY <1>1, ArgumentTypes, PgVectorAssumption DEF Init, TypeOK, NoRows, NoCall
  <2>2. QED
    BY <1>1, <2>1, PgVectorAssumption DEF Init, IInv, HistoryOK, RowOK, IndexOK, NoRows
<1>2. ASSUME Reconstruct PROVE InFlightOK'
  BY <1>2 DEF Reconstruct, InFlightOK, HistoryOK, RowOK, NoRows
<1>3. QED BY <1>1, <1>2

\* The invariant is inductive.
LEMMA InvStep ==
  ASSUME IInv, [Next]_vars
  PROVE  IInv'
<1>1. TypeOK' /\ IndexOK'
  BY TypeStep, IndexStep
<1>2. InFlightOK'
  <2>1. CASE UNCHANGED vars
    <3>1. pc # "idle" => CallOK'
      BY <2>1 DEF vars, IInv, CallOK, FitsHistory, NewIn, MaySupersede
    <3>2. \A r \in Rid : RowOK(r)'
      BY <2>1 DEF vars, IInv, RowOK
    <3>3. QED BY <2>1, <3>1, <3>2 DEF vars, IInv, InFlightOK, HistoryOK
  <2>2. CASE Next
    BY <2>2, WriteStep, SupersedeStep, DeleteStep, FlushStep, CloseStep, InsertStep,
       EraseStep, FlushStmtStep, FailStep, RetryStep, EmptyOK DEF Next
  <2>3. QED BY <2>1, <2>2
<1>3. QED BY <1>1, <1>2 DEF IInv, InFlightOK

-----------------------------------------------------------------------------
(* Theorems.                                                                 *)

\* write, supersede, delete and flush keep every row between its old and its
\* new state, through statements that raise and calls that are repeated.
THEOREM Invariance == Spec => []IInv
<1>1. Init => IInv
  BY EmptyOK
<1>2. IInv /\ [Next]_vars => IInv'
  BY InvStep
<1>3. QED BY <1>1, <1>2, PTL DEF Spec

\* Between calls retrieve and audit answer as the caller's own history does:
\* nothing is lost, stale or out of scope.
THEOREM ReadsAreExact == Spec => []ReadsExact
<1>1. ASSUME IInv, pc = "idle"
      PROVE  rows = acked
  BY <1>1 DEF IInv, TypeOK, RowOK
<1>2. IInv => ReadsExact
  BY <1>1 DEF ReadsExact, Answer, Truth, Selects, AuditPresent
<1>3. QED BY <1>2, Invariance, PTL

\* flush() returns with exactly one vector index on the table.
THEOREM FlushIsReady == Spec => []FlushedReady
<1>1. IInv => FlushedReady
  BY DEF IInv, IndexOK, FlushedReady
<1>2. QED BY <1>1, Invariance, PTL

\* In every state, also between two statements, the rows of two versions of
\* one memory carry intervals that are apart.
LEMMA RowsApart ==
  ASSUME IInv, NEW r \in Rid, NEW s \in Rid, SameChain(r, s),
         rows[r] # Absent, rows[s] # Absent
  PROVE  Apart(rows[r], rows[s])
<1>1. /\ acked \in [Rid -> Interval \cup {Absent}] /\ HistoryOK
      /\ \A x \in Rid : RowOK(x)
  BY DEF IInv, TypeOK
<1>2. CASE pc = "idle"
  BY <1>1, <1>2 DEF RowOK, HistoryOK
<1>3. CASE pc # "idle" /\ call.op = "write"
  <2>1. FitsHistory(NewIn(call.recs))
    BY <1>3 DEF IInv, CallOK
  <2>2. \A x, y \in Rid :
          /\ SameChain(x, y) /\ x \in DOMAIN call.recs /\ acked[x] = Absent
          => /\ acked[y] # Absent => Apart(call.recs[x], acked[y])
             /\ y \in DOMAIN call.recs /\ acked[y] = Absent
                  => Apart(call.recs[x], call.recs[y])
    BY <2>1 DEF FitsHistory, NewIn
  <2>3. \A x \in Rid : rows[x] # Absent =>
          \/ acked[x] # Absent /\ rows[x] = acked[x]
          \/ acked[x] = Absent /\ x \in DOMAIN call.recs /\ rows[x] = call.recs[x]
    BY <1>1, <1>3 DEF RowOK
  <2>4. QED BY <1>1, <2>2, <2>3 DEF HistoryOK, SameChain, Apart
<1>4. CASE pc # "idle" /\ call.op = "supersede"
  <2>1. PICK rid \in Rid, new \in Rid :
          /\ rid # new /\ ChainOf[rid] = ChainOf[new]
          /\ call.rids = {rid} /\ DOMAIN call.recs = {new}
          /\ call.recs[new] = [from |-> call.at, until |-> TOpen]
          /\ call.at \in Instant
          /\ acked[rid] \in Interval /\ acked[new] = Absent
          /\ IsOpen(acked[rid]) /\ acked[rid].from <= call.at
    BY <1>4, SupersedeInHand
  <2> DEFINE old == acked[rid]
             succ == [from |-> call.at, until |-> TOpen]
  <2>2. /\ rows[rid] \in {old, Closed(old, call.at)}
        /\ rows[new] \in {Absent, succ}
        /\ rows[new] # Absent => rows[rid] = Closed(old, call.at)
        /\ \A x \in Rid : x \notin {rid, new} => rows[x] = acked[x]
    BY <1>1, <1>4, <2>1 DEF RowOK
  <2>3. ASSUME NEW x \in Rid, x \notin {rid, new}, ChainOf[x] = ChainOf[rid],
               acked[x] # Absent
        PROVE  /\ Apart(old, acked[x]) /\ Apart(Closed(old, call.at), acked[x])
               /\ Apart(succ, acked[x])
    <3>1. acked[x] \in Interval /\ Apart(old, acked[x]) /\ acked[rid] # Absent
      BY <1>1, <2>1, <2>3, AbsentAssumption DEF HistoryOK, SameChain
    <3>2. QED BY <2>1, <3>1, ClosedStaysApart
  <2>4. Apart(Closed(old, call.at), succ)
    BY <2>1, SuccessorApart
  <2>5. CASE r \in {rid, new} /\ s \in {rid, new}
    BY <2>2, <2>4, <2>5 DEF SameChain, Apart
  <2>6. CASE r \in {rid, new} /\ s \notin {rid, new}
    <3>1. ChainOf[s] = ChainOf[rid] /\ acked[s] # Absent /\ rows[s] = acked[s]
      BY <2>1, <2>2, <2>6 DEF SameChain
    <3>2. QED BY <2>2, <2>3, <2>6, <3>1
  <2>7. CASE r \notin {rid, new} /\ s \in {rid, new}
    <3>1. ChainOf[r] = ChainOf[rid] /\ acked[r] # Absent /\ rows[r] = acked[r]
      BY <2>1, <2>2, <2>7 DEF SameChain
    <3>2. QED BY <2>2, <2>3, <2>7, <3>1 DEF Apart
  <2>8. CASE r \notin {rid, new} /\ s \notin {rid, new}
    BY <1>1, <2>2, <2>8 DEF HistoryOK
  <2>9. QED BY <2>5, <2>6, <2>7, <2>8
<1>5. CASE pc # "idle" /\ call.op \in {"delete", "flush"}
  BY <1>1, <1>5 DEF RowOK, HistoryOK
<1>6. QED BY <1>2, <1>3, <1>4, <1>5 DEF IInv, CallOK

\* The same, of all rows.
RowsAreApart ==
  \A r, s \in Rid : SameChain(r, s) /\ rows[r] # Absent /\ rows[s] # Absent
    => Apart(rows[r], rows[s])

LEMMA RowsApartAlways == IInv => RowsAreApart
  BY RowsApart DEF RowsAreApart

\* No as_of read ever returns two versions of one memory, between the UPDATE
\* and the INSERT of a supersede and after either has raised included.
THEOREM NeverTwoVersions == Spec => []AtMostOneVersion
<1>1. ASSUME IInv, NEW r \in Rid, NEW s \in Rid, NEW t \in Instant, SameChain(r, s)
      PROVE  ~({r, s} \subseteq Answer(AnyTenant, t))
  <2>1. rows \in [Rid -> Interval \cup {Absent}] /\ t # Always
    BY <1>1, InstantAssumption DEF IInv, TypeOK, Always
  <2>2. ASSUME rows[r] # Absent, rows[s] # Absent
        PROVE  ~(ValidAt(rows[r], t) /\ ValidAt(rows[s], t))
    <3>1. rows[r] \in Interval /\ rows[s] \in Interval
      BY <2>1, <2>2
    <3>2. QED BY <1>1, <2>2, <3>1, RowsApart, ApartNotTogether
  <2>3. QED BY <2>1, <2>2 DEF Answer, Selects, HoldsAt
<1>2. IInv => AtMostOneVersion
  BY <1>1 DEF AtMostOneVersion
<1>3. QED BY <1>2, Invariance, PTL

-----------------------------------------------------------------------------
(* Refinement.                                                               *)

\* The UPDATE of a supersede is a Close of the store, or changes nothing.
LEMMA CloseRefines ==
  ASSUME IInv, CloseStmt, rows' # rows
  PROVE  \E r \in Rid, at \in Instant : Store!Close(r, at)
<1>1. pc = "close" /\ call.op = "supersede"
  BY DEF IInv, CallOK, CloseStmt
<1>2. PICK rid \in Rid, new \in Rid :
        /\ call.rids = {rid} /\ call.at \in Instant
        /\ acked[rid] \in Interval
        /\ IsOpen(acked[rid]) /\ acked[rid].from <= call.at /\ RowOK(rid)
  BY <1>1, SupersedeInHand
<1>3. rows \in [Rid -> Interval \cup {Absent}]
  BY DEF IInv, TypeOK
<1>4. rows[rid] \in {acked[rid], Closed(acked[rid], call.at)}
  BY <1>1, <1>2 DEF RowOK
<1>5. rows[rid] # Absent /\ rows' = [rows EXCEPT ![rid] = Closed(rows[rid], call.at)]
  <2>1. rows[rid] # Absent
    BY <1>2, <1>4, ClosedInterval, AbsentAssumption
  <2>2. QED BY <1>2, <1>3, <2>1 DEF CloseStmt
<1>6. rows[rid] = acked[rid]
  <2>1. SUFFICES ASSUME rows[rid] = Closed(acked[rid], call.at)
                 PROVE  FALSE
    BY <1>4
  <2>2. Closed(rows[rid], call.at) = rows[rid]
    BY <1>2, <2>1, ClosedInterval
  <2>3. QED BY <1>3, <1>5, <2>2
<1>7. rows[rid].until = TOpen
  BY <1>2, <1>6, OpenIsSentinel
<1>8. Store!Close(rid, call.at)
  BY <1>2, <1>3, <1>5, <1>6, <1>7 DEF Store!Close, Closed
<1>9. QED BY <1>2, <1>8

\* A page of an INSERT is a Load of the rows that were not there, or changes
\* nothing.
LEMMA InsertRefines ==
  ASSUME IInv, TypeOK', InFlightOK', IndexOK',
         NEW page \in SUBSET todo, InsertStmt(page), rows' # rows
  PROVE  \E S \in (SUBSET Rid) \ {{}} : Store!Load(S)
<1> DEFINE S == {r \in page : rows[r] = Absent}
<1>1. /\ rows \in [Rid -> Interval \cup {Absent}]
      /\ rows' \in [Rid -> Interval \cup {Absent}]
      /\ page \subseteq DOMAIN call.recs /\ page \subseteq Rid /\ IsBatch(call.recs)
      /\ rows' = Inserted(page)
  BY DEF IInv, TypeOK, CallOK, InsertStmt
<1>2. \A r \in page : call.recs[r] # Absent
  BY <1>1, AbsentAssumption DEF IsBatch
<1>3. \A r \in Rid : IF r \in S THEN rows'[r] # Absent ELSE rows'[r] = rows[r]
  BY <1>1, <1>2 DEF Inserted
<1>4. S # {}
  BY <1>1, <1>3
<1>5. ASSUME NEW r \in S, NEW s \in Rid, s # r, ChainOf[s] = ChainOf[r], rows'[s] # Absent
      PROVE  Store!Apart(rows'[r], rows'[s])
  <2>1. IInv'
    BY DEF IInv, InFlightOK
  <2>2. SameChain(r, s) /\ r \in Rid /\ rows'[r] # Absent
    BY <1>1, <1>3, <1>5 DEF SameChain
  <2>3. RowsAreApart'
    BY <2>1, RowsApartAlways, PTL
  <2>4. QED BY <1>5, <2>2, <2>3 DEF RowsAreApart, SameChain, Apart, Store!Apart
<1>6. Store!Load(S)
  BY <1>1, <1>3, <1>5 DEF Store!Load, Store!Versions, Store!Interval, Interval
<1>7. QED BY <1>1, <1>4, <1>6

\* A DELETE is a Forget of the rows that are there, or changes nothing.
LEMMA EraseRefines ==
  ASSUME IInv, EraseStmt, rows' # rows
  PROVE  \E S \in (SUBSET Rid) \ {{}} : Store!Forget(S)
<1> DEFINE S == {r \in Rid : r \in call.rids /\ rows[r] # Absent}
<1>1. rows \in [Rid -> Interval \cup {Absent}]
  BY DEF IInv, TypeOK
<1>2. rows' = [r \in Rid |-> IF r \in S THEN Absent ELSE rows[r]]
  BY DEF EraseStmt
<1>3. S # {}
  BY <1>1, <1>2
<1>4. Store!Forget(S)
  BY <1>2 DEF Store!Forget
<1>5. QED BY <1>3, <1>4

\* The other steps change no row, but for the constructor, which is a Forget
\* of all of them.
LEMMA RestRefines ==
  ASSUME IInv, Next, rows' # rows,
         ~CloseStmt, ~EraseStmt, ~(\E page \in SUBSET todo : InsertStmt(page))
  PROVE  \E S \in (SUBSET Rid) \ {{}} : Store!Forget(S)
<1>1. Reconstruct
  BY DEF Next, Write, Supersede, Delete, Flush, Call, IndexStmt, AnalyzeStmt, Fail, Retry
<1> DEFINE S == {r \in Rid : rows[r] # Absent}
<1>2. rows \in [Rid -> Interval \cup {Absent}] /\ rows' = [r \in Rid |-> Absent]
  BY <1>1 DEF IInv, TypeOK, Reconstruct, NoRows
<1>3. rows' = [r \in Rid |-> IF r \in S THEN Absent ELSE rows[r]]
  BY <1>2
<1>4. S # {}
  BY <1>2, <1>3
<1>5. Store!Forget(S)
  BY <1>3 DEF Store!Forget
<1>6. QED BY <1>4, <1>5

\* Every step of the adapter is a step of the version store or leaves it alone.
LEMMA StepRefines ==
  ASSUME IInv, [Next]_vars
  PROVE  [Store!Next]_rows
<1> SUFFICES ASSUME rows' # rows
             PROVE  Store!Next
  OBVIOUS
<1>0. Next
  BY DEF vars
<1>1. CASE CloseStmt
  BY <1>1, CloseRefines DEF Store!Next
<1>2. CASE \E page \in SUBSET todo : InsertStmt(page)
  <2>1. TypeOK' /\ InFlightOK' /\ IndexOK'
    BY InvStep DEF IInv, InFlightOK
  <2>2. QED BY <1>2, <2>1, InsertRefines DEF Store!Next
<1>3. CASE EraseStmt
  BY <1>3, EraseRefines DEF Store!Next
<1>4. CASE ~CloseStmt /\ ~EraseStmt /\ ~(\E page \in SUBSET todo : InsertStmt(page))
  BY <1>0, <1>4, RestRefines DEF Store!Next
<1>5. QED BY <1>1, <1>2, <1>3, <1>4

\* The pgvector adapter implements the version store: versions appear clear of
\* their chain, are closed once and only while open, and never change again,
\* through statements that raise, calls repeated and rids written again.
THEOREM ImplementsStore == Spec => StoreSpec
<1>1. Init => Store!Init
  BY DEF Init, Store!Init, NoRows
<1>2. IInv /\ [Next]_vars => [Store!Next]_rows
  BY StepRefines
<1>3. QED BY <1>1, <1>2, Invariance, PTL DEF Spec, StoreSpec, Store!Spec
=============================================================================
