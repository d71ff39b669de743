------------------------ MODULE ReferenceStoreProofs ------------------------
(* Proofs about the reference backends, for every set of rids, chains,       *)
(* tenants and instants, and for each of the four classes: what the record   *)
(* map and the tombstones say together, what the arrays have of the records, *)
(* that reads are exact; and what a run of the scenarios over one of them    *)
(* concludes, for every corpus and every sequence of queries.                *)
EXTENDS GuaranteeProbe, SequenceTheorems, FunctionTheorems,
        FiniteSetTheorems, WellFoundedInduction, TLAPS

\* Types of what the self-report rests on.
RecordsOK ==
  /\ byrid \in [Rid -> Record \cup {Absent}]
  /\ acked \in [Rid -> Record \cup {Absent}]
  /\ dead \subseteq used /\ used \subseteq Rid

\* The map has the caller's record of every rid without a tombstone, a rid that
\* was never written is in neither, and the class that excises sets no tombstone.
RowOK(r) ==
  /\ acked[r] # Absent <=> byrid[r] # Absent /\ r \notin dead
  /\ acked[r] # Absent => byrid[r] = acked[r]
  /\ byrid[r] # Absent => r \in used

HistoryOK ==
  \A r, s \in Rid :
    r # s /\ ChainOf[r] = ChainOf[s] /\ acked[r] # Absent /\ acked[s] # Absent
      => Apart(acked[r], acked[s])

IInv == /\ RecordsOK /\ (Excises => dead = {})
        /\ \A r \in Rid : RowOK(r)
        /\ HistoryOK

-----------------------------------------------------------------------------
(* The steps, on the records alone.                                          *)

\* A new record of a rid that was never used.
WriteStep(r, rec) ==
  /\ r \in Rid /\ rec \in Record /\ r \notin used /\ rec.from < rec.until
  /\ FitsHistory(r, rec)
  /\ byrid' = [byrid EXCEPT ![r] = rec] /\ acked' = [acked EXCEPT ![r] = rec]
  /\ used' = used \cup {r} /\ dead' = dead /\ kind' = kind

\* The open record of rid ends, and the one of new follows it.
SupersedeStep(rid, new, at) ==
  /\ rid \in Rid /\ new \in Rid /\ at \in Instant /\ MaySupersede(rid, new, at)
  /\ \E rec \in Record :
       /\ rec.from = at /\ rec.until = TOpen
       /\ byrid' = [byrid EXCEPT ![rid] = [byrid[rid] EXCEPT !.until = at], ![new] = rec]
       /\ acked' = [acked EXCEPT ![rid] = [acked[rid] EXCEPT !.until = at], ![new] = rec]
  /\ used' = used \cup {new} /\ dead' = dead /\ kind' = kind

DeleteStep(rids) ==
  /\ rids \subseteq {r \in Rid : acked[r] # Absent} /\ rids # {}
  /\ acked' = Less(acked, rids)
  /\ \/ Excises /\ byrid' = Less(byrid, rids) /\ dead' = dead
     \/ ~Excises /\ byrid' = byrid /\ dead' = dead \cup rids
  /\ used' = used /\ kind' = kind

CompactStep ==
  /\ ~Excises
  /\ byrid' = Less(byrid, dead) /\ dead' = {}
  /\ acked' = acked /\ used' = used /\ kind' = kind

\* What a step does to the records, whatever it does to the arrays.
LEMMA RecordSteps ==
  ASSUME IInv, Next
  PROVE  \/ \E r \in Rid, rec \in Record : WriteStep(r, rec)
         \/ \E rid, new \in Rid, at \in Instant : SupersedeStep(rid, new, at)
         \/ \E rids \in SUBSET Rid : DeleteStep(rids)
         \/ CompactStep
<1>1. ASSUME NEW r \in Rid, NEW rec \in Record,
             MayWrite(r), rec.from < rec.until, FitsHistory(r, rec), Write([x \in {r} |-> rec])
      PROVE  WriteStep(r, rec)
  <2>1. \A recs \in [Rid -> Record \cup {Absent}] :
          With(recs, [x \in {r} |-> rec]) = [recs EXCEPT ![r] = rec]
    BY DEF With
  <2>2. QED BY <1>1, <2>1 DEF IInv, RecordsOK, WriteStep, Write, MayWrite
<1>2. ASSUME NEW rid \in Rid, NEW new \in Rid, NEW at \in Instant,
             MaySupersede(rid, new, at), Supersede(rid, new, acked[rid].tenant, at)
      PROVE  SupersedeStep(rid, new, at)
  <2> DEFINE rec == [tenant |-> acked[rid].tenant, from |-> at, until |-> TOpen]
  <2>1. acked[rid] \in Record /\ byrid[rid] = acked[rid] /\ rid # new
    BY <1>2 DEF IInv, RecordsOK, RowOK, MaySupersede
  <2>2. rec \in Record /\ rec.from = at /\ rec.until = TOpen
    BY <2>1 DEF Record
  <2>3. Successor(new, acked[rid].tenant, at) = [x \in {new} |-> rec]
    BY DEF Successor
  <2> HIDE DEF rec
  <2>4. ASSUME NEW recs \in [Rid -> Record \cup {Absent}], recs[rid] # Absent
        PROVE  With(Closed(recs, rid, at), [x \in {new} |-> rec])
                 = [recs EXCEPT ![rid] = [recs[rid] EXCEPT !.until = at], ![new] = rec]
    BY <2>1, <2>4 DEF With, Closed
  <2>5. /\ byrid' = With(Closed(byrid, rid, at), [x \in {new} |-> rec])
        /\ acked' = With(Closed(acked, rid, at), [x \in {new} |-> rec])
        /\ used' = used \cup {new} /\ dead' = dead /\ kind' = kind
    BY <1>2, <2>3 DEF Supersede
  <2>6. byrid[rid] # Absent /\ acked[rid] # Absent
    BY <1>2, <2>1 DEF MaySupersede
  <2>7. /\ byrid' = [byrid EXCEPT ![rid] = [byrid[rid] EXCEPT !.until = at], ![new] = rec]
        /\ acked' = [acked EXCEPT ![rid] = [acked[rid] EXCEPT !.until = at], ![new] = rec]
    BY <2>4, <2>5, <2>6 DEF IInv, RecordsOK
  <2>8. QED BY <1>2, <2>2, <2>5, <2>7 DEF SupersedeStep
<1>3. ASSUME NEW rids \in SUBSET {r \in Rid : acked[r] # Absent}, rids # {}, Delete(rids)
      PROVE  rids \in SUBSET Rid /\ DeleteStep(rids)
  BY <1>3 DEF Delete, DeleteStep
<1>4. Compact => CompactStep
  BY DEF Compact, CompactStep
<1>5. QED BY <1>1, <1>2, <1>3, <1>4 DEF Next

-----------------------------------------------------------------------------
(* The invariant.                                                            *)

LEMMA ClosedRecord ==
  ASSUME NEW rec \in Record, NEW at \in Instant
  PROVE  /\ [rec EXCEPT !.until = at] \in Record
         /\ [rec EXCEPT !.until = at].from = rec.from
         /\ [rec EXCEPT !.until = at].until = at
         /\ [rec EXCEPT !.until = at] # Absent
  BY RecordAssumption DEF Record

\* Instants and the sentinel are numbers.
LEMMA RecordTimes ==
  ASSUME NEW rec \in Record
  PROVE  rec.from \in Instant /\ rec.from \in Nat /\ rec.until \in Nat /\ rec.from < TOpen
         /\ rec # Absent
  BY RecordAssumption DEF Record

LEMMA InitInv == Init => IInv
  BY DEF Init, IInv, RecordsOK, RowOK, HistoryOK, NoRecords

LEMMA WriteInv ==
  ASSUME IInv, NEW r \in Rid, NEW rec \in Record, WriteStep(r, rec)
  PROVE  IInv'
<1>1. RecordsOK'
  BY DEF WriteStep, IInv, RecordsOK
<1>2. Excises' => dead' = {}
  BY DEF WriteStep, IInv, Excises
<1>3. rec # Absent /\ r \notin dead
  BY RecordAssumption DEF WriteStep, IInv, RecordsOK
<1>4. \A s \in Rid : /\ s = r => byrid'[s] = rec /\ acked'[s] = rec
                     /\ s # r => byrid'[s] = byrid[s] /\ acked'[s] = acked[s]
  BY DEF WriteStep, IInv, RecordsOK
<1>5. \A s \in Rid : RowOK(s)'
  BY <1>3, <1>4 DEF WriteStep, IInv, RowOK
<1>6. HistoryOK'
  <2> SUFFICES ASSUME NEW s \in Rid, NEW v \in Rid, s # v, ChainOf[s] = ChainOf[v],
                      acked'[s] # Absent, acked'[v] # Absent
               PROVE  Apart(acked'[s], acked'[v])
    BY DEF HistoryOK
  <2>1. CASE s # r /\ v # r
    BY <1>4, <2>1 DEF IInv, HistoryOK
  <2>2. CASE s = r
    BY <1>4, <2>2 DEF WriteStep, FitsHistory
  <2>3. CASE v = r
    BY <1>4, <2>3 DEF WriteStep, FitsHistory, Apart
  <2>4. QED BY <2>1, <2>2, <2>3
<1>7. QED BY <1>1, <1>2, <1>5, <1>6 DEF IInv

\* What the records look like after a supersede.
LEMMA SupersedeFacts ==
  ASSUME IInv, NEW rid \in Rid, NEW new \in Rid, NEW at \in Instant,
         SupersedeStep(rid, new, at)
  PROVE  /\ rid # new /\ acked[rid] \in Record /\ acked[rid].until = TOpen
         /\ acked[rid].from <= at /\ byrid[rid] = acked[rid] /\ rid \notin dead
         /\ byrid[new] = Absent /\ acked[new] = Absent /\ new \notin dead
         /\ \E rec \in Record :
              /\ rec.from = at /\ rec.until = TOpen
              /\ \A s \in Rid :
                   /\ s = new => byrid'[s] = rec /\ acked'[s] = rec
                   /\ s = rid => /\ byrid'[s] = acked'[s] /\ acked'[s] \in Record
                                 /\ acked'[s].from = acked[rid].from /\ acked'[s].until = at
                   /\ s \notin {rid, new} => byrid'[s] = byrid[s] /\ acked'[s] = acked[s]
<1>1. /\ rid # new /\ acked[rid] # Absent /\ acked[rid].until = TOpen /\ acked[rid].from <= at
      /\ new \notin used
  BY DEF SupersedeStep, MaySupersede, MayWrite
<1>2. /\ acked[rid] \in Record /\ byrid[rid] = acked[rid] /\ rid \notin dead
      /\ byrid[new] = Absent /\ acked[new] = Absent /\ new \notin dead
  BY <1>1 DEF IInv, RecordsOK, RowOK
<1>3. PICK rec \in Record :
        /\ rec.from = at /\ rec.until = TOpen
        /\ byrid' = [byrid EXCEPT ![rid] = [byrid[rid] EXCEPT !.until = at], ![new] = rec]
        /\ acked' = [acked EXCEPT ![rid] = [acked[rid] EXCEPT !.until = at], ![new] = rec]
  BY DEF SupersedeStep
<1> DEFINE old == [acked[rid] EXCEPT !.until = at]
<1>4. old \in Record /\ old.from = acked[rid].from /\ old.until = at
  BY <1>2, ClosedRecord
<1>5. /\ byrid' = [byrid EXCEPT ![rid] = old, ![new] = rec]
      /\ acked' = [acked EXCEPT ![rid] = old, ![new] = rec]
  BY <1>2, <1>3
<1> HIDE DEF old
<1>6. \A s \in Rid : /\ s = new => byrid'[s] = rec /\ acked'[s] = rec
                     /\ s = rid => byrid'[s] = old /\ acked'[s] = old
                     /\ s \notin {rid, new} => byrid'[s] = byrid[s] /\ acked'[s] = acked[s]
  BY <1>1, <1>5 DEF IInv, RecordsOK
<1>7. \A s \in Rid :
        /\ s = new => byrid'[s] = rec /\ acked'[s] = rec
        /\ s = rid => /\ byrid'[s] = acked'[s] /\ acked'[s] \in Record
                      /\ acked'[s].from = acked[rid].from /\ acked'[s].until = at
        /\ s \notin {rid, new} => byrid'[s] = byrid[s] /\ acked'[s] = acked[s]
  BY <1>4, <1>6
<1>8. rec \in Record /\ rec.from = at /\ rec.until = TOpen
  BY <1>3
<1>9. QED BY <1>1, <1>2, <1>7, <1>8

LEMMA SupersedeInv ==
  ASSUME IInv, NEW rid \in Rid, NEW new \in Rid, NEW at \in Instant,
         SupersedeStep(rid, new, at)
  PROVE  IInv'
<1>1. /\ rid # new /\ acked[rid] \in Record /\ acked[rid].until = TOpen
      /\ acked[rid].from <= at /\ rid \notin dead /\ new \notin dead
  BY SupersedeFacts
<1>2. PICK rec \in Record :
        /\ rec.from = at /\ rec.until = TOpen
        /\ \A s \in Rid :
             /\ s = new => byrid'[s] = rec /\ acked'[s] = rec
             /\ s = rid => /\ byrid'[s] = acked'[s] /\ acked'[s] \in Record
                           /\ acked'[s].from = acked[rid].from /\ acked'[s].until = at
             /\ s \notin {rid, new} => byrid'[s] = byrid[s] /\ acked'[s] = acked[s]
  BY SupersedeFacts
<1>3. RecordsOK'
  <2>1. \E f, g : byrid' = [byrid EXCEPT ![rid] = f, ![new] = rec]
                  /\ acked' = [acked EXCEPT ![rid] = g, ![new] = rec]
    <3>1. PICK q \in Record :
            /\ byrid' = [byrid EXCEPT ![rid] = [byrid[rid] EXCEPT !.until = at], ![new] = q]
            /\ acked' = [acked EXCEPT ![rid] = [acked[rid] EXCEPT !.until = at], ![new] = q]
      BY DEF SupersedeStep
    <3>2. q = rec
      BY <1>2, <3>1 DEF IInv, RecordsOK
    <3>3. QED BY <3>1, <3>2
  <2>2. \A s \in Rid : byrid'[s] \in Record \cup {Absent} /\ acked'[s] \in Record \cup {Absent}
    BY <1>2 DEF IInv, RecordsOK
  <2>3. QED BY <2>1, <2>2 DEF IInv, RecordsOK, SupersedeStep
<1>4. Excises' => dead' = {}
  BY DEF SupersedeStep, IInv, Excises
<1>5. Absent \notin Record
  BY RecordAssumption
<1>6. \A s \in Rid : RowOK(s)'
  <2> SUFFICES ASSUME NEW s \in Rid PROVE RowOK(s)'
    OBVIOUS
  <2>1. dead' = dead /\ used' = used \cup {new} /\ RowOK(s) /\ RowOK(rid)
    BY DEF SupersedeStep, IInv
  <2>2. CASE s \in {rid, new}
    BY <1>1, <1>2, <1>5, <2>1, <2>2 DEF RowOK
  <2>3. CASE s \notin {rid, new}
    BY <1>2, <2>1, <2>3 DEF RowOK
  <2>4. QED BY <2>2, <2>3
<1>7. HistoryOK'
  <2>1. ASSUME NEW s \in Rid, s \notin {rid, new}, ChainOf[s] = ChainOf[rid], acked[s] # Absent
        PROVE  acked[s].until <= acked[rid].from /\ acked[s].until <= at
    <3>1. Apart(acked[s], acked[rid]) /\ acked[s] \in Record
      BY <1>1, <1>5, <2>1 DEF IInv, HistoryOK, RecordsOK
    <3>2. QED BY <1>1, <3>1, RecordTimes, RecordAssumption DEF Apart
  <2>2. ChainOf[rid] = ChainOf[new]
    BY DEF SupersedeStep, MaySupersede
  <2> SUFFICES ASSUME NEW s \in Rid, NEW v \in Rid, s # v, ChainOf[s] = ChainOf[v],
                      acked'[s] # Absent, acked'[v] # Absent
               PROVE  Apart(acked'[s], acked'[v])
    BY DEF HistoryOK
  <2>3. CASE s \notin {rid, new} /\ v \notin {rid, new}
    BY <1>2, <2>3 DEF IInv, HistoryOK
  <2>4. CASE s \in {rid, new} /\ v \notin {rid, new}
    BY <1>2, <2>1, <2>2, <2>4 DEF Apart
  <2>5. CASE s \notin {rid, new} /\ v \in {rid, new}
    BY <1>2, <2>1, <2>2, <2>5 DEF Apart
  <2>6. CASE s \in {rid, new} /\ v \in {rid, new}
    <3>1. at <= at
      BY RecordAssumption
    <3>2. QED BY <1>2, <2>6, <3>1 DEF Apart
  <2>7. QED BY <2>3, <2>4, <2>5, <2>6
<1>8. QED BY <1>3, <1>4, <1>6, <1>7 DEF IInv

LEMMA DeleteInv ==
  ASSUME IInv, NEW rids \in SUBSET Rid, DeleteStep(rids)
  PROVE  IInv'
<1>1. \A r \in Rid : acked'[r] = IF r \in rids THEN Absent ELSE acked[r]
  BY DEF DeleteStep, Less
<1>2. RecordsOK'
  <2>1. \A r \in rids : byrid[r] # Absent
    BY DEF DeleteStep, IInv, RowOK
  <2>2. rids \subseteq used
    BY <2>1 DEF IInv, RowOK
  <2>3. QED BY <2>2 DEF DeleteStep, Less, IInv, RecordsOK
<1>3. Excises' => dead' = {}
  BY DEF DeleteStep, IInv, Excises
<1>4. ASSUME NEW r \in Rid PROVE RowOK(r)'
  <2>1. RowOK(r)
    BY DEF IInv
  <2>2. CASE Excises /\ byrid' = Less(byrid, rids) /\ dead' = dead
    BY <1>1, <2>1, <2>2 DEF RowOK, Less, DeleteStep
  <2>3. CASE ~Excises /\ byrid' = byrid /\ dead' = dead \cup rids
    BY <1>1, <2>1, <2>3 DEF RowOK, DeleteStep
  <2>4. QED BY <2>2, <2>3 DEF DeleteStep
<1>5. HistoryOK'
  BY <1>1 DEF HistoryOK, IInv
<1>6. QED BY <1>2, <1>3, <1>4, <1>5 DEF IInv

LEMMA CompactInv ==
  ASSUME IInv, CompactStep
  PROVE  IInv'
<1>1. RecordsOK' /\ (Excises' => dead' = {}) /\ HistoryOK'
  BY DEF CompactStep, IInv, RecordsOK, Less, HistoryOK
<1>2. ASSUME NEW r \in Rid PROVE RowOK(r)'
  BY DEF CompactStep, IInv, RowOK, Less
<1>3. QED BY <1>1, <1>2 DEF IInv

LEMMA InvStep == IInv /\ [Next]_vars => IInv'
<1>1. ASSUME IInv, UNCHANGED vars PROVE IInv'
  BY <1>1 DEF vars, store, IInv, RecordsOK, RowOK, HistoryOK, Excises
<1>2. ASSUME IInv, Next PROVE IInv'
  BY <1>2, RecordSteps, WriteInv, SupersedeInv, DeleteInv, CompactInv
<1>3. QED BY <1>1, <1>2

\* What the record map, the tombstones and the caller's own history say of a rid.
THEOREM Invariance == Spec => []IInv
  BY InitInv, InvStep, PTL DEF Spec

\* The self-report of all four classes is right about every rid, before and
\* after compaction.
THEOREM AuditIsTruthful == Spec => []AuditTruthful
<1>1. IInv => AuditTruthful
  BY DEF IInv, RowOK, AuditTruthful, Audit
<1>2. QED BY <1>1, Invariance, PTL

-----------------------------------------------------------------------------
(* The refinement.                                                           *)

Validity(rec) == [from |-> rec.from, until |-> rec.until]

Told == [r \in Rid |-> IF acked[r] = Absent THEN Absent ELSE Validity(acked[r])]

LEMMA ValidityFacts ==
  ASSUME NEW rec \in Record
  PROVE  /\ Validity(rec) \in Store!Interval /\ Validity(rec) # Absent
         /\ Validity(rec).from = rec.from /\ Validity(rec).until = rec.until
<1>1. Validity(rec) \in Store!Interval
  BY DEF Record, Validity, Store!Interval
<1>2. Absent \notin Store!Interval
  BY RecordAssumption DEF Store!Interval
<1>3. QED BY <1>1, <1>2 DEF Validity

\* What is visible is what the caller was told.
LEMMA MapIsHistory == IInv => Visible = Told
<1> SUFFICES ASSUME IInv, NEW r \in Rid PROVE Visible[r] = Told[r]
  BY DEF Visible, Told
<1>1. RowOK(r)
  BY DEF IInv
<1>2. QED BY <1>1 DEF Visible, Told, Validity, Audit, RowOK

\* What the caller was told is a history of the abstract store.
ToldTyped ==
  /\ Told \in [Rid -> Store!Interval \cup {Absent}]
  /\ \A r \in Rid : /\ acked[r] \in Record \cup {Absent}
                    /\ Told[r] = Absent <=> acked[r] = Absent
                    /\ acked[r] # Absent => /\ Told[r] = Validity(acked[r])
                                            /\ Told[r].from = acked[r].from
                                            /\ Told[r].until = acked[r].until

\* Stored versions of one chain are apart as the store sees them.
ToldApart ==
  \A r, s \in Rid :
    r # s /\ ChainOf[r] = ChainOf[s] /\ Told[r] # Absent /\ Told[s] # Absent
      => Store!Apart(Told[r], Told[s])

VisibleIsTold == Visible = Told

LEMMA ToldFacts == IInv => ToldTyped /\ ToldApart /\ VisibleIsTold
<1> SUFFICES ASSUME IInv PROVE ToldTyped /\ ToldApart /\ VisibleIsTold
  OBVIOUS
<1>1. \A r \in Rid : acked[r] \in Record \cup {Absent}
  BY DEF IInv, RecordsOK
<1>2. \A r \in Rid : acked[r] # Absent => /\ Validity(acked[r]) \in Store!Interval
                                          /\ Validity(acked[r]) # Absent
                                          /\ Validity(acked[r]).from = acked[r].from
                                          /\ Validity(acked[r]).until = acked[r].until
  BY <1>1, ValidityFacts
<1>3. ToldTyped
  BY <1>1, <1>2 DEF Told, ToldTyped
<1>4. ToldApart
  <2> SUFFICES ASSUME NEW r \in Rid, NEW s \in Rid, r # s, ChainOf[r] = ChainOf[s],
                      Told[r] # Absent, Told[s] # Absent
               PROVE  Store!Apart(Told[r], Told[s])
    BY DEF ToldApart
  <2>1. acked[r] # Absent /\ acked[s] # Absent
    BY <1>3 DEF ToldTyped
  <2>2. Apart(acked[r], acked[s])
    BY <2>1 DEF IInv, HistoryOK
  <2>3. QED BY <1>3, <2>1, <2>2 DEF Apart, Store!Apart, ToldTyped
<1>5. QED BY <1>3, <1>4, MapIsHistory DEF VisibleIsTold

\* The new versions of a step are clear of their chains after it.
LEMMA NewIsApart ==
  ASSUME ToldApart', Visible' = Told', NEW r \in Rid, Told'[r] # Absent
  PROVE  \A s \in Store!Versions(r)' : Store!Apart(Visible'[r], Visible'[s])
  BY DEF ToldApart, Store!Versions

LEMMA WriteRefines ==
  ASSUME IInv, ToldTyped, Visible = Told, ToldTyped', ToldApart', Visible' = Told',
         NEW r \in Rid, NEW rec \in Record, WriteStep(r, rec)
  PROVE  Store!Load({r})
<1>1. acked[r] = Absent /\ rec # Absent
  BY RecordTimes DEF WriteStep, IInv, RowOK, RecordsOK
<1>2. \A s \in Rid : /\ s = r => acked'[s] = rec
                     /\ s # r => acked'[s] = acked[s]
  BY DEF WriteStep, IInv, RecordsOK
<1>3. Told[r] = Absent /\ Told'[r] # Absent
  BY <1>1, <1>2 DEF ToldTyped
<1>4. \A s \in Rid : s # r => Told'[s] = Told[s]
  BY <1>2 DEF Told
<1>5. \A s \in Store!Versions(r)' : Store!Apart(Visible'[r], Visible'[s])
  BY <1>3, NewIsApart
<1>6. QED BY <1>3, <1>4, <1>5 DEF Store!Load, ToldTyped

LEMMA SupersedeRefines ==
  ASSUME IInv, ToldTyped, Visible = Told, ToldTyped', ToldApart', Visible' = Told',
         NEW rid \in Rid, NEW new \in Rid, NEW at \in Instant, SupersedeStep(rid, new, at)
  PROVE  Store!Replace(rid, new, at)
<1>1. /\ rid # new /\ acked[rid] \in Record /\ acked[rid].until = TOpen
      /\ acked[rid].from <= at /\ acked[new] = Absent
  BY SupersedeFacts
<1>2. PICK rec \in Record :
        /\ rec.from = at /\ rec.until = TOpen
        /\ \A s \in Rid :
             /\ s = new => acked'[s] = rec
             /\ s = rid => /\ acked'[s] \in Record
                           /\ acked'[s].from = acked[rid].from /\ acked'[s].until = at
             /\ s \notin {rid, new} => acked'[s] = acked[s]
  BY SupersedeFacts
<1>3. acked[rid] # Absent /\ acked'[rid] # Absent /\ rec # Absent
  BY <1>1, <1>2, RecordAssumption
<1>4. /\ Told[rid] # Absent /\ Told[rid].until = TOpen /\ Told[rid].from <= at
      /\ Told[rid] = [from |-> acked[rid].from, until |-> TOpen] /\ Told[new] = Absent
  BY <1>1, <1>3 DEF ToldTyped, Validity
<1>5. Told'[new] = [from |-> at, until |-> TOpen] /\ Told'[new] # Absent
  BY <1>2, <1>3 DEF ToldTyped, Validity
<1>6. Told'[rid] = [Told[rid] EXCEPT !.until = at]
  <2>1. Told'[rid] = [from |-> acked[rid].from, until |-> at]
    BY <1>2, <1>3 DEF ToldTyped, Validity
  <2>2. QED BY <1>4, <2>1
<1>7. \A s \in Rid : s \notin {rid, new} => Told'[s] = Told[s]
  BY <1>2 DEF Told
<1>8. Told' = [Told EXCEPT ![rid] = [Told[rid] EXCEPT !.until = at],
                           ![new] = [from |-> at, until |-> TOpen]]
  <2> DEFINE old == [Told[rid] EXCEPT !.until = at]
             succ == [from |-> at, until |-> TOpen]
  <2> HIDE DEF old, succ
  <2>1. Told' = [Told EXCEPT ![rid] = old, ![new] = succ]
    BY <1>1, <1>5, <1>6, <1>7 DEF ToldTyped, old, succ
  <2>2. QED BY <2>1 DEF old, succ
<1>9. \A s \in Store!Versions(new)' : Store!Apart(Visible'[new], Visible'[s])
  BY <1>5, NewIsApart
<1>10. QED BY <1>1, <1>4, <1>8, <1>9 DEF Store!Replace

LEMMA DeleteRefines ==
  ASSUME ToldTyped, Visible = Told, Visible' = Told', NEW rids \in SUBSET Rid, DeleteStep(rids)
  PROVE  rids # {} /\ Store!Forget(rids)
<1>1. rids # {} /\ \A r \in rids : Told[r] # Absent
  BY DEF DeleteStep, ToldTyped
<1>2. \A r \in Rid : acked'[r] = IF r \in rids THEN Absent ELSE acked[r]
  BY DEF DeleteStep, Less
<1>3. Told' = [r \in Rid |-> IF r \in rids THEN Absent ELSE Told[r]]
  BY <1>2 DEF Told
<1>4. QED BY <1>1, <1>3 DEF Store!Forget

LEMMA StepRefines ==
  ASSUME IInv, [Next]_vars
  PROVE  [Store!Next]_Visible
<1>1. ToldTyped /\ Visible = Told
  BY ToldFacts DEF VisibleIsTold
<1>2. ToldTyped' /\ ToldApart' /\ Visible' = Told'
  <2>1. IInv'
    BY InvStep
  <2>2. ToldTyped' /\ ToldApart' /\ VisibleIsTold'
    BY <2>1, ToldFacts, PTL
  <2>3. QED BY <2>2 DEF VisibleIsTold
<1> SUFFICES ASSUME Visible' # Visible PROVE Store!Next
  OBVIOUS
<1>3. Next
  BY DEF vars, store, Visible, Audit
<1>4. CASE \E r \in Rid, rec \in Record : WriteStep(r, rec)
  <2>1. PICK r \in Rid, rec \in Record : WriteStep(r, rec)
    BY <1>4
  <2>2. Store!Load({r}) /\ {r} \in (SUBSET Rid) \ {{}}
    BY <1>1, <1>2, <2>1, WriteRefines
  <2>3. QED BY <2>2 DEF Store!Next
<1>5. CASE \E rid, new \in Rid, at \in Instant : SupersedeStep(rid, new, at)
  BY <1>1, <1>2, <1>5, SupersedeRefines DEF Store!Next
<1>6. CASE \E rids \in SUBSET Rid : DeleteStep(rids)
  <2>1. PICK rids \in SUBSET Rid : DeleteStep(rids)
    BY <1>6
  <2>2. Store!Forget(rids) /\ rids \in (SUBSET Rid) \ {{}}
    BY <1>1, <1>2, <2>1, DeleteRefines
  <2>3. QED BY <2>2 DEF Store!Next
<1>7. CASE CompactStep
  <2>1. Told' = Told
    BY <1>7 DEF CompactStep, Told
  <2>2. QED BY <1>1, <1>2, <2>1
<1>8. QED BY <1>3, <1>4, <1>5, <1>6, <1>7, RecordSteps

\* Each of the four classes implements the version store with its records and
\* its tombstones, compaction being no step of it; the two that leak do so in
\* what they return, not in what they store.
THEOREM ImplementsStore == Spec => StoreSpec
<1>1. Init => Store!Init
  BY DEF Init, Store!Init, Visible, Audit, NoRecords
<1>2. IInv /\ [Next]_vars => [Store!Next]_Visible
  BY StepRefines
<1>3. QED BY <1>1, <1>2, Invariance, PTL DEF Spec, StoreSpec, Store!Spec

-----------------------------------------------------------------------------
(* The arrays.                                                               *)

Entry == [rid : Rid, tenant : Tenant]

\* Entry by entry, and no rid twice.
ArrTyped ==
  /\ arr \in Seq(Entry)
  /\ \A i, j \in DOMAIN arr : arr[i].rid = arr[j].rid => i = j

\* The positions to keep are counted through, in their order.
LEMMA Positions ==
  ASSUME NEW m \in Nat, NEW keep \in SUBSET (1 .. m)
  PROVE  /\ Cardinality(keep) \in Nat
         /\ \A n \in 1 .. Cardinality(keep) : NthOf(keep, n) \in keep
         /\ \A n, o \in 1 .. Cardinality(keep) : NthOf(keep, n) = NthOf(keep, o) => n = o
         /\ \A i \in keep : \E n \in 1 .. Cardinality(keep) : NthOf(keep, n) = i
<1> DEFINE UpTo(i) == {j \in keep : j <= i}
           size == Cardinality(keep)
           rank == [i \in keep |-> Cardinality(UpTo(i))]
<1>1. IsFiniteSet(keep) /\ size \in Nat
  <2>1. IsFiniteSet(1 .. m)
    BY FS_Interval
  <2>2. QED BY <2>1, FS_Subset, FS_CardinalityType
<1>2. ASSUME NEW i \in keep
      PROVE  /\ IsFiniteSet(UpTo(i)) /\ Cardinality(UpTo(i)) \in 1 .. size
  <2>1. UpTo(i) \in SUBSET keep /\ i \in UpTo(i)
    OBVIOUS
  <2>2. IsFiniteSet(UpTo(i)) /\ Cardinality(UpTo(i)) <= size
    BY <1>1, <2>1, FS_Subset
  <2>3. Cardinality(UpTo(i)) \in Nat /\ Cardinality(UpTo(i)) # 0
    BY <2>1, <2>2, FS_CardinalityType, FS_EmptySet
  <2>4. QED BY <1>1, <2>2, <2>3
<1>3. ASSUME NEW i \in keep, NEW j \in keep, rank[i] = rank[j]
      PROVE  i = j
  <2>1. ASSUME NEW a \in keep, NEW b \in keep, a < b, rank[a] = rank[b]
        PROVE  FALSE
    <3>1. UpTo(a) \in SUBSET UpTo(b) /\ b \in UpTo(b) /\ b \notin UpTo(a)
      <4>1. a \in Nat /\ b \in Nat /\ \A x \in keep : x \in Nat
        OBVIOUS
      <4>2. \A x \in keep : x <= a => x <= b
        BY <2>1, <4>1
      <4>3. b <= b /\ ~(b <= a)
        BY <2>1, <4>1
      <4> HIDE DEF rank
      <4>4. QED BY <4>2, <4>3
    <3>2. Cardinality(UpTo(b)) = Cardinality(UpTo(a))
      BY <2>1
    <3> HIDE DEF UpTo
    <3>3. UpTo(b) = UpTo(a)
      BY <1>2, <3>1, <3>2, FS_Subset
    <3>4. QED BY <3>1, <3>3
  <2>2. QED BY <1>3, <2>1
<1>4. rank \in [keep -> 1 .. size]
  BY <1>2
<1> HIDE DEF rank
<1>5. rank \in Surjection(keep, 1 .. size)
  <2>1. IsFiniteSet(1 .. size) /\ Cardinality(1 .. size) = size
    BY <1>1, FS_Interval
  <2>2. rank \in Injection(keep, 1 .. size)
    BY <1>3, <1>4, Fun_IsInj
  <2>3. QED BY <2>1, <2>2, FS_Injection
<1>6. \A n \in 1 .. size : \E i \in keep : rank[i] = n
  BY <1>5, Fun_SurjectionProperties
<1>7. \A n : NthOf(keep, n) = CHOOSE i \in keep : rank[i] = n
  BY DEF NthOf, rank
<1>8. \A n \in 1 .. size : NthOf(keep, n) \in keep /\ rank[NthOf(keep, n)] = n
  BY <1>6, <1>7
<1>9. \A i \in keep : NthOf(keep, rank[i]) = i
  BY <1>3, <1>4, <1>8
<1>10. QED BY <1>1, <1>4, <1>8, <1>9

\* What is left of the arrays when entries are taken out.
LEMMA Filtered ==
  ASSUME ArrTyped, NEW rids
  PROVE  /\ Spared(rids) \in Seq(Entry)
         /\ \A i, j \in DOMAIN Spared(rids) : Spared(rids)[i].rid = Spared(rids)[j].rid => i = j
         /\ \A i \in DOMAIN Spared(rids) :
              \E j \in DOMAIN arr : Spared(rids)[i] = arr[j] /\ arr[j].rid \notin rids
         /\ \A j \in DOMAIN arr : arr[j].rid \notin rids
              => \E i \in DOMAIN Spared(rids) : Spared(rids)[i] = arr[j]
<1> DEFINE keep == {i \in DOMAIN arr : arr[i].rid \notin rids}
           size == Cardinality(keep)
           left == Spared(rids)
<1>1. PICK m \in Nat : m = Len(arr) /\ DOMAIN arr = 1 .. m
  BY LenProperties DEF ArrTyped
<1>2. /\ size \in Nat
      /\ \A n \in 1 .. size : NthOf(keep, n) \in keep
      /\ \A n, o \in 1 .. size : NthOf(keep, n) = NthOf(keep, o) => n = o
      /\ \A i \in keep : \E n \in 1 .. size : NthOf(keep, n) = i
  <2>1. keep \in SUBSET (1 .. m)
    BY <1>1
  <2> HIDE DEF keep
  <2>2. QED BY <2>1, Positions
<1>3. left = [n \in 1 .. size |-> arr[NthOf(keep, n)]]
  BY DEF Spared
<1>4. \A i \in keep : i \in DOMAIN arr /\ arr[i].rid \notin rids /\ arr[i] \in Entry
  BY <1>1, ElementOfSeq, LenProperties DEF ArrTyped
<1>5. \A i \in DOMAIN arr : arr[i].rid \notin rids => i \in keep
  OBVIOUS
<1>6. \A i, j \in keep : arr[i].rid = arr[j].rid => i = j
  BY DEF ArrTyped
<1> HIDE DEF keep, size, left
<1>7. DOMAIN left = 1 .. size /\ \A n \in 1 .. size : left[n] = arr[NthOf(keep, n)]
  BY <1>3
<1>8. left \in Seq(Entry)
  <2>1. left \in [1 .. size -> Entry]
    BY <1>2, <1>3, <1>4
  <2>2. QED BY <1>2, <2>1, SeqDef
<1>9. \A i, j \in DOMAIN left : left[i].rid = left[j].rid => i = j
  BY <1>2, <1>6, <1>7
<1>10. \A i \in DOMAIN left : \E j \in DOMAIN arr : left[i] = arr[j] /\ arr[j].rid \notin rids
  BY <1>2, <1>4, <1>7
<1>11. \A j \in DOMAIN arr : arr[j].rid \notin rids => \E i \in DOMAIN left : left[i] = arr[j]
  BY <1>2, <1>5, <1>7
<1>12. QED BY <1>8, <1>9, <1>10, <1>11 DEF left

\* The entries of records are one of each.
LEMMA EntriesOf ==
  ASSUME NEW D \in SUBSET Rid, IsFiniteSet(D), NEW recs \in [D -> Record]
  PROVE  /\ Entries(recs) \in Seq(Entry)
         /\ \A i, j \in DOMAIN Entries(recs) : Entries(recs)[i].rid = Entries(recs)[j].rid => i = j
         /\ \A i \in DOMAIN Entries(recs) :
              /\ Entries(recs)[i].rid \in D
              /\ Entries(recs)[i].tenant = recs[Entries(recs)[i].rid].tenant
         /\ \A r \in D : \E i \in DOMAIN Entries(recs) : Entries(recs)[i].rid = r
<1> DEFINE rids == SetToSeq(D)
           size == Cardinality(D)
           new == Entries(recs)
<1>1. /\ size \in Nat /\ rids \in [1 .. size -> D]
      /\ \A i, j \in 1 .. size : rids[i] = rids[j] => i = j
  <2>1. size \in Nat /\ ExistsBijection(1 .. size, D)
    BY FS_CardinalityType
  <2> DEFINE index == 1 .. size
  <2> HIDE DEF size, rids, index
  <2>2. PICK f : f \in Bijection(index, D)
    BY <2>1, Fun_ExistsBij DEF index
  <2>3. f \in [index -> D] /\ \A i, j \in index : f[i] = f[j] => i = j
    BY <2>2, Fun_BijectionProperties
  <2>4. \A g \in [index -> D] :
          IsInjective(g) <=> \A i, j \in index : g[i] = g[j] => i = j
    BY DEF IsInjective
  <2>5. \E g \in [index -> D] : IsInjective(g)
    BY <2>3, <2>4
  <2>6. rids \in [index -> D] /\ IsInjective(rids)
    BY <2>5 DEF SetToSeq, rids, size, index
  <2>7. QED BY <2>1, <2>4, <2>6 DEF index
<1>2. \A r \in D : \E i \in 1 .. size : rids[i] = r
  <2> DEFINE index == 1 .. size
  <2>1. IsFiniteSet(index) /\ Cardinality(index) = Cardinality(D)
    BY <1>1, FS_Interval
  <2> HIDE DEF size, rids, index
  <2>2. rids \in Injection(index, D)
    BY <1>1, Fun_IsInj DEF index
  <2>3. rids \in Surjection(index, D)
    BY <2>1, <2>2, FS_Injection
  <2>4. \A r \in D : \E i \in index : rids[i] = r
    BY <2>3, Fun_SurjectionProperties
  <2>5. QED BY <2>4 DEF index
<1>3. new = [i \in 1 .. size |-> [rid |-> rids[i], tenant |-> recs[rids[i]].tenant]]
  <2>1. DOMAIN recs = D /\ DOMAIN rids = 1 .. size
    BY <1>1
  <2>2. QED BY <2>1 DEF Entries
<1> HIDE DEF rids, size, new
<1>4. \A i \in 1 .. size : /\ new[i].rid = rids[i] /\ new[i].tenant = recs[rids[i]].tenant
                           /\ rids[i] \in D /\ new[i] \in Entry
  BY <1>1, <1>3 DEF Entry, Record
<1>5. DOMAIN new = 1 .. size
  BY <1>3
<1>6. new \in Seq(Entry)
  <2>1. new \in [1 .. size -> Entry]
    BY <1>3, <1>4
  <2>2. QED BY <1>1, <2>1, SeqDef
<1>7. QED BY <1>1, <1>2, <1>4, <1>5, <1>6 DEF new

\* What the arrays are after records with new rids are appended.
LEMMA Grown ==
  ASSUME ArrTyped, NEW new \in Seq(Entry),
         \A i, j \in DOMAIN new : new[i].rid = new[j].rid => i = j,
         \A i \in DOMAIN arr, j \in DOMAIN new : arr[i].rid # new[j].rid
  PROVE  /\ arr \o new \in Seq(Entry)
         /\ \A i, j \in DOMAIN (arr \o new) : (arr \o new)[i].rid = (arr \o new)[j].rid => i = j
         /\ \A i \in DOMAIN (arr \o new) :
              \/ \E j \in DOMAIN arr : (arr \o new)[i] = arr[j]
              \/ \E j \in DOMAIN new : (arr \o new)[i] = new[j]
         /\ \A j \in DOMAIN arr : \E i \in DOMAIN (arr \o new) : (arr \o new)[i] = arr[j]
         /\ \A j \in DOMAIN new : \E i \in DOMAIN (arr \o new) : (arr \o new)[i] = new[j]
<1>1. PICK m \in Nat : m = Len(arr) /\ DOMAIN arr = 1 .. m
  BY LenProperties DEF ArrTyped
<1>2. PICK n \in Nat : n = Len(new) /\ DOMAIN new = 1 .. n
  BY LenProperties
<1> DEFINE s == arr \o new
<1>3. /\ s \in Seq(Entry) /\ Len(s) = m + n
      /\ \A i \in 1 .. m + n : s[i] = IF i <= m THEN arr[i] ELSE new[i - m]
  BY <1>1, <1>2, ConcatProperties DEF ArrTyped
<1> HIDE DEF s
<1>4. DOMAIN s = 1 .. m + n
  BY <1>3, LenProperties
<1>5. ASSUME NEW i \in DOMAIN s
      PROVE  \/ i \in DOMAIN arr /\ s[i] = arr[i]
             \/ i - m \in DOMAIN new /\ s[i] = new[i - m] /\ i \in Nat
  <2>1. i \in Nat /\ 1 <= i /\ i <= m + n /\ s[i] = IF i <= m THEN arr[i] ELSE new[i - m]
    BY <1>3, <1>4
  <2>2. i <= m => i \in DOMAIN arr
    BY <1>1, <2>1
  <2>3. ~(i <= m) => i - m \in DOMAIN new
    BY <1>2, <2>1
  <2>4. QED BY <2>1, <2>2, <2>3
<1>6. \A j \in DOMAIN arr : j \in DOMAIN s /\ s[j] = arr[j]
  BY <1>1, <1>3, <1>4
<1>7. ASSUME NEW j \in DOMAIN new PROVE m + j \in DOMAIN s /\ s[m + j] = new[j]
  <2>1. m + j \in 1 .. m + n /\ ~(m + j <= m) /\ (m + j) - m = j
    BY <1>1, <1>2
  <2>2. QED BY <1>3, <1>4, <2>1
<1>8. ASSUME NEW i \in DOMAIN s, NEW j \in DOMAIN s, s[i].rid = s[j].rid
      PROVE  i = j
  <2>1. CASE i \in DOMAIN arr /\ s[i] = arr[i] /\ j \in DOMAIN arr /\ s[j] = arr[j]
    BY <1>8, <2>1 DEF ArrTyped
  <2>2. CASE /\ i - m \in DOMAIN new /\ s[i] = new[i - m] /\ i \in Nat
             /\ j - m \in DOMAIN new /\ s[j] = new[j - m] /\ j \in Nat
    <3>1. i - m = j - m
      BY <1>8, <2>2
    <3>2. QED BY <1>1, <2>2, <3>1
  <2>3. QED BY <1>5, <1>8, <2>1, <2>2
<1>9. QED BY <1>3, <1>5, <1>6, <1>7, <1>8 DEF s

-----------------------------------------------------------------------------
(* Reads.                                                                    *)

\* The rids of the entries that a read considers.
Considered(tenant, t) == {arr[i].rid : i \in {j \in DOMAIN arr : Seen(j, tenant, t)}}

\* A read returns the top k of what it considers, although it ranks entries:
\* there are as many entries nearer than one as there are nearer rids.
LEMMA RetrieveIsTopK ==
  ASSUME ArrTyped, NEW q, NEW k, NEW tenant, NEW t
  PROVE  Retrieve(q, k, tenant, t) = TopK(Considered(tenant, t), q, k)
<1> DEFINE S == {i \in DOMAIN arr : Seen(i, tenant, t)}
           E == Considered(tenant, t)
           rank == [i \in DOMAIN arr |-> q[arr[i].rid]]
           nearer(i) == {j \in S : rank[j] < rank[i]}
           below(r) == {s \in E : q[s] < q[r]}
<1>1. S \subseteq DOMAIN arr /\ E = {arr[i].rid : i \in S}
  BY DEF Considered
<1>2. IsFiniteSet(S)
  <2>1. DOMAIN arr = 1 .. Len(arr) /\ Len(arr) \in Nat
    BY LenProperties DEF ArrTyped
  <2>2. IsFiniteSet(1 .. Len(arr))
    BY <2>1, FS_Interval
  <2>3. S \in SUBSET (1 .. Len(arr))
    BY <2>1
  <2> HIDE DEF S
  <2>4. QED BY <2>2, <2>3, FS_Subset
<1>3. \A i, j \in S : arr[i].rid = arr[j].rid => i = j
  BY DEF ArrTyped
<1> HIDE DEF S, E
<1>4. ASSUME NEW i \in S
      PROVE  Cardinality(nearer(i)) = Cardinality(below(arr[i].rid))
  <2> DEFINE A == nearer(i)
             B == below(arr[i].rid)
             f == [j \in A |-> arr[j].rid]
  <2>1. \A j \in S : rank[j] = q[arr[j].rid]
    BY <1>1
  <2> HIDE DEF rank
  <2>2. f \in [A -> B]
    BY <1>1, <2>1
  <2>3. \A a, b \in A : f[a] = f[b] => a = b
    BY <1>3
  <2>4. \A s \in B : \E j \in A : f[j] = s
    BY <1>1, <2>1
  <2>5. IsFiniteSet(A)
    <3>1. A \in SUBSET S
      OBVIOUS
    <3>2. QED BY <1>2, <3>1, FS_Subset
  <2> HIDE DEF A, B, f
  <2>6. f \in Bijection(A, B)
    BY <2>2, <2>3, <2>4, Fun_IsBij
  <2>7. ExistsBijection(A, B)
    BY <2>6, Fun_ExistsBij
  <2>8. Cardinality(B) = Cardinality(A)
    BY <2>5, <2>7, FS_Bijection
  <2>9. QED BY <2>8 DEF A, B
<1>5. TopK(S, rank, k) = {i \in S : Cardinality(nearer(i)) < k}
  BY DEF TopK
<1>6. TopK(E, q, k) = {r \in E : Cardinality(below(r)) < k}
  BY DEF TopK
<1>7. Retrieve(q, k, tenant, t) = {arr[i].rid : i \in TopK(S, rank, k)}
  BY DEF Retrieve, S
<1> HIDE DEF rank, nearer, below
<1>8. QED BY <1>1, <1>4, <1>5, <1>6, <1>7 DEF E

-----------------------------------------------------------------------------
(* What the arrays have of the records.                                      *)

\* Every record the caller holds has its entry, with its tenant; any other
\* entry is behind a tombstone.
EntriesOK ==
  /\ \A i \in DOMAIN arr :
       /\ arr[i].rid \in used
       /\ acked[arr[i].rid] # Absent \/ arr[i].rid \in dead
       /\ acked[arr[i].rid] # Absent => arr[i].tenant = acked[arr[i].rid].tenant
  /\ \A r \in Rid : acked[r] # Absent => \E i \in DOMAIN arr : arr[i].rid = r

ArrOK == ArrTyped /\ EntriesOK

LEMMA EntryTypes ==
  ASSUME ArrTyped
  PROVE  \A i \in DOMAIN arr : arr[i] \in Entry /\ arr[i].rid \in Rid /\ arr[i].tenant \in Tenant
<1>1. \A i \in DOMAIN arr : arr[i] \in Entry
  BY LenProperties, ElementOfSeq DEF ArrTyped
<1>2. QED BY <1>1 DEF Entry

\* New records are appended, the tenants of the others stay.
LEMMA GrowOK ==
  ASSUME ArrOK, NEW D \in SUBSET Rid, IsFiniteSet(D), NEW recs \in [D -> Record],
         \A r \in D : r \notin used,
         arr' = arr \o Entries(recs), dead' = dead, used' = used \cup D,
         \A r \in D : acked'[r] # Absent /\ acked'[r].tenant = recs[r].tenant,
         \A r \in Rid \ D : /\ acked'[r] # Absent <=> acked[r] # Absent
                            /\ acked[r] # Absent => acked'[r].tenant = acked[r].tenant
  PROVE  ArrOK'
<1> DEFINE new == Entries(recs)
<1>1. /\ new \in Seq(Entry)
      /\ \A i, j \in DOMAIN new : new[i].rid = new[j].rid => i = j
      /\ \A i \in DOMAIN new : new[i].rid \in D /\ new[i].tenant = recs[new[i].rid].tenant
      /\ \A r \in D : \E i \in DOMAIN new : new[i].rid = r
  BY EntriesOf
<1>2. ArrTyped /\ EntriesOK
  BY DEF ArrOK
<1>3. arr' = arr \o new
  OBVIOUS
<1> HIDE DEF new
<1>4. \A i \in DOMAIN arr, j \in DOMAIN new : arr[i].rid # new[j].rid
  BY <1>1, <1>2 DEF EntriesOK
<1>5. /\ arr' \in Seq(Entry)
      /\ \A i, j \in DOMAIN arr' : arr'[i].rid = arr'[j].rid => i = j
      /\ \A i \in DOMAIN arr' : \/ \E j \in DOMAIN arr : arr'[i] = arr[j]
                                \/ \E j \in DOMAIN new : arr'[i] = new[j]
      /\ \A j \in DOMAIN arr : \E i \in DOMAIN arr' : arr'[i] = arr[j]
      /\ \A j \in DOMAIN new : \E i \in DOMAIN arr' : arr'[i] = new[j]
  <2> DEFINE after == arr \o new
  <2>1. /\ after \in Seq(Entry)
        /\ \A i, j \in DOMAIN after : after[i].rid = after[j].rid => i = j
        /\ \A i \in DOMAIN after : \/ \E j \in DOMAIN arr : after[i] = arr[j]
                                   \/ \E j \in DOMAIN new : after[i] = new[j]
        /\ \A j \in DOMAIN arr : \E i \in DOMAIN after : after[i] = arr[j]
        /\ \A j \in DOMAIN new : \E i \in DOMAIN after : after[i] = new[j]
    BY <1>1, <1>2, <1>4, Grown
  <2>2. arr' = after
    BY <1>3
  <2> HIDE DEF after
  <2>3. QED BY <2>1, <2>2
<1>6. ASSUME NEW i \in DOMAIN arr'
      PROVE  /\ arr'[i].rid \in used'
             /\ acked'[arr'[i].rid] # Absent \/ arr'[i].rid \in dead'
             /\ acked'[arr'[i].rid] # Absent => arr'[i].tenant = acked'[arr'[i].rid].tenant
  <2>1. CASE \E j \in DOMAIN arr : arr'[i] = arr[j]
    <3>1. PICK j \in DOMAIN arr : arr'[i] = arr[j]
      BY <2>1
    <3>2. arr[j].rid \in Rid /\ arr[j].rid \in used /\ arr[j].rid \notin D
      BY <1>2, EntryTypes DEF EntriesOK
    <3>3. QED BY <1>2, <3>1, <3>2 DEF EntriesOK
  <2>2. CASE \E j \in DOMAIN new : arr'[i] = new[j]
    BY <1>1, <2>2
  <2>3. QED BY <1>5, <2>1, <2>2
<1>7. ASSUME NEW r \in Rid, acked'[r] # Absent
      PROVE  \E i \in DOMAIN arr' : arr'[i].rid = r
  <2>1. CASE r \in D
    <3>1. PICK j \in DOMAIN new : new[j].rid = r
      BY <1>1, <2>1
    <3>2. QED BY <1>5, <3>1
  <2>2. CASE r \notin D
    <3>1. PICK j \in DOMAIN arr : arr[j].rid = r
      BY <1>2, <1>7, <2>2 DEF EntriesOK
    <3>2. QED BY <1>5, <3>1
  <2>3. QED BY <2>1, <2>2
<1>8. QED BY <1>5, <1>6, <1>7 DEF ArrOK, ArrTyped, EntriesOK

\* Entries are taken out, those of the records that go and those behind the
\* tombstones that go.
LEMMA FilterOK ==
  ASSUME ArrOK, NEW rids, arr' = Spared(rids), used' = used,
         \A r \in Rid : acked'[r] = IF r \in rids THEN Absent ELSE acked[r],
         \A r \in dead : r \in rids \/ r \in dead'
  PROVE  ArrOK'
<1>1. ArrTyped /\ EntriesOK
  BY DEF ArrOK
<1>2. /\ arr' \in Seq(Entry)
      /\ \A i, j \in DOMAIN arr' : arr'[i].rid = arr'[j].rid => i = j
      /\ \A i \in DOMAIN arr' : \E j \in DOMAIN arr : arr'[i] = arr[j] /\ arr[j].rid \notin rids
      /\ \A j \in DOMAIN arr : arr[j].rid \notin rids
           => \E i \in DOMAIN arr' : arr'[i] = arr[j]
  <2>1. ArrTyped
    BY <1>1
  <2>2. QED BY <2>1, Filtered
<1>3. ASSUME NEW i \in DOMAIN arr'
      PROVE  /\ arr'[i].rid \in used'
             /\ acked'[arr'[i].rid] # Absent \/ arr'[i].rid \in dead'
             /\ acked'[arr'[i].rid] # Absent => arr'[i].tenant = acked'[arr'[i].rid].tenant
  <2>1. PICK j \in DOMAIN arr : arr'[i] = arr[j] /\ arr[j].rid \notin rids
    BY <1>2
  <2>2. arr[j].rid \in Rid /\ acked'[arr[j].rid] = acked[arr[j].rid]
    BY <1>1, <2>1, EntryTypes
  <2>3. QED BY <1>1, <2>1, <2>2 DEF EntriesOK
<1>4. ASSUME NEW r \in Rid, acked'[r] # Absent
      PROVE  \E i \in DOMAIN arr' : arr'[i].rid = r
  <2>1. r \notin rids /\ acked[r] # Absent
    BY <1>4
  <2>2. PICK j \in DOMAIN arr : arr[j].rid = r
    BY <1>1, <2>1 DEF EntriesOK
  <2>3. QED BY <1>2, <2>1, <2>2
<1>5. QED BY <1>2, <1>3, <1>4 DEF ArrOK, ArrTyped, EntriesOK

\* Records go behind tombstones, the arrays stay.
LEMMA TombstoneOK ==
  ASSUME ArrOK, NEW rids, arr' = arr, used' = used, dead' = dead \cup rids,
         \A r \in Rid : acked'[r] = IF r \in rids THEN Absent ELSE acked[r]
  PROVE  ArrOK'
<1>1. ArrTyped /\ EntriesOK
  BY DEF ArrOK
<1>2. \A i \in DOMAIN arr : arr[i].rid \in Rid
  BY <1>1, EntryTypes
<1>3. QED BY <1>1, <1>2 DEF ArrOK, ArrTyped, EntriesOK

RowsOK == (Excises => dead = {}) /\ \A r \in Rid : RowOK(r)

LEMMA DeleteArr ==
  ASSUME RowsOK, ArrOK, NEW rids \in SUBSET Rid, Delete(rids)
  PROVE  ArrOK'
<1>1. \A r \in Rid : acked'[r] = IF r \in rids THEN Absent ELSE acked[r]
  BY DEF Delete, Less
<1>2. CASE Excises
  <2>1. dead = {} /\ arr' = Spared(rids) /\ used' = used
    BY <1>2 DEF RowsOK, Delete
  <2>2. QED BY <1>1, <2>1, FilterOK
<1>3. CASE ~Excises
  <2>1. arr' = arr /\ dead' = dead \cup rids /\ used' = used
    BY <1>3 DEF Delete
  <2>2. QED BY <1>1, <2>1, TombstoneOK
<1>4. QED BY <1>2, <1>3

LEMMA CompactArr ==
  ASSUME IInv, ArrOK, Compact
  PROVE  ArrOK'
<1>1. arr' = Spared(dead) /\ used' = used /\ acked' = acked
  BY DEF Compact
<1>2. \A r \in Rid : acked'[r] = IF r \in dead THEN Absent ELSE acked[r]
  BY <1>1 DEF IInv, RowOK
<1>3. QED BY <1>1, <1>2, FilterOK

LEMMA ArrStep == IInv /\ ArrOK /\ [Next]_vars => ArrOK'
<1> SUFFICES ASSUME IInv, ArrOK, [Next]_vars PROVE ArrOK'
  OBVIOUS
<1>1. CASE UNCHANGED vars
  BY <1>1 DEF ArrOK, ArrTyped, EntriesOK, vars, store
<1>2. ASSUME NEW r \in Rid, NEW rec \in Record, MayWrite(r), Write([x \in {r} |-> rec])
      PROVE  ArrOK'
  <2> DEFINE recs == [x \in {r} |-> rec]
  <2>1. /\ {r} \in SUBSET Rid /\ IsFiniteSet({r}) /\ recs \in [{r} -> Record]
        /\ \A s \in {r} : s \notin used
    BY <1>2, FS_Singleton DEF MayWrite
  <2>2. /\ arr' = arr \o Entries(recs) /\ dead' = dead /\ used' = used \cup {r}
        /\ acked' = With(acked, recs)
    BY <1>2 DEF Write
  <2>3. \A s \in Rid : acked'[s] = IF s = r THEN rec ELSE acked[s]
    BY <2>2 DEF With
  <2>4. /\ \A s \in {r} : acked'[s] # Absent /\ acked'[s].tenant = recs[s].tenant
        /\ \A s \in Rid \ {r} : acked'[s] = acked[s]
    BY <2>3, RecordAssumption
  <2> HIDE DEF recs
  <2>5. QED BY <2>1, <2>2, <2>4, GrowOK
<1>3. ASSUME NEW rid \in Rid, NEW new \in Rid, NEW at \in Instant,
             MaySupersede(rid, new, at), Supersede(rid, new, acked[rid].tenant, at)
      PROVE  ArrOK'
  <2> DEFINE rec == [tenant |-> acked[rid].tenant, from |-> at, until |-> TOpen]
             recs == [x \in {new} |-> rec]
  <2>1. acked[rid] \in Record /\ acked[rid] # Absent /\ rid # new /\ new \notin used
        /\ acked \in [Rid -> Record \cup {Absent}]
    BY <1>3 DEF IInv, RecordsOK, MaySupersede, MayWrite
  <2>2. rec \in Record /\ rec # Absent
    BY <2>1, RecordAssumption DEF Record
  <2>3. recs = Successor(new, acked[rid].tenant, at)
    BY DEF Successor
  <2>4. /\ arr' = arr \o Entries(recs) /\ dead' = dead /\ used' = used \cup {new}
        /\ acked' = With([acked EXCEPT ![rid].until = at], recs)
    BY <1>3, <2>1, <2>3 DEF Supersede, Closed
  <2>5. /\ {new} \in SUBSET Rid /\ IsFiniteSet({new}) /\ recs \in [{new} -> Record]
        /\ \A s \in {new} : s \notin used
    BY <2>1, <2>2, FS_Singleton
  <2> DEFINE closed == [acked[rid] EXCEPT !.until = at]
  <2>6. closed \in Record /\ closed # Absent /\ closed.tenant = acked[rid].tenant
    BY <2>1, RecordAssumption DEF Record
  <2>7. \A s \in Rid : acked'[s] = IF s = new THEN rec ELSE IF s = rid THEN closed ELSE acked[s]
    BY <2>1, <2>4 DEF With
  <2> HIDE DEF rec, closed
  <2>8. \A s \in {new} : acked'[s] # Absent /\ acked'[s].tenant = recs[s].tenant
    BY <2>2, <2>7
  <2>9. \A s \in Rid \ {new} : /\ acked'[s] # Absent <=> acked[s] # Absent
                               /\ acked[s] # Absent => acked'[s].tenant = acked[s].tenant
    BY <2>1, <2>6, <2>7
  <2> HIDE DEF recs
  <2>10. QED BY <2>4, <2>5, <2>8, <2>9, GrowOK
<1>4. QED BY <1>1, <1>2, <1>3, DeleteArr, CompactArr DEF Next, IInv, RowsOK

\* Of the records the caller holds the arrays have each once, with its tenant.
THEOREM ArraysAreWhole == Spec => []ArrOK
<1>1. Init => ArrOK
  <2> SUFFICES ASSUME Init PROVE ArrOK
    OBVIOUS
  <2>1. arr = <<>> /\ acked = NoRecords
    BY DEF Init
  <2>2. arr \in Seq(Entry) /\ DOMAIN arr = {}
    BY <2>1
  <2>3. \A r \in Rid : acked[r] = Absent
    BY <2>1 DEF NoRecords
  <2>4. QED BY <2>2, <2>3 DEF ArrOK, ArrTyped, EntriesOK
<1>2. IInv /\ ArrOK /\ [Next]_vars => ArrOK'
  BY ArrStep
<1>3. QED BY <1>1, <1>2, Invariance, PTL DEF Spec

\* What a read considers is what the caller may ask of it, except for a store
\* that ignores its tombstones or tenants.
LEMMA ConsideredIsHeld ==
  ASSUME RowsOK, ArrOK, ConsultsTombstone \/ dead = {},
         NEW tenant, ConsultsTenant \/ tenant = AnyTenant, NEW t
  PROVE  Considered(tenant, t)
           = {r \in Rid : /\ acked[r] # Absent
                          /\ tenant \in {AnyTenant, acked[r].tenant}
                          /\ t # NoAsOf => ValidAt(acked[r], t)}
<1>1. ArrTyped /\ EntriesOK /\ \A i \in DOMAIN arr : arr[i].rid \in Rid
  BY EntryTypes DEF ArrOK
<1>2. \A r \in Rid : /\ acked[r] # Absent <=> byrid[r] # Absent /\ r \notin dead
                     /\ acked[r] # Absent => byrid[r] = acked[r]
  BY DEF RowsOK, RowOK
<1>3. ASSUME NEW i \in DOMAIN arr
      PROVE  Seen(i, tenant, t) <=>
               /\ acked[arr[i].rid] # Absent
               /\ tenant \in {AnyTenant, acked[arr[i].rid].tenant}
               /\ t # NoAsOf => ValidAt(acked[arr[i].rid], t)
  <2> DEFINE r == arr[i].rid
  <2>1. /\ r \in Rid /\ (acked[r] # Absent \/ r \in dead)
        /\ acked[r] # Absent => arr[i].tenant = acked[r].tenant
    BY <1>1 DEF EntriesOK
  <2>2. (ConsultsTombstone => r \notin dead) <=> acked[r] # Absent
    BY <1>2, <2>1
  <2>3. acked[r] # Absent =>
          (byrid[r] # Absent /\ ValidAt(byrid[r], t) <=> ValidAt(acked[r], t))
    BY <1>2, <2>1
  <2>4. acked[r] # Absent =>
          ((ConsultsTenant => tenant \in {AnyTenant, arr[i].tenant})
             <=> tenant \in {AnyTenant, acked[r].tenant})
    BY <2>1
  <2> HIDE DEF r
  <2>5. Seen(i, tenant, t) <=>
          /\ ConsultsTenant => tenant \in {AnyTenant, arr[i].tenant}
          /\ ConsultsTombstone => r \notin dead
          /\ t # NoAsOf => byrid[r] # Absent /\ ValidAt(byrid[r], t)
    BY DEF Seen, r
  <2>6. QED BY <2>2, <2>3, <2>4, <2>5 DEF r
<1>4. \A r \in Rid : acked[r] # Absent => \E i \in DOMAIN arr : arr[i].rid = r
  BY <1>1 DEF EntriesOK
<1>5. QED BY <1>1, <1>3, <1>4 DEF Considered

\* Every read of the stores that consult what they claim to returns the exact
\* top k of what the caller has written and not deleted, and so do the others
\* where their flaw has no part: for every number of records, every limit and
\* every query, through any number of writes, deletes and compactions.
THEOREM ReadsAreExact == Spec => []ReadsExact
<1>1. IInv /\ ArrOK => ReadsExact
  <2> SUFFICES ASSUME IInv, ArrOK, ConsultsTombstone \/ dead = {},
                      NEW q \in Queries, NEW k \in Limits, NEW t \in Instant \cup {NoAsOf},
                      NEW tenant \in {AnyTenant} \cup (IF ConsultsTenant THEN Tenant ELSE {})
               PROVE  Retrieve(q, k, tenant, t) = Exact(q, k, tenant, t)
    BY DEF ReadsExact
  <2>1. ConsultsTenant \/ tenant = AnyTenant
    OBVIOUS
  <2>2. Retrieve(q, k, tenant, t) = TopK(Considered(tenant, t), q, k)
    BY RetrieveIsTopK DEF ArrOK
  <2>3. QED BY <2>1, <2>2, ConsideredIsHeld DEF Exact, IInv, RowsOK
<1>2. QED BY <1>1, Invariance, ArraysAreWhole, PTL

-----------------------------------------------------------------------------
(* The runner.                                                               *)

Honest == kind \in {"ReferenceHonest", "TombstoneHonest"}

\* Until the deleting scenario the store holds the corpus; then all but what
\* was deleted, of which the classes that set tombstones keep the entries.
HoldsCorpus ==
  /\ ArrOK /\ used = Rid
  /\ acked = Less(corpus, deleted)
  /\ deleted = {} => acked = corpus /\ byrid = corpus /\ dead = {}
  /\ ~Excises => arr = Entries(corpus)

\* The rows so far.  The delete verdict tells one flaw of the two, and tells
\* it whatever the first query and the first tenant are.
RowsSoFar ==
  /\ Honest => /\ \A s \in DOMAIN ledger \ {"storage"} : ledger[s].verdict = "PASS"
               /\ turn < 6 => probes = 0
               /\ turn = 6 => ledger["delete"].gone = 1
  /\ turn = 6 => (ledger["delete"].verdict = "PASS" <=> ConsultsTombstone)

RunOK ==
  /\ corpus \in Corpora /\ queries \in QuerySets /\ kind \in Kinds
  /\ turn \in 1 .. 6 /\ probes \in Nat
  /\ deleted \in {{}, ToDelete}
  /\ turn < 5 => deleted = {}
  /\ turn = 6 => deleted = ToDelete

ProbeInv == RunOK /\ HoldsCorpus /\ RowsSoFar

\* Of rids that are not none, one is ranked before all others.
LEMMA Nearest ==
  ASSUME NEW S \in SUBSET Rid, S # {}, NEW q \in Queries
  PROVE  \E r \in S : \A s \in S : ~(q[s] < q[r])
<1> DEFINE ranks == {q[s] : s \in S}
<1>1. \A s \in S : q[s] \in Nat
  <2>1. IsFiniteSet(Rid)
    BY RunAssumption
  <2>2. Cardinality(Rid) \in Nat
    BY <2>1, FS_CardinalityType
  <2>3. q \in [Rid -> 1 .. Cardinality(Rid)]
    BY DEF Queries
  <2>4. QED BY <2>2, <2>3
<1>2. ranks \subseteq Nat /\ ranks # {}
  BY <1>1
<1> HIDE DEF ranks
<1>3. PICK x \in ranks : \A y \in ranks : <<y, x>> \notin OpToRel(<, Nat)
  BY <1>2, WFMin, NatLessThanWellFounded
<1>4. PICK r \in S : q[r] = x
  BY <1>3 DEF ranks
<1>5. ASSUME NEW s \in S
      PROVE  ~(q[s] < q[r])
  <2>1. q[s] \in ranks /\ q[s] \in Nat /\ x \in Nat
    BY <1>1, <1>2, <1>3 DEF ranks
  <2>2. <<q[s], x>> \notin OpToRel(<, Nat)
    BY <1>3, <2>1
  <2>3. QED BY <1>4, <2>1, <2>2 DEF OpToRel
<1>6. QED BY <1>5

\* That one is among the top k, for any k that is not none.
LEMMA NearestIsTop ==
  ASSUME NEW S, NEW q, NEW r \in S, \A s \in S : ~(q[s] < q[r])
  PROVE  \A k \in Nat \ {0} : r \in TopK(S, q, k)
<1>1. {y \in S : q[y] < q[r]} = {}
  OBVIOUS
<1>2. Cardinality({y \in S : q[y] < q[r]}) = 0
  BY <1>1, FS_EmptySet
<1>3. QED BY <1>2 DEF TopK

LEMMA TopIsOf == ASSUME NEW S, NEW q, NEW k PROVE TopK(S, q, k) \subseteq S
BY DEF TopK

\* What the runner asks of the corpus.
LEMMA Asked ==
  ASSUME RunOK
  PROVE  /\ corpus \in [Rid -> Record] /\ \A r \in Rid : corpus[r] # Absent
         /\ queries \in Seq(Queries) /\ queries # <<>> /\ Probe \in Queries
         /\ \A i \in DOMAIN queries : queries[i] \in Queries
         /\ Ten \in Tenant
         /\ \A i \in DOMAIN queries :
              /\ Tenants[((i - 1) % Len(Tenants)) + 1] \in Tenant
              /\ InTenant(Tenants[((i - 1) % Len(Tenants)) + 1]) # {}
         /\ InTenant(Ten) # {}
         /\ \E r \in Rid : ValidAt(corpus[r], AsOfT)
<1>1. /\ corpus \in [Rid -> Record]
      /\ \A i \in DOMAIN Tenants : \E r \in Rid : corpus[r].tenant = Tenants[i]
      /\ \E r \in Rid : ValidAt(corpus[r], AsOfT)
  BY CorpusAssumption DEF RunOK
<1>2. \A r \in Rid : corpus[r] # Absent
  BY <1>1, RecordAssumption
<1>3. queries \in Seq(Queries) /\ queries # <<>>
  BY RunAssumption DEF RunOK
<1>4. Len(queries) \in Nat /\ DOMAIN queries = 1 .. Len(queries) /\ Len(queries) # 0
  BY <1>3, LenProperties, EmptySeq
<1>5. \A i \in DOMAIN queries : queries[i] \in Queries
  BY <1>3, ElementOfSeq, <1>4
<1>6. Tenants \in Seq(Tenant) /\ Tenants # <<>>
  BY RunAssumption
<1>7. Len(Tenants) \in Nat /\ DOMAIN Tenants = 1 .. Len(Tenants) /\ Len(Tenants) # 0
  BY <1>6, LenProperties, EmptySeq
<1>8. \A i \in DOMAIN Tenants : Tenants[i] \in Tenant
  BY <1>6, <1>7, ElementOfSeq
<1>9. ASSUME NEW i \in DOMAIN queries
      PROVE  ((i - 1) % Len(Tenants)) + 1 \in DOMAIN Tenants
  <2>1. i \in Nat /\ i - 1 \in Nat
    BY <1>4
  <2> DEFINE len == Len(Tenants)
  <2>2. len \in Nat /\ len > 0
    BY <1>7
  <2> HIDE DEF len
  <2>3. ((i - 1) % len) + 1 \in 1 .. len
    BY <2>1, <2>2
  <2>4. QED BY <1>7, <2>3 DEF len
<1>10. \A j \in DOMAIN Tenants : InTenant(Tenants[j]) # {}
  BY <1>1 DEF InTenant
<1>11. 1 \in DOMAIN Tenants /\ 1 \in DOMAIN queries
  BY <1>4, <1>7
<1>12. QED BY <1>1, <1>2, <1>3, <1>5, <1>8, <1>9, <1>10, <1>11 DEF Probe, Ten

\* The records to delete are some of the first tenant's, the one nearest to
\* the probe among them.
LEMMA NearestIsDeleted ==
  ASSUME RunOK
  PROVE  /\ ToDelete \subseteq InTenant(Ten)
         /\ \E r \in ToDelete : \A s \in InTenant(Ten) : ~(Probe[s] < Probe[r])
<1> DEFINE S == InTenant(Ten)
           half == Most(1, K \div 2)
           want == Knn(Probe, S, NoAsOf)
<1>1. S \in SUBSET Rid /\ S # {} /\ Probe \in Queries
  BY Asked DEF InTenant
<1>2. K \in Nat \ {0} /\ half \in Nat \ {0}
  BY RunAssumption DEF Most
<1>3. want = TopK(S, Probe, K)
  BY DEF Knn
<1>4. ToDelete = TopK(want, Probe, half)
  BY DEF ToDelete
<1> HIDE DEF S, half, want
<1>5. PICK r \in S : \A s \in S : ~(Probe[s] < Probe[r])
  BY <1>1, Nearest
<1>6. want \subseteq S /\ ToDelete \subseteq want
  BY <1>3, <1>4, TopIsOf
<1>7. r \in want
  BY <1>2, <1>3, <1>5, NearestIsTop
<1>8. \A s \in want : ~(Probe[s] < Probe[r])
  BY <1>5, <1>6
<1>9. r \in ToDelete
  BY <1>2, <1>4, <1>7, <1>8, NearestIsTop
<1>10. QED BY <1>5, <1>6, <1>9 DEF S

\* A store that consults its tombstones returns nothing of what was deleted.
LEMMA TombstoneHides ==
  ASSUME RunOK, HoldsCorpus, ConsultsTombstone, NEW q, NEW k, NEW tenant, NEW t
  PROVE  Retrieve(q, k, tenant, t) \cap deleted = {}
<1>1. ArrTyped /\ EntriesOK /\ \A i \in DOMAIN arr : arr[i].rid \in Rid
  BY EntryTypes DEF HoldsCorpus, ArrOK
<1>2. \A r \in Rid : r \in deleted => acked[r] = Absent
  BY DEF HoldsCorpus, Less
<1>3. \A i \in DOMAIN arr : Seen(i, tenant, t) => arr[i].rid \notin deleted
  BY <1>1, <1>2 DEF EntriesOK, Seen
<1>4. Considered(tenant, t) \cap deleted = {}
  BY <1>3 DEF Considered
<1>5. QED BY <1>1, <1>4, RetrieveIsTopK, TopIsOf

\* One that does not returns some of it to the probe, at every limit.
LEMMA FlawShows ==
  ASSUME RunOK, HoldsCorpus, ~ConsultsTombstone, deleted = ToDelete, NEW k \in Nat \ {0}
  PROVE  Retrieve(Probe, k, Ten, NoAsOf) \cap deleted # {}
<1> DEFINE S == InTenant(Ten)
<1>1. kind = "TombstoneLeaky" /\ ~Excises /\ ConsultsTenant
  BY DEF ConsultsTombstone, Excises, ConsultsTenant
<1>2. arr = Entries(corpus) /\ ArrTyped
  BY <1>1 DEF HoldsCorpus, ArrOK
<1>3. corpus \in [Rid -> Record] /\ Rid \in SUBSET Rid /\ IsFiniteSet(Rid) /\ Ten # AnyTenant
  BY Asked, RunAssumption
<1>4. /\ \A i \in DOMAIN arr : arr[i].rid \in Rid /\ arr[i].tenant = corpus[arr[i].rid].tenant
      /\ \A r \in Rid : \E i \in DOMAIN arr : arr[i].rid = r
  BY <1>2, <1>3, EntriesOf
<1>5. \A i \in DOMAIN arr : Seen(i, Ten, NoAsOf) <=> arr[i].tenant = Ten
  BY <1>1, <1>3 DEF Seen
<1>6. Considered(Ten, NoAsOf) = S
  BY <1>4, <1>5 DEF Considered, InTenant
<1>7. Retrieve(Probe, k, Ten, NoAsOf) = TopK(S, Probe, k)
  BY <1>2, <1>6, RetrieveIsTopK
<1>8. PICK r \in ToDelete : r \in S /\ \A s \in S : ~(Probe[s] < Probe[r])
  BY NearestIsDeleted
<1> HIDE DEF S
<1>9. r \in TopK(S, Probe, k)
  BY <1>8, NearestIsTop
<1>10. QED BY <1>7, <1>8, <1>9

\* While nothing is deleted, a store without a flaw answers from the corpus.
LEMMA HonestRead ==
  ASSUME RunOK, HoldsCorpus, Honest, deleted = {}, NEW q, NEW tenant, NEW t
  PROVE  Retrieve(q, K, tenant, t)
           = TopK({r \in Rid : /\ tenant \in {AnyTenant, corpus[r].tenant}
                               /\ t # NoAsOf => ValidAt(corpus[r], t)}, q, K)
<1>1. acked = corpus /\ byrid = corpus /\ dead = {} /\ ArrOK /\ used = Rid
  BY DEF HoldsCorpus
<1>2. \A r \in Rid : corpus[r] # Absent
  BY Asked
<1>3. RowsOK
  BY <1>1, <1>2 DEF RowsOK, RowOK
<1>4. ConsultsTenant /\ ConsultsTombstone
  BY DEF Honest, ConsultsTenant, ConsultsTombstone
<1>5. Considered(tenant, t)
        = {r \in Rid : /\ tenant \in {AnyTenant, corpus[r].tenant}
                       /\ t # NoAsOf => ValidAt(corpus[r], t)}
  BY <1>1, <1>2, <1>3, <1>4, ConsideredIsHeld
<1>6. QED BY <1>1, <1>5, RetrieveIsTopK DEF ArrOK

\* Answers that are the oracle's, none of them empty and none forbidden.
LEMMA MeasuredExact ==
  ASSUME NEW tenantOf, NEW allowed, NEW forbidden, NEW t,
         \A i \in DOMAIN queries :
           /\ Retrieve(queries[i], K, tenantOf[i], t) = Knn(queries[i], allowed[i], t)
           /\ Knn(queries[i], allowed[i], t) # {}
           /\ Knn(queries[i], allowed[i], t) \cap forbidden[i] = {}
  PROVE  LET row == Measured(tenantOf, allowed, forbidden, t)
         IN  row.recall = "full" /\ row.verdict = "PASS"
<1> DEFINE got == [i \in DOMAIN queries |-> Retrieve(queries[i], K, tenantOf[i], t)]
           want == [i \in DOMAIN queries |-> Knn(queries[i], allowed[i], t)]
           leak == \E i \in DOMAIN queries : got[i] \cap forbidden[i] # {}
           recall == MeanRecall(got, want)
<1>1. DOMAIN got = DOMAIN queries
  OBVIOUS
<1>2. \A i \in DOMAIN queries : got[i] = want[i] /\ want[i] # {} /\ got[i] \cap forbidden[i] = {}
  OBVIOUS
<1>3. Measured(tenantOf, allowed, forbidden, t) = Row(Verdict(recall, leak), recall, leak, Never)
  BY DEF Measured
<1> HIDE DEF got, want
<1>4. recall = "full"
  BY <1>1, <1>2 DEF MeanRecall
<1>5. ~leak
  BY <1>2
<1> HIDE DEF recall, leak
<1>6. Verdict(recall, leak) = "PASS"
  BY <1>4, <1>5 DEF Verdict
<1>7. QED BY <1>3, <1>4, <1>6 DEF Row

\* A scenario of reads: store and oracle are left as they were, one row more.
ReadStep(scenario, row) ==
  /\ Enter(scenario, row) /\ turn \in 1 .. 4 /\ Order[turn] = scenario
  /\ UNCHANGED <<vars, corpus, queries, deleted, probes>>

\* What the store holds and what is to be deleted rest on these alone.
LEMMA SameStore ==
  ASSUME RunOK, HoldsCorpus, UNCHANGED <<vars, corpus, queries, deleted>>
  PROVE  HoldsCorpus' /\ ToDelete' = ToDelete
<1>1. HoldsCorpus'
  BY DEF HoldsCorpus, vars, store, ArrOK, ArrTyped, EntriesOK, Entry, Excises, Less, Entries
<1>2. ToDelete' = ToDelete
  BY DEF ToDelete, Knn, InTenant, Probe, Ten, TopK, ValidAt
<1>3. QED BY <1>1, <1>2

LEMMA ReadKeeps ==
  ASSUME ProbeInv, NEW scenario, NEW row, ReadStep(scenario, row),
         scenario # "storage" /\ Honest => row.verdict = "PASS"
  PROVE  ProbeInv'
<1>1. HoldsCorpus' /\ ToDelete' = ToDelete
  BY SameStore DEF ProbeInv, ReadStep
<1>2. /\ UNCHANGED <<corpus, queries, deleted, probes, kind>>
      /\ turn' = turn + 1 /\ turn \in 1 .. 4
      /\ ledger' = [s \in DOMAIN ledger \cup {scenario} |->
                      IF s = scenario THEN row ELSE ledger[s]]
  BY DEF ReadStep, Enter, vars
<1>3. deleted = {} /\ turn' \in 1 .. 5
  BY <1>2 DEF ProbeInv, RunOK
<1>4. RunOK'
  BY <1>1, <1>2, <1>3 DEF ProbeInv, RunOK
<1>5. RowsSoFar'
  <2>1. /\ \A s \in DOMAIN ledger' :
             s # scenario => s \in DOMAIN ledger /\ ledger'[s] = ledger[s]
        /\ ledger'[scenario] = row
    BY <1>2
  <2>2. Honest' <=> Honest
    BY <1>2 DEF Honest
  <2>3. Honest => \A s \in DOMAIN ledger' \ {"storage"} : ledger'[s].verdict = "PASS"
    BY <2>1 DEF ProbeInv, RowsSoFar
  <2>4. Honest => probes' = 0
    BY <1>2 DEF ProbeInv, RowsSoFar
  <2>5. turn' # 6
    BY <1>3
  <2>6. QED BY <2>2, <2>3, <2>4, <2>5 DEF RowsSoFar
<1>6. QED BY <1>1, <1>4, <1>5 DEF ProbeInv

LEMMA TurnOf ==
  ASSUME RunOK
  PROVE  /\ Turn("unfiltered") <=> turn = 1
         /\ Turn("tenant_scoped") <=> turn = 2
         /\ Turn("as_of") <=> turn = 3
         /\ Turn("storage") <=> turn = 4
         /\ Turn("delete") <=> turn = 5
BY DEF RunOK, Turn, Order

LEMMA UnfilteredKeeps == ASSUME ProbeInv, RunUnfiltered PROVE ProbeInv'
<1> DEFINE row == Measured(Everywhere(AnyTenant), Everywhere(Rid), Everywhere({}), NoAsOf)
           full == [row EXCEPT !.verdict = IF row.recall = "full" THEN "PASS" ELSE "PARTIAL"]
<1>1. RunOK /\ HoldsCorpus
  BY DEF ProbeInv
<1>2. turn = 1 /\ deleted = {} /\ ReadStep("unfiltered", full)
  BY <1>1, TurnOf DEF RunUnfiltered, ReadStep, RunOK, Order
<1>3. ASSUME Honest
      PROVE  row.recall = "full" /\ row.verdict = "PASS"
  <2>1. ASSUME NEW i \in DOMAIN queries
        PROVE  /\ Retrieve(queries[i], K, AnyTenant, NoAsOf) = Knn(queries[i], Rid, NoAsOf)
               /\ Knn(queries[i], Rid, NoAsOf) # {}
    <3>1. Knn(queries[i], Rid, NoAsOf) = TopK(Rid, queries[i], K)
      BY DEF Knn
    <3>2. Retrieve(queries[i], K, AnyTenant, NoAsOf) = TopK(Rid, queries[i], K)
      BY <1>1, <1>2, <1>3, HonestRead
    <3>3. Rid \in SUBSET Rid /\ Rid # {} /\ queries[i] \in Queries /\ K \in Nat \ {0}
      BY <1>1, Asked, RunAssumption
    <3>4. QED BY <3>1, <3>2, <3>3, Nearest, NearestIsTop
  <2>2. \A i \in DOMAIN queries :
          /\ Everywhere(AnyTenant)[i] = AnyTenant /\ Everywhere(Rid)[i] = Rid
          /\ Everywhere({})[i] = {}
    BY DEF Everywhere
  <2>3. QED BY <2>1, <2>2, MeasuredExact
<1>4. Honest => full.verdict = "PASS"
  BY <1>3 DEF Measured, Row
<1> HIDE DEF full
<1>5. QED BY <1>2, <1>4, ReadKeeps

LEMMA TenantScopedKeeps == ASSUME ProbeInv, RunTenantScoped PROVE ProbeInv'
<1> DEFINE ten == [i \in DOMAIN queries |-> Tenants[((i - 1) % Len(Tenants)) + 1]]
           allowed == [i \in DOMAIN queries |-> InTenant(ten[i])]
           forbidden == [i \in DOMAIN queries |-> Rid \ InTenant(ten[i])]
           row == Measured(ten, allowed, forbidden, NoAsOf)
<1>1. RunOK /\ HoldsCorpus
  BY DEF ProbeInv
<1>2. turn = 2 /\ deleted = {} /\ ReadStep("tenant_scoped", row)
  BY <1>1, TurnOf DEF RunTenantScoped, ReadStep, RunOK, Order
<1>3. \A i \in DOMAIN queries :
        /\ ten[i] \in Tenant /\ InTenant(ten[i]) # {}
        /\ allowed[i] = InTenant(ten[i]) /\ forbidden[i] = Rid \ InTenant(ten[i])
  BY <1>1, Asked
<1> HIDE DEF ten, allowed, forbidden
<1>4. ASSUME Honest, NEW i \in DOMAIN queries
      PROVE  /\ Retrieve(queries[i], K, ten[i], NoAsOf) = Knn(queries[i], allowed[i], NoAsOf)
             /\ Knn(queries[i], allowed[i], NoAsOf) # {}
             /\ Knn(queries[i], allowed[i], NoAsOf) \cap forbidden[i] = {}
  <2> DEFINE S == InTenant(ten[i])
  <2>1. S \in SUBSET Rid /\ S # {} /\ queries[i] \in Queries /\ K \in Nat \ {0}
    BY <1>1, <1>3, Asked, RunAssumption DEF InTenant
  <2>2. Knn(queries[i], allowed[i], NoAsOf) = TopK(S, queries[i], K)
    BY <1>3 DEF Knn
  <2>3. S = {r \in Rid : ten[i] \in {AnyTenant, corpus[r].tenant}}
    BY <1>3, RunAssumption DEF InTenant
  <2>4. Retrieve(queries[i], K, ten[i], NoAsOf) = TopK(S, queries[i], K)
    BY <1>1, <1>2, <1>4, <2>3, HonestRead
  <2>5. forbidden[i] = Rid \ S
    BY <1>3
  <2> HIDE DEF S
  <2>6. TopK(S, queries[i], K) # {}
    BY <2>1, Nearest, NearestIsTop
  <2>7. QED BY <2>2, <2>4, <2>5, <2>6, TopIsOf
<1>5. Honest => row.verdict = "PASS"
  BY <1>4, MeasuredExact
<1>6. QED BY <1>2, <1>5, ReadKeeps

LEMMA AsOfKeeps == ASSUME ProbeInv, RunAsOf PROVE ProbeInv'
<1> DEFINE valid == {r \in Rid : ValidAt(corpus[r], AsOfT)}
           row == Measured(Everywhere(AnyTenant), Everywhere(Rid),
                           Everywhere(InvalidAt(AsOfT)), AsOfT)
<1>1. RunOK /\ HoldsCorpus
  BY DEF ProbeInv
<1>2. turn = 3 /\ deleted = {} /\ ReadStep("as_of", row)
  BY <1>1, TurnOf DEF RunAsOf, ReadStep, RunOK, Order
<1>3. AsOfT # NoAsOf
  BY RunAssumption, RecordAssumption DEF NoAsOf
<1>4. valid \in SUBSET Rid /\ valid # {} /\ K \in Nat \ {0}
  BY <1>1, Asked, RunAssumption
<1>5. InvalidAt(AsOfT) = Rid \ valid
  BY DEF InvalidAt
<1>6. ASSUME Honest, NEW i \in DOMAIN queries
      PROVE  /\ Retrieve(queries[i], K, AnyTenant, AsOfT) = Knn(queries[i], Rid, AsOfT)
             /\ Knn(queries[i], Rid, AsOfT) # {}
             /\ Knn(queries[i], Rid, AsOfT) \cap InvalidAt(AsOfT) = {}
  <2>1. Knn(queries[i], Rid, AsOfT) = TopK(valid, queries[i], K)
    BY <1>3 DEF Knn
  <2>2. valid = {r \in Rid : /\ AnyTenant \in {AnyTenant, corpus[r].tenant}
                             /\ AsOfT # NoAsOf => ValidAt(corpus[r], AsOfT)}
    BY <1>3
  <2>3. Retrieve(queries[i], K, AnyTenant, AsOfT) = TopK(valid, queries[i], K)
    BY <1>1, <1>2, <1>6, <2>2, HonestRead
  <2>4. queries[i] \in Queries
    BY <1>1, Asked
  <2> HIDE DEF valid
  <2>5. TopK(valid, queries[i], K) # {}
    BY <1>4, <2>4, Nearest, NearestIsTop
  <2>6. QED BY <1>5, <2>1, <2>3, <2>5, TopIsOf
<1>7. \A i \in DOMAIN queries :
        /\ Everywhere(AnyTenant)[i] = AnyTenant /\ Everywhere(Rid)[i] = Rid
        /\ Everywhere(InvalidAt(AsOfT))[i] = InvalidAt(AsOfT)
  BY DEF Everywhere
<1>8. Honest => row.verdict = "PASS"
  BY <1>6, <1>7, MeasuredExact
<1> HIDE DEF row
<1>9. QED BY <1>2, <1>8, ReadKeeps

LEMMA StorageKeeps == ASSUME ProbeInv, RunStorage PROVE ProbeInv'
<1> DEFINE row == Row("N/A", "nan", FALSE, Never)
<1>1. RunOK
  BY DEF ProbeInv
<1>2. turn = 4
  BY <1>1, TurnOf DEF RunStorage
<1>3. turn \in 1 .. 4 /\ Order[turn] = "storage"
  BY <1>2 DEF Order
<1>4. Enter("storage", row) /\ UNCHANGED <<vars, corpus, queries, deleted, probes>>
  BY Zenon DEF RunStorage
<1> HIDE DEF row
<1>5. ReadStep("storage", row)
  BY <1>3, <1>4 DEF ReadStep
<1>6. QED BY <1>5, ReadKeeps

\* The records are deleted; what the runner is to judge by stays.
LEMMA DeleteKeeps == ASSUME ProbeInv, RunDelete PROVE ProbeInv'
<1>1. RunOK /\ HoldsCorpus /\ RowsSoFar
  BY DEF ProbeInv
<1>2. /\ turn = 5 /\ deleted = {} /\ deleted' = ToDelete /\ Delete(ToDelete)
      /\ UNCHANGED <<corpus, queries, turn, probes, ledger, kind>>
  BY <1>1, TurnOf DEF RunDelete, Delete
<1>3. ToDelete' = ToDelete
  BY <1>2 DEF ToDelete, Knn, InTenant, Probe, Ten, TopK, ValidAt
<1>4. ToDelete \subseteq Rid /\ ToDelete # {}
  BY <1>1, NearestIsDeleted DEF InTenant
<1>5. RunOK'
  BY <1>1, <1>2, <1>3 DEF RunOK
<1>6. HoldsCorpus'
  <2>1. acked = corpus /\ byrid = corpus /\ dead = {} /\ ArrOK /\ used = Rid
    BY <1>1, <1>2 DEF HoldsCorpus
  <2>2. \A r \in Rid : corpus[r] # Absent
    BY <1>1, Asked
  <2>3. RowsOK
    BY <2>1, <2>2 DEF RowsOK, RowOK
  <2>4. ArrOK'
    BY <1>2, <1>4, <2>1, <2>3, DeleteArr
  <2>5. acked' = Less(corpus, deleted') /\ used' = used /\ deleted' # {}
    BY <1>2, <1>4, <2>1 DEF Delete
  <2>6. ~Excises' => ~Excises /\ arr' = arr
    BY <1>2 DEF Delete, Excises
  <2>7. Entries(corpus)' = Entries(corpus)
    BY <1>2 DEF Entries
  <2>8. ~Excises' => arr' = Entries(corpus')
    BY <1>1, <1>2, <2>6 DEF HoldsCorpus
  <2>9. acked' = Less(corpus', deleted')
    BY <1>2, <2>5
  <2>10. QED BY <2>1, <2>4, <2>5, <2>8, <2>9 DEF HoldsCorpus
<1>7. RowsSoFar'
  BY <1>1, <1>2 DEF RowsSoFar, Honest, ConsultsTombstone
<1>8. QED BY <1>5, <1>6, <1>7 DEF ProbeInv

\* Polling looks, and writes the row when it ends.
LEMMA PollKeeps == ASSUME ProbeInv, Poll PROVE ProbeInv'
<1>1. RunOK /\ HoldsCorpus /\ RowsSoFar
  BY DEF ProbeInv
<1>2. /\ turn = 5 /\ deleted # {} /\ probes' = probes + 1
      /\ UNCHANGED <<vars, corpus, queries, deleted>>
  BY <1>1, TurnOf DEF Poll
<1>3. HoldsCorpus' /\ ToDelete' = ToDelete
  BY <1>1, <1>2, SameStore
<1>4. kind' = kind /\ deleted = ToDelete /\ probes' \in Nat /\ K \in Nat \ {0}
  BY <1>1, <1>2, RunAssumption DEF RunOK, vars
<1>5. Hits \cap deleted = {} <=> ConsultsTombstone
  BY <1>1, <1>4, TombstoneHides, FlawShows DEF Hits
<1>6. Honest => ConsultsTombstone /\ probes = 0
  BY <1>1, <1>2 DEF Honest, ConsultsTombstone, RowsSoFar
<1>7. CASE UNCHANGED <<ledger, turn>> /\ Hits \cap deleted # {}
  <2>1. ~Honest /\ ~Honest'
    BY <1>4, <1>5, <1>6, <1>7 DEF Honest
  <2>2. RunOK'
    BY <1>1, <1>2, <1>3, <1>4, <1>7 DEF RunOK
  <2>3. RowsSoFar'
    BY <1>2, <1>7, <2>1 DEF RowsSoFar
  <2>4. QED BY <1>3, <2>2, <2>3 DEF ProbeInv
<1>8. ASSUME NEW gone \in BOOLEAN, gone <=> Hits \cap deleted = {},
             Enter("delete", DeleteRow(gone))
      PROVE  ProbeInv'
  <2> DEFINE row == DeleteRow(gone)
  <2>1. row.verdict = "PASS" <=> gone
    BY <1>8 DEF DeleteRow, Row
  <2>2. gone => row.gone = probes + 1
    BY DEF DeleteRow, Row
  <2> HIDE DEF row
  <2>3. /\ turn' = 6
        /\ ledger' = [s \in DOMAIN ledger \cup {"delete"} |->
                        IF s = "delete" THEN row ELSE ledger[s]]
    BY <1>2, <1>8 DEF Enter, row
  <2>4. /\ ledger'["delete"] = row
        /\ \A s \in DOMAIN ledger' : s # "delete" => s \in DOMAIN ledger /\ ledger'[s] = ledger[s]
    BY <2>3
  <2>5. RunOK'
    BY <1>1, <1>2, <1>3, <1>4, <2>3 DEF RunOK
  <2>6. Honest => row.verdict = "PASS" /\ row.gone = 1
    BY <1>5, <1>6, <1>8, <2>1, <2>2
  <2>7. (Honest' <=> Honest) /\ (ConsultsTombstone' <=> ConsultsTombstone)
    BY <1>4 DEF Honest, ConsultsTombstone
  <2>8. ASSUME Honest
        PROVE  \A s \in DOMAIN ledger' \ {"storage"} : ledger'[s].verdict = "PASS"
    BY <1>1, <2>4, <2>6, <2>8 DEF RowsSoFar
  <2>9. RowsSoFar'
    BY <1>5, <1>8, <2>1, <2>3, <2>4, <2>6, <2>7, <2>8 DEF RowsSoFar
  <2>10. QED BY <1>3, <2>5, <2>9 DEF ProbeInv
<1>9. QED BY <1>7, <1>8 DEF Poll

LEMMA ProbeInitInv == ASSUME ProbeInit PROVE ProbeInv
<1>1. /\ corpus \in Corpora /\ queries \in QuerySets /\ kind \in Kinds
      /\ arr = Entries(corpus) /\ byrid = corpus /\ dead = {} /\ acked = corpus /\ used = Rid
      /\ turn = 1 /\ deleted = {} /\ probes = 0 /\ ledger = <<>>
  BY DEF ProbeInit
<1>2. RunOK
  BY <1>1 DEF RunOK
<1>3. corpus \in [Rid -> Record] /\ \A r \in Rid : corpus[r] # Absent
  BY <1>2, Asked
<1>4. ArrOK
  <2>1. Rid \in SUBSET Rid /\ IsFiniteSet(Rid)
    BY RunAssumption
  <2>2. /\ arr \in Seq(Entry)
        /\ \A i, j \in DOMAIN arr : arr[i].rid = arr[j].rid => i = j
        /\ \A i \in DOMAIN arr : arr[i].rid \in Rid /\ arr[i].tenant = corpus[arr[i].rid].tenant
        /\ \A r \in Rid : \E i \in DOMAIN arr : arr[i].rid = r
    BY <1>1, <1>3, <2>1, EntriesOf
  <2>3. QED BY <1>1, <1>3, <2>2 DEF ArrOK, ArrTyped, EntriesOK
<1>5. acked = Less(corpus, deleted)
  BY <1>1, <1>3 DEF Less
<1>6. HoldsCorpus
  BY <1>1, <1>4, <1>5 DEF HoldsCorpus
<1>7. RowsSoFar
  BY <1>1 DEF RowsSoFar
<1>8. QED BY <1>2, <1>6, <1>7 DEF ProbeInv

\* A run over a backend, whatever the corpus, the queries and the backend.
THEOREM ProbeInvariance == ProbeSpec => []ProbeInv
<1>1. ProbeInit => ProbeInv
  BY ProbeInitInv
<1>2. ProbeInv /\ [ProbeNext]_allvars => ProbeInv'
  <2> SUFFICES ASSUME ProbeInv, [ProbeNext]_allvars PROVE ProbeInv'
    OBVIOUS
  <2>1. CASE UNCHANGED allvars
    <3>1. UNCHANGED <<vars, corpus, queries, deleted, turn, probes, ledger>>
      BY <2>1 DEF allvars, runvars
    <3>2. HoldsCorpus' /\ ToDelete' = ToDelete
      BY <3>1, SameStore DEF ProbeInv
    <3>3. RunOK' /\ RowsSoFar'
      BY <3>1, <3>2 DEF ProbeInv, RunOK, RowsSoFar, Honest, ConsultsTombstone, vars
    <3>4. QED BY <3>2, <3>3 DEF ProbeInv
  <2>2. QED BY <2>1, UnfilteredKeeps, TenantScopedKeeps, AsOfKeeps, StorageKeeps,
               DeleteKeeps, PollKeeps DEF ProbeNext
<1>3. QED BY <1>1, <1>2, PTL DEF ProbeSpec

\* An honest backend passes every scenario and has let go of the deleted
\* records at the first retrieval of the polling: whatever the corpus, as long
\* as no oracle answer is empty, for any number of queries, tenants and limits.
THEOREM HonestStoresPass == ProbeSpec => []HonestPasses
<1>1. ProbeInv => HonestPasses
  BY DEF ProbeInv, RunOK, RowsSoFar, Honest, HonestPasses, Over, Order
<1>2. QED BY <1>1, ProbeInvariance, PTL

\* One query of one tenant settles what holds of every read: the delete
\* verdict is PASS exactly when no query of any tenant, at any instant and
\* limit, returns a deleted record.
THEOREM DeleteVerdictIsExact == ProbeSpec => []DeleteVerdictExact
<1>1. ProbeInv => DeleteVerdictExact
  <2> SUFFICES ASSUME ProbeInv, Over PROVE DeleteVerdictExact
    BY DEF DeleteVerdictExact
  <2> DEFINE unread == \A q \in Queries, k \in Limits, tenant \in Tenant \cup {AnyTenant},
                          t \in Instant \cup {NoAsOf} : Retrieve(q, k, tenant, t) \cap deleted = {}
  <2>1. RunOK /\ HoldsCorpus /\ turn = 6 /\ deleted = ToDelete
    BY DEF ProbeInv, RunOK, Over, Order
  <2>2. ledger["delete"].verdict = "PASS" <=> ConsultsTombstone
    BY <2>1 DEF ProbeInv, RowsSoFar
  <2>3. ConsultsTombstone => unread
    BY <2>1, TombstoneHides
  <2>4. ASSUME ~ConsultsTombstone
        PROVE  ~unread
    <3>1. 1 \in Limits
      <4>1. Rid # {} /\ IsFiniteSet(Rid)
        BY <2>1, Asked, RunAssumption
      <4>2. Cardinality(Rid) \in Nat /\ Cardinality(Rid) # 0
        BY <4>1, FS_CardinalityType, FS_EmptySet
      <4>3. QED BY <4>2 DEF Limits
    <3>2. Probe \in Queries /\ Ten \in Tenant
      BY <2>1, Asked
    <3>3. Retrieve(Probe, 1, Ten, NoAsOf) \cap deleted # {}
      BY <2>1, <2>4, FlawShows
    <3>4. QED BY <3>1, <3>2, <3>3
  <2> HIDE DEF unread
  <2>5. ledger["delete"].verdict = "PASS" <=> unread
    BY <2>2, <2>3, <2>4
  <2>6. QED BY <2>5 DEF DeleteVerdictExact, unread
<1>2. QED BY <1>1, ProbeInvariance, PTL
=============================================================================
