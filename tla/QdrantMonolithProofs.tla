------------------------ MODULE QdrantMonolithProofs ------------------------
(* Proofs about the one-collection Qdrant adapter over a server that applies *)
(* its requests later, for every set of rids, tenants, batches and instants, *)
(* every chunk size and every number of writes, if only deletes are repeated.*)
EXTENDS QdrantMonolithInv, ValidTimeProofs, SequenceTheorems, TLAPS

-----------------------------------------------------------------------------
(* The queue, as the set of the requests in it and the last one.             *)

ServerOK ==
  /\ points \in [{COLL} -> SUBSET Points]
  /\ queue \in [{COLL} -> Seq(Requests)]

\* A request that is sent is the last one.
LEMMA SentRequest ==
  ASSUME ServerOK, NEW req \in Requests, Send(COLL, req)
  PROVE  /\ queue' \in [{COLL} -> Seq(Requests)]
         /\ queue'[COLL] # <<>>
         /\ LastSent' = req
         /\ Pending' = Pending \cup {req}
<1> DEFINE q == queue[COLL]
           n == Len(q)
<1>1. q \in Seq(Requests) /\ queue' = [queue EXCEPT ![COLL] = Append(q, req)]
  BY DEF ServerOK, Send
<1>2. n \in Nat /\ q \in [1 .. n -> Requests]
  BY <1>1, LenProperties
<1>3. /\ Append(q, req) \in Seq(Requests)
      /\ Len(Append(q, req)) = n + 1
      /\ Append(q, req)[n + 1] = req
      /\ \A i \in 1 .. n : Append(q, req)[i] = q[i]
      /\ DOMAIN Append(q, req) = 1 .. n + 1
  BY <1>1, <1>2
<1>4. queue'[COLL] = Append(q, req) /\ queue' \in [{COLL} -> Seq(Requests)]
  BY <1>1, <1>3 DEF ServerOK
<1>5. Pending = {q[i] : i \in 1 .. n}
  BY <1>2 DEF Pending
<1>6. Pending' = {Append(q, req)[i] : i \in 1 .. n + 1}
  BY <1>3, <1>4 DEF Pending
<1> HIDE DEF n, q
<1>7. 1 .. n + 1 = (1 .. n) \cup {n + 1}
  BY <1>2
<1>8. Pending' = Pending \cup {req}
  BY <1>3, <1>5, <1>6, <1>7
<1>9. LastSent' = req
  BY <1>3, <1>4 DEF LastSent
<1>10. queue'[COLL] # <<>>
  <2>1. Len(queue'[COLL]) # 0
    BY <1>2, <1>3, <1>4
  <2>2. QED BY <2>1, EmptySeq
<1>11. QED BY <1>4, <1>8, <1>9, <1>10

\* A request that is applied leaves the queue; the others keep their order.
LEMMA AppliedRequest ==
  ASSUME ServerOK, Apply(COLL)
  PROVE  \E req \in Pending :
           /\ req \in Requests
           /\ points' = [points EXCEPT ![COLL] = Effect(points[COLL], req)]
           /\ queue' \in [{COLL} -> Seq(Requests)]
           /\ queue[COLL] # <<>>
           /\ Pending' \subseteq Pending /\ Pending \subseteq Pending' \cup {req}
           /\ queue'[COLL] = <<>> => req = LastSent /\ Pending' = {}
           /\ queue'[COLL] # <<>> => LastSent' = LastSent
           /\ NoUpsertBehind =>
                /\ NoUpsertBehind'
                /\ req.kind # "upsert" => \A x \in Pending : x.kind # "upsert"
<1> DEFINE q == queue[COLL]
           n == Len(q)
           t == Tail(q)
<1>1. /\ q \in Seq(Requests) /\ q # <<>> /\ queue' = [queue EXCEPT ![COLL] = t]
      /\ points' = [points EXCEPT ![COLL] = Effect(points[COLL], Head(q))]
  BY DEF ServerOK, Apply
<1>2. n \in Nat \ {0} /\ DOMAIN q = 1 .. n
  BY <1>1, EmptySeq, LenProperties
<1>3. /\ t \in Seq(Requests) /\ Len(t) = n - 1
      /\ \A i \in 1 .. Len(t) : t[i] = q[i + 1]
      /\ Head(q) \in Requests /\ Head(q) = q[1]
  BY <1>1, HeadTailProperties
<1>4. DOMAIN t = 1 .. n - 1 /\ \A i \in 1 .. n - 1 : t[i] = q[i + 1]
  BY <1>3, LenProperties
<1>5. queue'[COLL] = t /\ queue' \in [{COLL} -> Seq(Requests)]
  BY <1>1, <1>3 DEF ServerOK
<1>6. Pending = {q[i] : i \in 1 .. n} /\ Pending' = {t[i] : i \in 1 .. n - 1}
  BY <1>2, <1>4, <1>5 DEF Pending
<1>7. LastSent = q[n] /\ LastSent' = t[n - 1]
  BY <1>3, <1>5 DEF LastSent
<1>8. t = <<>> <=> n = 1
  <2>1. t # <<>> => Len(t) \in Nat \ {0}
    BY <1>3, EmptySeq
  <2>2. t = <<>> => Len(t) = 0
    BY EmptySeq
  <2> HIDE DEF n, t
  <2>3. QED BY <1>2, <1>3, <2>1, <2>2
<1>9. points' = [points EXCEPT ![COLL] = Effect(points[COLL], q[1])]
  BY <1>1, <1>3
<1>10. q[1] \in Requests
  BY <1>3
<1>11. queue[COLL] # <<>>
  BY <1>1
<1> HIDE DEF n, q, t
<1>12. q[1] \in Pending /\ Pending' \subseteq Pending /\ Pending \subseteq Pending' \cup {q[1]}
  <2>1. \A i \in 1 .. n - 1 : i + 1 \in 1 .. n
    BY <1>2
  <2>2. \A i \in 1 .. n : i = 1 \/ (i - 1 \in 1 .. n - 1 /\ (i - 1) + 1 = i)
    BY <1>2
  <2>3. 1 \in 1 .. n
    BY <1>2
  <2>4. q[1] \in Pending /\ Pending' \subseteq Pending
    BY <1>4, <1>6, <2>1, <2>3
  <2>5. ASSUME NEW i \in 1 .. n
        PROVE  q[i] \in Pending' \cup {q[1]}
    <3>1. CASE i = 1
      BY <3>1
    <3>2. CASE i # 1
      BY <1>4, <1>6, <2>2, <3>2
    <3>3. QED BY <3>1, <3>2
  <2>6. QED BY <1>6, <2>4, <2>5
<1>13. t = <<>> => q[1] = LastSent /\ Pending' = {}
  BY <1>6, <1>7, <1>8
<1>14. t # <<>> => LastSent' = LastSent
  <2>1. n # 1 => n - 1 \in 1 .. n - 1 /\ (n - 1) + 1 = n
    BY <1>2
  <2>2. QED BY <1>4, <1>7, <1>8, <2>1
<1>15. ASSUME NoUpsertBehind
       PROVE  /\ NoUpsertBehind'
              /\ q[1].kind # "upsert" => \A x \in Pending : x.kind # "upsert"
  <2>1. DOMAIN q = 1 .. n /\ DOMAIN t = 1 .. n - 1
    BY <1>2, <1>4
  <2>2. \A i, j \in 1 .. n : i < j /\ q[i].kind # "upsert" => q[j].kind # "upsert"
    BY <1>15, <2>1 DEF NoUpsertBehind, q
  <2>3. \A i \in 1 .. n - 1 : i + 1 \in 1 .. n
    BY <1>2
  <2>4. \A i, j \in 1 .. n - 1 : i < j => i + 1 < j + 1
    BY <1>2
  <2>5. \A i, j \in 1 .. n - 1 : i < j /\ t[i].kind # "upsert" => t[j].kind # "upsert"
    BY <1>4, <2>2, <2>3, <2>4
  <2>6. NoUpsertBehind'
    BY <1>5, <2>1, <2>5 DEF NoUpsertBehind
  <2>7. 1 \in 1 .. n /\ \A i \in 1 .. n : i = 1 \/ 1 < i
    BY <1>2
  <2>8. q[1].kind # "upsert" => \A x \in Pending : x.kind # "upsert"
    BY <1>6, <2>2, <2>7
  <2>9. QED BY <2>6, <2>8
<1>16. QED BY <1>5, <1>9, <1>10, <1>11, <1>12, <1>13, <1>14, <1>15

\* Nothing is on its way exactly when the queue is empty.
LEMMA NothingPending ==
  ASSUME ServerOK
  PROVE  queue[COLL] = <<>> => Pending = {}
<1>1. queue[COLL] = <<>> => DOMAIN queue[COLL] = {}
  BY EmptySeq
<1>2. QED BY <1>1 DEF Pending

\* An applied request leaves of each copy a copy, changed at most as the call
\* in progress wants it, or takes it away if that is what the call wants.
LEMMA AppliedCopies ==
  ASSUME IInv, ServerApplies
  PROVE  /\ ServerOK' /\ queue[COLL] # <<>>
         /\ points'[COLL] \subseteq Points /\ OneEach(points'[COLL])
         /\ Pending' \subseteq Pending
         /\ \A p \in Copies' :
              \/ p \in Copies
              \/ /\ call.op = "supersede" /\ p.rid \in call.rids /\ p.until = call.at
                 /\ \E q \in Copies : q.rid = p.rid /\ q.nth = p.nth /\ q.from = p.from
         /\ \A q \in Copies :
              \/ \E p \in Copies' : p.rid = q.rid
              \/ call.op = "delete" /\ q.rid \in call.rids
         /\ queue'[COLL] = <<>> /\ pc = "closed" =>
              \A p \in Copies' : p.rid \in call.rids => p.until = call.at
         /\ queue'[COLL] = <<>> /\ pc = "erased" => \A p \in Copies' : p.rid \notin call.rids
         /\ queue'[COLL] # <<>> => LastSent' = LastSent
<1> DEFINE pts == points[COLL]
<1>1. /\ ServerOK /\ pts \subseteq Points /\ OneEach(pts)
      /\ \A req \in Pending : RequestOK(req)
      /\ \A p \in Copies : p.nth = idmap[p.rid]
      /\ WaitOK /\ idmap \in [Rid -> 0 .. counter] /\ counter \in Nat
  BY DEF IInv, ServerOK, TypeOK, OneEach
<1>2. Apply(COLL) /\ UNCHANGED client
  BY DEF ServerApplies
<1>3. PICK req \in Pending :
        /\ req \in Requests
        /\ points' = [points EXCEPT ![COLL] = Effect(points[COLL], req)]
        /\ queue' \in [{COLL} -> Seq(Requests)]
        /\ queue[COLL] # <<>>
        /\ Pending' \subseteq Pending /\ Pending \subseteq Pending' \cup {req}
        /\ queue'[COLL] = <<>> => req = LastSent /\ Pending' = {}
        /\ queue'[COLL] # <<>> => LastSent' = LastSent
  BY <1>1, <1>2, AppliedRequest
<1>4. points'[COLL] = Effect(pts, req)
  BY <1>1, <1>3 DEF ServerOK
<1>5. Effect(pts, req) \subseteq Points => ServerOK'
  BY <1>1, <1>3 DEF ServerOK
<1>6. /\ Copies = pts \cup UNION {x.new : x \in Pending}
      /\ Copies' = Effect(pts, req) \cup UNION {x.new : x \in Pending'}
  BY <1>4 DEF Copies
<1>7. RequestOK(req) /\ req.new \subseteq Points
  BY <1>1, <1>3 DEF Requests
<1> HIDE DEF pts
<1>8. /\ UNION {x.new : x \in Pending'} \subseteq Copies
      /\ \A q \in Copies : q \in pts \/ q \in req.new \/ q \in Copies'
  BY <1>3, <1>6
<1>9. \A p, q \in Points : Id(p) = Id(q) <=> p.rid = q.rid /\ p.nth = q.nth
  BY DEF Id
<1>10. CASE req.kind = "upsert" /\ OneEach(req.new)
  <2>1. Effect(pts, req) = {p \in pts : Id(p) \notin {Id(x) : x \in req.new}} \cup req.new
    BY <1>10 DEF Effect, Without
  <2>2. Effect(pts, req) \subseteq Points /\ OneEach(Effect(pts, req))
    BY <1>1, <1>7, <1>10, <2>1 DEF OneEach
  <2>3. req.new \subseteq Copies
    BY <1>3, <1>6
  <2>4. Copies' \subseteq Copies
    BY <1>6, <1>8, <2>1, <2>3
  <2>5. \A q \in pts : \E p \in Copies' : p.rid = q.rid
    BY <1>1, <1>6, <1>7, <1>9, <2>1
  <2>6. \A q \in Copies : \E p \in Copies' : p.rid = q.rid
    BY <1>6, <1>8, <2>1, <2>5
  <2>7. req # SetUntil(Known(call.rids), call.at) /\ req # DeletePoints(Known(call.rids))
    BY <1>10 DEF SetUntil, DeletePoints
  <2>8. queue'[COLL] = <<>> => pc \notin {"closed", "erased"}
    BY <1>1, <1>3, <2>7 DEF WaitOK, Settled
  <2>9. ServerOK'
    BY <1>5, <2>2
  <2>10. QED BY <1>3, <1>4, <2>2, <2>4, <2>6, <2>8, <2>9
<1>11. CASE /\ req = SetUntil(Known(call.rids), call.at)
            /\ call.op = "supersede" /\ pc \in {"closed", "failed"}
  <2> DEFINE ids == Known(call.rids)
             Shut(p) == [p EXCEPT !.until = call.at]
  <2>1. /\ req.kind = "set_payload" /\ req.new = {} /\ req.until = call.at /\ req.ids = ids
    BY <1>11 DEF SetUntil
  <2>2. Effect(pts, req) = {IF Id(p) \in ids THEN Shut(p) ELSE p : p \in pts}
    BY <2>1 DEF Effect
  <2>3. call.at \in Instant
    BY <1>11 DEF IInv, CallOK
  <2>4. \A p \in Points : /\ Shut(p) \in Points /\ Shut(p).rid = p.rid /\ Shut(p).nth = p.nth
                          /\ Shut(p).from = p.from /\ Shut(p).until = call.at
                          /\ Id(Shut(p)) = Id(p)
    BY <2>3 DEF Points, Id
  <2>5. \A p \in Points : Id(p) \in ids <=> /\ p.rid \in call.rids /\ p.nth = idmap[p.rid]
                                            /\ idmap[p.rid] # 0
    BY DEF Known, Id, Points
  <2>6. \A p \in pts : Id(p) \in ids <=> p.rid \in call.rids
    <3>1. \A p \in pts : p \in Points /\ p.nth = idmap[p.rid] /\ p.nth # 0
      BY <1>1, <1>6 DEF Points
    <3>2. QED BY <2>5, <3>1
  <2> HIDE DEF ids, Shut
  <2>7. Effect(pts, req) \subseteq Points /\ OneEach(Effect(pts, req))
    <3>1. Effect(pts, req) \subseteq Points
      BY <1>1, <2>2, <2>4
    <3>2. ASSUME NEW p \in pts, NEW q \in pts,
                 Id(IF Id(p) \in ids THEN Shut(p) ELSE p)
                   = Id(IF Id(q) \in ids THEN Shut(q) ELSE q)
          PROVE  p = q
      <4>1. Id(p) = Id(q)
        BY <1>1, <2>4, <3>2
      <4>2. QED BY <1>1, <4>1 DEF OneEach
    <3>3. QED BY <2>2, <3>1, <3>2 DEF OneEach
  <2>8. \A p \in Effect(pts, req) :
          \/ p \in pts /\ p.rid \notin call.rids
          \/ /\ p.rid \in call.rids /\ p.until = call.at
             /\ \E q \in pts : q.rid = p.rid /\ q.nth = p.nth /\ q.from = p.from
    BY <1>1, <2>2, <2>4, <2>6
  <2>9. \A q \in pts : \E p \in Effect(pts, req) : p.rid = q.rid
    BY <1>1, <2>2, <2>4
  <2>10. pts \subseteq Copies
    BY <1>6
  <2>11. \A p \in Copies' :
           \/ p \in Copies
           \/ /\ p.rid \in call.rids /\ p.until = call.at
              /\ \E q \in Copies : q.rid = p.rid /\ q.nth = p.nth /\ q.from = p.from
    BY <1>6, <1>8, <2>8, <2>10
  <2>12. \A q \in Copies : \E p \in Copies' : p.rid = q.rid
    BY <1>6, <1>8, <2>1, <2>9
  <2>13. queue'[COLL] = <<>> => Copies' = Effect(pts, req)
    BY <1>3, <1>6
  <2>14. queue'[COLL] = <<>> => \A p \in Copies' : p.rid \in call.rids => p.until = call.at
    BY <2>8, <2>13
  <2>15. ServerOK'
    BY <1>5, <2>7
  <2>16. QED BY <1>3, <1>4, <1>11, <2>7, <2>11, <2>12, <2>14, <2>15
<1>12. CASE req = DeletePoints(Known(call.rids)) /\ call.op = "delete"
  <2> DEFINE ids == Known(call.rids)
  <2>1. /\ req.kind = "delete" /\ req.new = {} /\ req.ids = ids
    BY <1>12 DEF DeletePoints
  <2>2. Effect(pts, req) = {p \in pts : Id(p) \notin ids}
    BY <2>1 DEF Effect, Without
  <2>3. \A p \in Points : Id(p) \in ids <=> /\ p.rid \in call.rids /\ p.nth = idmap[p.rid]
                                            /\ idmap[p.rid] # 0
    BY DEF Known, Id, Points
  <2>4. \A p \in pts : Id(p) \in ids <=> p.rid \in call.rids
    <3>1. \A p \in pts : p \in Points /\ p.nth = idmap[p.rid] /\ p.nth # 0
      BY <1>1, <1>6 DEF Points
    <3>2. QED BY <2>3, <3>1
  <2> HIDE DEF ids
  <2>5. Effect(pts, req) \subseteq Points /\ OneEach(Effect(pts, req))
    BY <1>1, <2>2 DEF OneEach
  <2>6. Copies' \subseteq Copies
    BY <1>6, <1>8, <2>2
  <2>7. \A q \in Copies : q.rid \notin call.rids => \E p \in Copies' : p.rid = q.rid
    BY <1>6, <1>8, <2>1, <2>2, <2>4
  <2>8. queue'[COLL] = <<>> => \A p \in Copies' : p.rid \notin call.rids
    BY <1>3, <1>6, <2>2, <2>4
  <2>9. ServerOK'
    BY <1>5, <2>5
  <2>10. pc # "closed"
    BY <1>12 DEF IInv, CallOK, NoCall
  <2>11. QED BY <1>3, <1>4, <1>12, <2>5, <2>6, <2>7, <2>8, <2>9, <2>10
<1>13. QED BY <1>7, <1>10, <1>11, <1>12 DEF RequestOK

\* A request that is sent brings its points with it.
LEMMA SentCopies ==
  ASSUME ServerOK, NEW req \in Requests, NEW wait, Request(req, wait)
  PROVE  /\ ServerOK' /\ queue'[COLL] # <<>>
         /\ points' = points /\ waiting' = wait
         /\ LastSent' = req /\ Pending' = Pending \cup {req}
         /\ Copies' = Copies \cup req.new
<1>1. Send(COLL, req) /\ points' = points /\ waiting' = wait
  BY DEF Request
<1>2. /\ queue' \in [{COLL} -> Seq(Requests)]
      /\ queue'[COLL] # <<>>
      /\ LastSent' = req
      /\ Pending' = Pending \cup {req}
  BY <1>1, SentRequest
<1>3. Copies' = Copies \cup req.new
  BY <1>1, <1>2 DEF Copies
<1>4. QED BY <1>1, <1>2, <1>3 DEF ServerOK

LEMMA SameServer ==
  ASSUME UNCHANGED <<points, queue>>
  PROVE  Pending' = Pending /\ Copies' = Copies /\ LastSent' = LastSent
<1>1. Pending' = Pending
  BY DEF Pending
<1>2. QED BY <1>1 DEF Copies, LastSent

-----------------------------------------------------------------------------
(* Types.                                                                    *)

\* The arguments of the calls are well typed.
LEMMA ArgumentTypes ==
  /\ IsBatch(NoRecs)
  /\ \A recs \in Batches : IsBatch(recs)
  /\ \A rid, new \in Rid, at \in Instant :
       LET c == SupersedeOf(rid, new, at)
       IN  IsBatch(c.recs) /\ c.rids \subseteq Rid /\ c.at \in Instant
  BY BatchAssumption DEF IsBatch, NoRecs, Interval, SupersedeOf

\* write() gives each record a point with the number of the call.
LEMMA StartType ==
  ASSUME TypeOK, NEW recs, IsBatch(recs), StartInserts(recs)
  PROVE  /\ pc' = "insert"
         /\ counter' = counter + 1 /\ counter' \in 1 .. MaxWrites
         /\ idmap' \in [Rid -> 0 .. counter']
         /\ \A r \in Rid : idmap'[r] = IF r \in DOMAIN recs THEN counter' ELSE idmap[r]
         /\ todo' \subseteq Points /\ OneEach(todo')
         /\ \A p \in todo' : /\ p.rid \in DOMAIN recs /\ p.nth = counter'
                             /\ Says(p, recs[p.rid])
         /\ \A r \in DOMAIN recs : \E p \in todo' : p.rid = r
<1>1. /\ counter \in 0 .. MaxWrites /\ MaxWrites \in Nat /\ idmap \in [Rid -> 0 .. counter]
      /\ DOMAIN recs \subseteq Rid /\ recs \in [DOMAIN recs -> Interval]
  BY BoundAssumption DEF TypeOK, IsBatch
<1>2. /\ counter < MaxWrites /\ counter' = counter + 1 /\ pc' = "insert"
      /\ idmap' = [r \in Rid |-> IF r \in DOMAIN recs THEN counter + 1 ELSE idmap[r]]
  BY DEF StartInserts
<1>3. counter' \in 1 .. MaxWrites /\ 0 .. counter \subseteq 0 .. counter' /\ counter' \in 0 .. counter'
  BY <1>1, <1>2
<1>4. /\ idmap' \in [Rid -> 0 .. counter']
      /\ \A r \in Rid : idmap'[r] = IF r \in DOMAIN recs THEN counter' ELSE idmap[r]
  BY <1>1, <1>2, <1>3
<1> DEFINE New(r) == [rid |-> r, nth |-> counter', from |-> recs[r].from, until |-> recs[r].until]
<1>5. todo' = {New(r) : r \in DOMAIN recs}
  BY <1>2 DEF StartInserts
<1>6. ASSUME NEW r \in DOMAIN recs
      PROVE  /\ New(r) \in Points /\ New(r).rid = r /\ New(r).nth = counter'
             /\ Says(New(r), recs[r])
  <2>1. r \in Rid /\ recs[r] \in Interval
    BY <1>1
  <2>2. recs[r].from \in Instant /\ recs[r].until \in Instant \cup {TOpen}
    BY <2>1 DEF Interval
  <2>3. QED BY <1>3, <2>1, <2>2 DEF Points, Says
<1> HIDE DEF New
<1>7. OneEach(todo')
  BY <1>5, <1>6 DEF OneEach, Id
<1>8. QED BY <1>2, <1>3, <1>4, <1>5, <1>6, <1>7

\* What a supersede that has not returned has in hand.
LEMMA SupersedeInHand ==
  ASSUME IInv, call.op = "supersede"
  PROVE  \E rid, new \in Rid :
           /\ rid # new /\ ChainOf[rid] = ChainOf[new]
           /\ call.rids = {rid} /\ DOMAIN call.recs = {new}
           /\ call.recs[new] = [from |-> call.at, until |-> TOpen]
           /\ call.at \in Instant
           /\ acked[rid] \in Interval /\ acked[new] = Absent
           /\ IsOpen(acked[rid]) /\ acked[rid].from <= call.at
           /\ Closing(rid) /\ Inserting(new)
           /\ pc \in {"close", "closed", "insert", "failed"}
<1>1. /\ pc \in {"close", "closed", "insert", "failed"} /\ call.at \in Instant
      /\ \E rid, new \in Rid :
           /\ MaySupersede(rid, new, call.at) /\ call.rids = {rid}
           /\ call.recs = [r \in {new} |-> [from |-> call.at, until |-> TOpen]]
  <2>1. CallOK /\ call # NoCall
    BY DEF IInv, NoCall
  <2>2. QED BY <2>1 DEF CallOK
<1>2. PICK rid \in Rid, new \in Rid :
        /\ MaySupersede(rid, new, call.at) /\ call.rids = {rid}
        /\ call.recs = [r \in {new} |-> [from |-> call.at, until |-> TOpen]]
  BY <1>1
<1>3. /\ rid # new /\ DOMAIN call.recs = {new}
      /\ call.recs[new] = [from |-> call.at, until |-> TOpen]
  BY <1>2 DEF MaySupersede, SameChain
<1>4. acked[rid] \in Interval
  BY <1>2 DEF IInv, TypeOK, MaySupersede
<1>5. RowOK(rid) /\ RowOK(new)
  BY DEF IInv
<1>6. Closing(rid) /\ Inserting(new)
  BY <1>2, <1>3, <1>5 DEF RowOK
<1>7. QED BY <1>1, <1>2, <1>3, <1>4, <1>6 DEF MaySupersede, SameChain

\* The requests the adapter makes are requests the server knows.
LEMMA RequestTypes ==
  ASSUME IInv
  PROVE  /\ \A rids \in SUBSET Rid : Known(rids) \subseteq Rid \X (1 .. MaxWrites)
         /\ call.op = "supersede" => SetUntil(Known(call.rids), call.at) \in Requests
         /\ DeletePoints(Known(call.rids)) \in Requests
         /\ \A chunk \in SUBSET todo : Upsert(chunk) \in Requests
<1>1. /\ idmap \in [Rid -> 0 .. counter] /\ counter \in 0 .. MaxWrites /\ MaxWrites \in Nat
      /\ call.rids \subseteq Rid /\ todo \subseteq Points
  BY BoundAssumption DEF IInv, TypeOK
<1>2. ASSUME NEW rids \in SUBSET Rid
      PROVE  Known(rids) \subseteq Rid \X (1 .. MaxWrites)
  <2>1. \A r \in Rid : idmap[r] # 0 => idmap[r] \in 1 .. MaxWrites
    BY <1>1
  <2>2. QED BY <2>1 DEF Known
<1>3. Known(call.rids) \subseteq Rid \X (1 .. MaxWrites)
  BY <1>1, <1>2
<1>4. call.op = "supersede" => call.at \in Nat
  BY SupersedeInHand, InstantAssumption
<1>5. QED BY <1>1, <1>2, <1>3, <1>4 DEF SetUntil, DeletePoints, Upsert, Requests

\* What a call leaves behind is well typed.
LEMMA OutcomeType ==
  ASSUME IInv
  PROVE  Outcome \in [Rid -> Interval \cup {Absent}]
<1> SUFFICES ASSUME NEW r \in Rid
             PROVE  Outcome[r] \in Interval \cup {Absent}
  BY DEF Outcome
<1>1. acked[r] \in Interval \cup {Absent} /\ IsBatch(call.recs)
  BY DEF IInv, TypeOK
<1>2. CASE r \in DOMAIN call.recs
  BY <1>1, <1>2 DEF Outcome, IsBatch
<1>3. CASE r \notin DOMAIN call.recs /\ r \in call.rids /\ call.op = "supersede"
  <2>1. acked[r] \in Interval /\ call.at \in Instant
    BY <1>3, SupersedeInHand
  <2>2. QED BY <1>3, <2>1, ClosedInterval DEF Outcome
<1>4. CASE r \notin DOMAIN call.recs /\ ~(r \in call.rids /\ call.op = "supersede")
  BY <1>1, <1>4 DEF Outcome
<1>5. QED BY <1>2, <1>3, <1>4

TypesOK == TypeOK /\ ServerOK

LEMMA TypeStep ==
  ASSUME IInv, [Next]_vars
  PROVE  TypesOK'
<1>0. /\ TypeOK /\ ServerOK /\ TypesOK
      /\ points[COLL] \subseteq Points /\ OneEach(points[COLL])
  BY DEF IInv, TypesOK, TypeOK, ServerOK, OneEach
<1> DEFINE Fixed == UNCHANGED <<points, queue>>
           ClientTypes == /\ idmap \in [Rid -> 0 .. counter] /\ counter \in 0 .. MaxWrites
                          /\ pc \in Running \cup {"idle", "failed"}
                          /\ call.op \in {"none", "write", "supersede", "delete"}
                          /\ IsBatch(call.recs) /\ call.rids \subseteq Rid
                          /\ todo \subseteq Points
                          /\ waiting \in BOOLEAN /\ fresh \in BOOLEAN
                          /\ status \in {"none", "green", "yellow"}
                          /\ acked \in [Rid -> Interval \cup {Absent}]
<1>a. ClientTypes
  BY <1>0 DEF TypeOK
<1>b. ASSUME ClientTypes', ServerOK', points'[COLL] \subseteq Points, OneEach(points'[COLL])
      PROVE  TypesOK'
  BY <1>b DEF TypesOK, TypeOK, OneEach
<1>c. ASSUME ClientTypes', Fixed
      PROVE  TypesOK'
  BY <1>0, <1>b, <1>c DEF ServerOK
<1>d. ASSUME ClientTypes', ServerOK', points' = points
      PROVE  TypesOK'
  BY <1>0, <1>b, <1>d
<1>1. ASSUME NEW recs \in Batches, Write(recs)
      PROVE  TypesOK'
  <2>1. IsBatch(recs) /\ StartInserts(recs) /\ call' = WriteOf(recs)
        /\ fresh' = FALSE /\ UNCHANGED <<points, queue, waiting, status, acked>>
    BY <1>1, ArgumentTypes DEF Write, Call, Begin, WriteOf
  <2>2. /\ pc' = "insert" /\ counter' \in 1 .. MaxWrites /\ todo' \subseteq Points
        /\ idmap' \in [Rid -> 0 .. counter']
    BY <1>0, <2>1, StartType
  <2>3. call'.op = "write" /\ call'.recs = recs /\ call'.rids = {}
    BY <2>1 DEF WriteOf
  <2>4. counter' \in 0 .. MaxWrites
    BY <2>2, BoundAssumption
  <2>5. ClientTypes'
    BY <1>a, <2>1, <2>2, <2>3, <2>4 DEF Running
  <2>6. QED BY <1>c, <2>1, <2>5
<1>2. ASSUME NEW rid \in Rid, NEW new \in Rid, NEW at \in Instant, Supersede(rid, new, at)
      PROVE  TypesOK'
  <2> DEFINE c == SupersedeOf(rid, new, at)
  <2>1. c.op = "supersede"
    BY DEF SupersedeOf
  <2>2. /\ call' = c /\ pc' = "close" /\ UNCHANGED <<idmap, counter, todo>>
        /\ fresh' = FALSE /\ UNCHANGED <<points, queue, waiting, status, acked>>
    BY <1>2, <2>1 DEF Supersede, Call, Begin
  <2>3. IsBatch(c.recs) /\ c.rids \subseteq Rid
    BY ArgumentTypes
  <2> HIDE DEF c
  <2>4. ClientTypes'
    BY <1>a, <2>1, <2>2, <2>3 DEF Running
  <2>5. QED BY <1>c, <2>2, <2>4
<1>3. ASSUME NEW rids \in (SUBSET Rid) \ {{}}, Delete(rids)
      PROVE  TypesOK'
  <2>1. /\ call' = DeleteOf(rids) /\ pc' = "erase" /\ UNCHANGED <<idmap, counter, todo>>
        /\ fresh' = FALSE /\ UNCHANGED <<points, queue, waiting, status, acked>>
    BY <1>3 DEF Delete, DeleteOf, Call, Begin
  <2>2. ClientTypes'
    BY <1>a, <2>1, ArgumentTypes DEF DeleteOf, Running
  <2>3. QED BY <1>c, <2>1, <2>2
<1>4. CASE CloseStmt
  <2>1. call.op = "supersede"
    BY <1>4 DEF IInv, CallOK, CloseStmt, NoCall
  <2>2. /\ pc' = "closed" /\ UNCHANGED <<idmap, counter, call, todo, status, fresh, acked>>
        /\ \/ UNCHANGED <<points, queue, waiting>>
           \/ Request(SetUntil(Known(call.rids), call.at), TRUE)
    BY <1>4 DEF CloseStmt
  <2>3. CASE UNCHANGED <<points, queue, waiting>>
    <3>1. ClientTypes'
      BY <1>a, <2>2, <2>3 DEF Running
    <3>2. QED BY <1>c, <2>3, <3>1
  <2>4. CASE Request(SetUntil(Known(call.rids), call.at), TRUE)
    <3>1. ServerOK' /\ points' = points /\ waiting' = TRUE
      BY <1>0, <2>1, <2>4, RequestTypes, SentCopies
    <3>2. ClientTypes'
      BY <1>a, <2>2, <3>1 DEF Running
    <3>3. QED BY <1>d, <3>1, <3>2
  <2>5. QED BY <2>2, <2>3, <2>4
<1>5. CASE Successor
  <2>1. /\ StartInserts(call.recs) /\ IsBatch(call.recs)
        /\ UNCHANGED <<points, queue, call, waiting, status, fresh, acked>>
    BY <1>5, <1>a DEF Successor
  <2>2. /\ pc' = "insert" /\ counter' \in 1 .. MaxWrites /\ todo' \subseteq Points
        /\ idmap' \in [Rid -> 0 .. counter']
    BY <1>0, <2>1, StartType
  <2>3. ClientTypes'
    BY <1>a, <2>1, <2>2, BoundAssumption DEF Running
  <2>4. QED BY <1>c, <2>1, <2>3
<1>6. ASSUME NEW chunk \in SUBSET todo, UpsertStmt(chunk)
      PROVE  TypesOK'
  <2> DEFINE small == Cardinality(DOMAIN call.recs) <= CH
  <2>0. small \in BOOLEAN
    OBVIOUS
  <2>1. /\ Request(Upsert(chunk), small)
        /\ todo' = todo \ chunk
        /\ UNCHANGED <<idmap, counter, pc, call, status, fresh, acked>>
    BY <1>6 DEF UpsertStmt
  <2> HIDE DEF small
  <2>2. ServerOK' /\ points' = points /\ waiting' \in BOOLEAN
    BY <1>0, <2>0, <2>1, RequestTypes, SentCopies
  <2>3. ClientTypes'
    BY <1>a, <2>1, <2>2
  <2>4. QED BY <1>d, <2>2, <2>3
<1>7. CASE EraseStmt
  <2>1. /\ Request(DeletePoints(Known(call.rids)), TRUE) /\ pc' = "erased"
        /\ UNCHANGED <<idmap, counter, call, todo, status, fresh, acked>>
    BY <1>7 DEF EraseStmt
  <2>2. ServerOK' /\ points' = points /\ waiting' = TRUE
    BY <1>0, <2>1, RequestTypes, SentCopies
  <2>3. ClientTypes'
    BY <1>a, <2>1, <2>2 DEF Running
  <2>4. QED BY <1>d, <2>2, <2>3
<1>8. CASE Return
  <2>1. /\ pc' = "idle" /\ call' = NoCall /\ waiting' = FALSE /\ acked' = Outcome
        /\ UNCHANGED <<points, queue, idmap, counter, todo, status, fresh>>
    BY <1>8 DEF Return
  <2>2. ClientTypes'
    BY <1>a, <2>1, OutcomeType, ArgumentTypes DEF NoCall
  <2>3. QED BY <1>c, <2>1, <2>2
<1>9. CASE Fail
  <2>1. ClientTypes' /\ Fixed
    BY <1>a, <1>9 DEF Fail
  <2>2. QED BY <1>c, <2>1
<1>10. CASE Flush
  <2>1. ClientTypes' /\ Fixed
    BY <1>a, <1>10 DEF Flush
  <2>2. QED BY <1>c, <2>1
<1>11. CASE Reconstruct
  <2>1. /\ ServerOK' /\ points'[COLL] = {}
    BY <1>11, EmptySeq DEF Reconstruct, Recreate, ServerOK
  <2>2. /\ idmap' = [r \in Rid |-> 0] /\ counter' = 0 /\ pc' = "idle" /\ call' = NoCall
        /\ todo' = {} /\ waiting' = FALSE /\ status' = "none" /\ fresh' = FALSE
        /\ acked' = [r \in Rid |-> Absent]
    BY <1>11 DEF Reconstruct, NoRows
  <2>3. call'.op = "none" /\ IsBatch(call'.recs) /\ call'.rids \subseteq Rid
    BY <2>2, ArgumentTypes DEF NoCall
  <2>4. /\ counter' \in 0 .. MaxWrites /\ 0 \in 0 .. counter'
        /\ acked' \in [Rid -> Interval \cup {Absent}]
    BY <2>2, BoundAssumption
  <2>5. idmap' \in [Rid -> 0 .. counter']
    BY <2>2, <2>4
  <2>6. ClientTypes'
    BY <2>2, <2>3, <2>4, <2>5
  <2>7. QED BY <1>b, <2>1, <2>6 DEF OneEach
<1>12. CASE ServerApplies
  <2>1. ClientTypes'
    BY <1>a, <1>12 DEF ServerApplies, client
  <2>2. QED BY <1>b, <1>12, <2>1, AppliedCopies
<1>13. CASE UNCHANGED vars
  <2>1. ClientTypes' /\ Fixed
    BY <1>a, <1>13 DEF vars, client
  <2>2. QED BY <1>c, <2>1
<1>14. ASSUME Retry
       PROVE  TypesOK'
  <2>1. /\ Begin(call) /\ IsBatch(call.recs)
        /\ UNCHANGED <<points, queue, call, waiting, status, fresh, acked>>
    BY <1>14, <1>a DEF Retry
  <2>2. CASE StartInserts(call.recs)
    <3>1. /\ pc' = "insert" /\ counter' \in 1 .. MaxWrites /\ todo' \subseteq Points
          /\ idmap' \in [Rid -> 0 .. counter']
      BY <1>0, <2>1, <2>2, StartType
    <3>2. ClientTypes'
      BY <1>a, <2>1, <3>1, BoundAssumption DEF Running
    <3>3. QED BY <1>c, <2>1, <3>2
  <2>3. CASE pc' \in {"close", "erase"} /\ UNCHANGED <<idmap, counter, todo>>
    <3>1. ClientTypes'
      BY <1>a, <2>1, <2>3 DEF Running
    <3>2. QED BY <1>c, <2>1, <3>1
  <2>4. QED BY <2>1, <2>2, <2>3 DEF Begin
<1>15. QED
  BY <1>1, <1>2, <1>3, <1>4, <1>5, <1>6, <1>7, <1>8, <1>9, <1>10, <1>11, <1>12, <1>13, <1>14
  DEF Next

-----------------------------------------------------------------------------
(* Every step keeps the rest of the invariant: one lemma per action.         *)

InFlightOK ==
  /\ HistoryOK /\ CallOK
  /\ \A req \in Pending : RequestOK(req)
  /\ \A p \in Copies \cup todo : p.nth = idmap[p.rid]
  /\ \A r \in Rid : RowOK(r)
  /\ WaitOK /\ TodoOK /\ FlushOK

LEMMA InvParts == IInv <=> TypesOK /\ InFlightOK
  BY DEF IInv, TypesOK, ServerOK, InFlightOK

LEMMA CopiesTyped == ServerOK => Copies \subseteq Points
<1> SUFFICES ASSUME ServerOK
             PROVE  Copies \subseteq Points
  OBVIOUS
<1>1. points[COLL] \subseteq Points
  BY DEF ServerOK
<1>2. Pending \subseteq Requests
  <2>1. queue[COLL] \in Seq(Requests)
    BY DEF ServerOK
  <2>2. QED BY <2>1, LenProperties DEF Pending
<1>3. QED BY <1>1, <1>2 DEF Copies, Requests

\* Between calls every row is as the caller knows it, and only upserts are
\* still pending.
LEMMA AtRest ==
  ASSUME IInv, pc = "idle"
  PROVE  /\ DOMAIN call.recs = {} /\ call.rids = {} /\ todo = {}
         /\ \A req \in Pending : req.kind = "upsert" /\ OneEach(req.new)
         /\ \A r \in Rid : AsAcked(r)
<1>1. call = NoCall
  BY DEF IInv, CallOK
<1>2. DOMAIN call.recs = {} /\ call.rids = {} /\ call.op = "none"
  BY <1>1 DEF NoCall, NoRecs
<1>3. /\ \A req \in Pending : RequestOK(req)
      /\ \A r \in Rid : RowOK(r)
      /\ TodoOK
  BY DEF IInv
<1>4. QED BY <1>2, <1>3 DEF RequestOK, RowOK, TodoOK

\* A call starts from rows that are as the caller knows them.
LEMMA WriteStep ==
  ASSUME IInv, NEW recs \in Batches, FitsHistory(recs), Write(recs)
  PROVE  InFlightOK'
<1>1. /\ pc = "idle" /\ StartInserts(recs) /\ fresh' = FALSE
      /\ points' = points /\ queue' = queue /\ acked' = acked
      /\ call'.op = "write" /\ call'.recs = recs /\ call'.rids = {}
  BY DEF Write, Call, Begin, WriteOf
<1>2. /\ pc' = "insert"
      /\ \A r \in Rid : idmap'[r] = IF r \in DOMAIN recs THEN counter' ELSE idmap[r]
      /\ OneEach(todo')
      /\ \A p \in todo' : p.rid \in DOMAIN recs /\ p.nth = counter' /\ Says(p, recs[p.rid])
      /\ \A r \in DOMAIN recs : \E p \in todo' : p.rid = r
  <2>1. TypeOK /\ IsBatch(recs)
    BY ArgumentTypes DEF IInv
  <2>2. QED BY <1>1, <2>1, StartType
<1>3. Pending' = Pending /\ Copies' = Copies
  BY <1>1, SameServer
<1>4. /\ \A req \in Pending : req.kind = "upsert" /\ OneEach(req.new)
      /\ \A r \in Rid : AsAcked(r)
  BY <1>1, AtRest
<1>5. \A r \in DOMAIN recs : r \in Rid /\ acked[r] = Absent /\ CopiesOf(r) = {}
  BY <1>4, BatchAssumption DEF FitsHistory, IsBatch, AsAcked
<1>6. Copies \subseteq Points /\ \A p \in Copies : p.nth = idmap[p.rid]
  BY CopiesTyped DEF IInv, ServerOK
<1>7. HistoryOK'
  BY <1>1 DEF IInv, HistoryOK
<1>8. CallOK'
  BY <1>1, <1>2 DEF CallOK, FitsHistory
<1>9. \A req \in Pending' : RequestOK(req)'
  BY <1>3, <1>4 DEF RequestOK
<1>10. \A p \in (Copies \cup todo)' : p.nth = idmap'[p.rid]
  <2>1. \A p \in Copies : p.rid \in Rid /\ p.rid \notin DOMAIN recs
    BY <1>5, <1>6 DEF CopiesOf, Points
  <2>2. QED BY <1>2, <1>3, <1>5, <1>6, <2>1
<1>11. ASSUME NEW r \in Rid
       PROVE  RowOK(r)'
  <2>1. CASE r \in DOMAIN recs
    BY <1>1, <1>2, <1>3, <1>5, <2>1 DEF RowOK, Inserting, CopiesOf, TodoOf
  <2>2. CASE r \notin DOMAIN recs
    BY <1>1, <1>3, <1>4, <2>2 DEF RowOK, AsAcked, CopiesOf
  <2>3. QED BY <2>1, <2>2
<1>12. WaitOK' /\ TodoOK' /\ FlushOK'
  BY <1>1, <1>2 DEF WaitOK, TodoOK, FlushOK
<1>13. QED BY <1>7, <1>8, <1>9, <1>10, <1>11, <1>12 DEF InFlightOK

LEMMA SupersedeStep ==
  ASSUME IInv, NEW rid \in Rid, NEW new \in Rid, NEW at \in Instant,
         MaySupersede(rid, new, at), Supersede(rid, new, at)
  PROVE  InFlightOK'
<1>1. /\ pc = "idle" /\ pc' = "close" /\ fresh' = FALSE
      /\ UNCHANGED <<points, queue, idmap, todo, acked>>
      /\ call'.op = "supersede" /\ call'.rids = {rid} /\ call'.at = at
      /\ call'.recs = [r \in {new} |-> [from |-> at, until |-> TOpen]]
  BY DEF Supersede, Call, Begin, SupersedeOf
<1>2. Pending' = Pending /\ Copies' = Copies
  BY <1>1, SameServer
<1>3. /\ \A req \in Pending : req.kind = "upsert" /\ OneEach(req.new)
      /\ \A r \in Rid : AsAcked(r)
      /\ todo = {}
  BY <1>1, AtRest
<1>4. /\ DOMAIN call'.recs = {new} /\ rid # new
      /\ acked[rid] # Absent /\ acked[new] = Absent
  BY <1>1 DEF MaySupersede, SameChain
<1>5. HistoryOK'
  BY <1>1 DEF IInv, HistoryOK
<1>6. CallOK'
  BY <1>1 DEF CallOK, MaySupersede
<1>7. \A req \in Pending' : RequestOK(req)'
  BY <1>2, <1>3 DEF RequestOK
<1>8. \A p \in (Copies \cup todo)' : p.nth = idmap'[p.rid]
  BY <1>1, <1>2 DEF IInv
<1>9. ASSUME NEW r \in Rid
      PROVE  RowOK(r)'
  <2>1. CopiesOf(new) = {} /\ CopiesOf(rid) # {} /\ \A p \in CopiesOf(rid) : Says(p, acked[rid])
    BY <1>3, <1>4 DEF AsAcked
  <2>2. CASE r = new
    BY <1>1, <1>2, <1>3, <1>4, <2>1, <2>2 DEF RowOK, Inserting, CopiesOf, TodoOf
  <2>3. CASE r = rid
    BY <1>1, <1>2, <1>4, <2>1, <2>3 DEF RowOK, Closing, CopiesOf
  <2>4. CASE r \notin {rid, new}
    BY <1>1, <1>2, <1>3, <1>4, <2>4 DEF RowOK, AsAcked, CopiesOf
  <2>5. QED BY <2>2, <2>3, <2>4
<1>10. WaitOK' /\ TodoOK' /\ FlushOK'
  BY <1>1, <1>3 DEF WaitOK, TodoOK, FlushOK, OneEach
<1>11. QED BY <1>5, <1>6, <1>7, <1>8, <1>9, <1>10 DEF InFlightOK

LEMMA DeleteStep ==
  ASSUME IInv, NEW rids \in (SUBSET Rid) \ {{}}, Delete(rids)
  PROVE  InFlightOK'
<1>1. /\ pc = "idle" /\ pc' = "erase" /\ fresh' = FALSE
      /\ UNCHANGED <<points, queue, idmap, todo, acked>>
      /\ call'.op = "delete" /\ call'.rids = rids /\ call'.recs = NoRecs
      /\ DOMAIN call'.recs = {}
  BY DEF Delete, Call, Begin, DeleteOf, NoRecs
<1>2. Pending' = Pending /\ Copies' = Copies
  BY <1>1, SameServer
<1>3. /\ \A req \in Pending : req.kind = "upsert" /\ OneEach(req.new)
      /\ \A r \in Rid : AsAcked(r)
      /\ todo = {}
  BY <1>1, AtRest
<1>4. HistoryOK'
  BY <1>1 DEF IInv, HistoryOK
<1>5. CallOK'
  BY <1>1 DEF CallOK
<1>6. \A req \in Pending' : RequestOK(req)'
  BY <1>2, <1>3 DEF RequestOK
<1>7. \A p \in (Copies \cup todo)' : p.nth = idmap'[p.rid]
  BY <1>1, <1>2 DEF IInv
<1>8. ASSUME NEW r \in Rid
      PROVE  RowOK(r)'
  BY <1>1, <1>2, <1>3 DEF RowOK, Erasing, AsAcked, CopiesOf
<1>9. WaitOK' /\ TodoOK' /\ FlushOK'
  BY <1>1, <1>3 DEF WaitOK, TodoOK, FlushOK, OneEach
<1>10. QED BY <1>4, <1>5, <1>6, <1>7, <1>8, <1>9 DEF InFlightOK

\* The old version has a point, so the request to close it is made.
LEMMA CloseStep ==
  ASSUME IInv, CloseStmt
  PROVE  InFlightOK'
<1> DEFINE req == SetUntil(Known(call.rids), call.at)
<1>1. /\ pc = "close" /\ pc' = "closed" /\ call.op = "supersede"
      /\ UNCHANGED <<idmap, call, todo, fresh, acked>>
  <2>1. pc = "close" /\ pc' = "closed" /\ UNCHANGED <<idmap, call, todo, fresh, acked>>
    BY DEF CloseStmt
  <2>2. QED BY <2>1 DEF IInv, CallOK
<1>2. PICK rid \in Rid, new \in Rid :
        /\ rid # new /\ call.rids = {rid} /\ DOMAIN call.recs = {new}
        /\ Closing(rid) /\ Inserting(new)
  BY <1>1, SupersedeInHand
<1>3. Known(call.rids) # {}
  <2>1. PICK p \in Copies : p.rid = rid
    BY <1>2 DEF Closing, CopiesOf
  <2>2. p \in Points /\ p.nth = idmap[p.rid]
    BY CopiesTyped DEF IInv, ServerOK
  <2>3. idmap[rid] # 0
    BY <2>1, <2>2 DEF Points
  <2>4. QED BY <1>2, <2>3 DEF Known
<1>4. Request(req, TRUE)
  BY <1>3 DEF CloseStmt
<1>5. /\ queue'[COLL] # <<>> /\ waiting' = TRUE
      /\ LastSent' = req /\ Pending' = Pending \cup {req} /\ Copies' = Copies
  <2>1. req \in Requests /\ req.new = {} /\ ServerOK
    BY <1>1, RequestTypes DEF IInv, ServerOK, SetUntil
  <2> HIDE DEF req
  <2>2. QED BY <1>4, <2>1, SentCopies
<1>6. HistoryOK'
  BY <1>1 DEF IInv, HistoryOK
<1>7. CallOK'
  BY <1>1 DEF IInv, CallOK, MaySupersede
<1>8. \A x \in Pending' : RequestOK(x)'
  <2>1. \A x \in Pending : RequestOK(x)
    BY DEF IInv
  <2>2. Known(call.rids)' = Known(call.rids)
    BY <1>1 DEF Known
  <2>3. QED BY <1>1, <1>5, <2>1, <2>2 DEF RequestOK
<1>9. \A p \in (Copies \cup todo)' : p.nth = idmap'[p.rid]
  BY <1>1, <1>5 DEF IInv
<1>10. ASSUME NEW r \in Rid
       PROVE  RowOK(r)'
  <2>1. RowOK(r) /\ CopiesOf(new) = {}
    BY <1>1, <1>2 DEF IInv, Inserting
  <2>2. CASE r = new
    BY <1>1, <1>2, <1>5, <2>1, <2>2 DEF RowOK, Inserting, CopiesOf, TodoOf
  <2>3. CASE r = rid
    BY <1>1, <1>2, <1>5, <2>1, <2>3 DEF RowOK, Closing, CopiesOf, Settled
  <2>4. CASE r \notin {rid, new}
    BY <1>1, <1>2, <1>5, <2>1, <2>4 DEF RowOK, AsAcked, CopiesOf
  <2>5. QED BY <2>2, <2>3, <2>4
<1>11. WaitOK'
  <2>1. Known(call.rids)' = Known(call.rids)
    BY <1>1 DEF Known
  <2>2. QED BY <1>1, <1>5, <2>1 DEF WaitOK
<1>12. TodoOK' /\ FlushOK'
  BY <1>1 DEF IInv, TodoOK, FlushOK, OneEach
<1>13. QED BY <1>6, <1>7, <1>8, <1>9, <1>10, <1>11, <1>12 DEF InFlightOK

\* The successor is written when every copy of the old version is closed.
LEMMA SuccessorStep ==
  ASSUME IInv, Successor
  PROVE  InFlightOK'
<1>1. /\ pc = "closed" /\ Settled(COLL) /\ StartInserts(call.recs) /\ call.op = "supersede"
      /\ UNCHANGED <<points, queue, call, fresh, acked>>
  <2>1. /\ pc = "closed" /\ Ready /\ StartInserts(call.recs)
        /\ UNCHANGED <<points, queue, call, fresh, acked>>
    BY DEF Successor
  <2>2. WaitOK /\ call.op = "supersede"
    BY <2>1 DEF IInv, CallOK
  <2>3. QED BY <2>1, <2>2 DEF WaitOK, Ready
<1>2. PICK rid \in Rid, new \in Rid :
        /\ rid # new /\ call.rids = {rid} /\ DOMAIN call.recs = {new}
        /\ Closing(rid) /\ Inserting(new)
  BY <1>1, SupersedeInHand
<1>3. /\ pc' = "insert"
      /\ \A r \in Rid : idmap'[r] = IF r = new THEN counter' ELSE idmap[r]
      /\ OneEach(todo')
      /\ \A p \in todo' : p.rid = new /\ p.nth = counter' /\ Says(p, call.recs[new])
      /\ \E p \in todo' : p.rid = new
  <2>1. TypeOK /\ IsBatch(call.recs)
    BY DEF IInv, TypeOK
  <2>2. QED BY <1>1, <1>2, <2>1, StartType
<1>4. Pending' = {} /\ Copies' = Copies
  BY <1>1, SameServer, NothingPending DEF IInv, ServerOK, Settled
<1>5. CopiesOf(new) = {} /\ acked[new] = Absent
  BY <1>1, <1>2 DEF Inserting
<1>6. HistoryOK'
  BY <1>1 DEF IInv, HistoryOK
<1>7. CallOK'
  <2>1. \E a, b \in Rid :
          /\ MaySupersede(a, b, call.at) /\ call.at \in Instant /\ call.rids = {a}
          /\ call.recs = [r \in {b} |-> [from |-> call.at, until |-> TOpen]]
    BY <1>1 DEF IInv, CallOK
  <2>2. QED BY <1>1, <1>3, <2>1 DEF CallOK, MaySupersede
<1>8. \A p \in (Copies \cup todo)' : p.nth = idmap'[p.rid]
  <2>1. Copies \subseteq Points /\ \A p \in Copies : p.nth = idmap[p.rid]
    BY CopiesTyped DEF IInv, ServerOK
  <2>2. \A p \in Copies : p.rid \in Rid /\ p.rid # new
    BY <1>5, <2>1 DEF CopiesOf, Points
  <2>3. QED BY <1>3, <1>4, <2>1, <2>2
<1>9. ASSUME NEW r \in Rid
      PROVE  RowOK(r)'
  <2>1. RowOK(r)
    BY DEF IInv
  <2>2. CASE r = new
    BY <1>1, <1>2, <1>3, <1>4, <1>5, <2>2 DEF RowOK, Inserting, CopiesOf, TodoOf
  <2>3. CASE r = rid
    BY <1>1, <1>2, <1>3, <1>4, <2>3 DEF RowOK, Closing, CopiesOf
  <2>4. CASE r \notin {rid, new}
    BY <1>1, <1>2, <1>4, <2>1, <2>4 DEF RowOK, AsAcked, CopiesOf
  <2>5. QED BY <2>2, <2>3, <2>4
<1>10. WaitOK' /\ TodoOK' /\ FlushOK'
  BY <1>1, <1>2, <1>3 DEF IInv, WaitOK, TodoOK, FlushOK
<1>11. QED BY <1>4, <1>6, <1>7, <1>8, <1>9, <1>10 DEF InFlightOK

LEMMA UpsertStep ==
  ASSUME IInv, NEW chunk \in SUBSET todo, UpsertStmt(chunk)
  PROVE  InFlightOK'
<1> DEFINE small == Cardinality(DOMAIN call.recs) <= CH
<1>1. /\ pc = "insert" /\ pc' = "insert" /\ todo' = todo \ chunk
      /\ Request(Upsert(chunk), small)
      /\ UNCHANGED <<idmap, call, status, fresh, acked>>
  BY DEF UpsertStmt
<1> HIDE DEF small
<1>2. /\ Upsert(chunk).kind = "upsert" /\ Upsert(chunk).new = chunk
      /\ Upsert(chunk) \in Requests
  BY RequestTypes DEF Upsert
<1>3. /\ Pending' = Pending \cup {Upsert(chunk)} /\ Copies' = Copies \cup chunk
      /\ queue'[COLL] # <<>>
  <2>1. ServerOK
    BY DEF IInv, ServerOK
  <2>2. QED BY <1>1, <1>2, <2>1, SentCopies
<1>4. /\ OneEach(todo) /\ \A p \in todo : p.rid \in DOMAIN call.recs
      /\ \A p \in Copies \cup todo : p.nth = idmap[p.rid]
      /\ \A x \in Pending : RequestOK(x)
  BY DEF IInv, TodoOK
<1>5. HistoryOK'
  BY <1>1 DEF IInv, HistoryOK
<1>6. CallOK'
  <2>1. CASE call.op = "write"
    BY <1>1, <2>1 DEF IInv, CallOK, FitsHistory
  <2>2. CASE call.op = "supersede"
    <3>1. \E a, b \in Rid :
            /\ MaySupersede(a, b, call.at) /\ call.at \in Instant /\ call.rids = {a}
            /\ call.recs = [r \in {b} |-> [from |-> call.at, until |-> TOpen]]
      BY <1>1, <2>2 DEF IInv, CallOK
    <3>2. QED BY <1>1, <2>2, <3>1 DEF CallOK, MaySupersede
  <2>3. QED BY <1>1, <2>1, <2>2 DEF IInv, CallOK
<1>7. \A x \in Pending' : RequestOK(x)'
  <2>1. Known(call.rids)' = Known(call.rids)
    BY <1>1 DEF Known
  <2>2. OneEach(chunk)
    BY <1>4 DEF OneEach
  <2>3. QED BY <1>1, <1>2, <1>3, <1>4, <2>1, <2>2 DEF RequestOK
<1>8. \A p \in (Copies \cup todo)' : p.nth = idmap'[p.rid]
  BY <1>1, <1>3, <1>4
<1>9. ASSUME NEW r \in Rid
      PROVE  RowOK(r)'
  <2>1. RowOK(r)
    BY DEF IInv
  <2>2. CASE r \in DOMAIN call.recs
    <3>1. CopiesOf(r)' \cup TodoOf(r)' = CopiesOf(r) \cup TodoOf(r)
      BY <1>1, <1>3 DEF CopiesOf, TodoOf
    <3>2. Inserting(r)
      BY <2>1, <2>2 DEF RowOK
    <3>3. Inserting(r)'
      BY <1>1, <3>1, <3>2 DEF Inserting
    <3>4. QED BY <1>1, <2>2, <3>3 DEF RowOK
  <2>3. CASE r \notin DOMAIN call.recs
    <3>1. CopiesOf(r)' = CopiesOf(r)
      BY <1>3, <1>4, <2>3 DEF CopiesOf
    <3>2. CASE r \in call.rids /\ call.op = "supersede"
      <4>1. Closing(r)
        BY <2>1, <2>3, <3>2 DEF RowOK
      <4>2. Closing(r)'
        BY <1>1, <3>1, <4>1 DEF Closing
      <4>3. QED BY <1>1, <2>3, <3>2, <4>2 DEF RowOK
    <3>3. CASE ~(r \in call.rids /\ call.op = "supersede")
      BY <1>1, <2>1, <2>3, <3>1, <3>3 DEF RowOK, AsAcked, Erasing
    <3>4. QED BY <3>2, <3>3
  <2>4. QED BY <2>2, <2>3
<1>10. WaitOK' /\ TodoOK' /\ FlushOK'
  BY <1>1, <1>4 DEF IInv, WaitOK, TodoOK, FlushOK, OneEach
<1>11. QED BY <1>5, <1>6, <1>7, <1>8, <1>9, <1>10 DEF InFlightOK

LEMMA EraseStep ==
  ASSUME IInv, EraseStmt
  PROVE  InFlightOK'
<1> DEFINE req == DeletePoints(Known(call.rids))
<1>1. /\ pc = "erase" /\ pc' = "erased" /\ Request(req, TRUE)
      /\ UNCHANGED <<idmap, call, todo, fresh, acked>>
  BY DEF EraseStmt
<1>2. call.op = "delete" /\ call.recs = NoRecs /\ DOMAIN call.recs = {}
  BY <1>1 DEF IInv, CallOK, NoRecs
<1>3. /\ queue'[COLL] # <<>> /\ waiting' = TRUE
      /\ LastSent' = req /\ Pending' = Pending \cup {req} /\ Copies' = Copies
  <2>1. req \in Requests /\ req.new = {} /\ ServerOK
    BY RequestTypes DEF IInv, ServerOK, DeletePoints
  <2> HIDE DEF req
  <2>2. QED BY <1>1, <2>1, SentCopies
<1>4. Known(call.rids)' = Known(call.rids)
  BY <1>1 DEF Known
<1>5. HistoryOK'
  BY <1>1 DEF IInv, HistoryOK
<1>6. CallOK'
  BY <1>1, <1>2 DEF CallOK
<1>7. \A x \in Pending' : RequestOK(x)'
  <2>1. \A x \in Pending : RequestOK(x)
    BY DEF IInv
  <2>2. QED BY <1>1, <1>2, <1>3, <1>4, <2>1 DEF RequestOK
<1>8. \A p \in (Copies \cup todo)' : p.nth = idmap'[p.rid]
  BY <1>1, <1>3 DEF IInv
<1>9. ASSUME NEW r \in Rid
      PROVE  RowOK(r)'
  <2>1. RowOK(r)
    BY DEF IInv
  <2>2. QED BY <1>1, <1>2, <1>3, <2>1 DEF RowOK, Erasing, AsAcked, CopiesOf, Settled
<1>10. WaitOK'
  BY <1>1, <1>3, <1>4 DEF WaitOK
<1>11. TodoOK' /\ FlushOK'
  BY <1>1 DEF IInv, TodoOK, FlushOK, OneEach
<1>12. QED BY <1>5, <1>6, <1>7, <1>8, <1>9, <1>10, <1>11 DEF InFlightOK

\* The rows a call leaves behind are a history without overlapping versions.
LEMMA OutcomeHistory ==
  ASSUME IInv, NEW r \in Rid, NEW s \in Rid, SameChain(r, s),
         Outcome[r] # Absent, Outcome[s] # Absent
  PROVE  Apart(Outcome[r], Outcome[s])
<1>1. /\ acked \in [Rid -> Interval \cup {Absent}] /\ HistoryOK /\ SameChain(s, r)
      /\ \A x \in Rid : Outcome[x] =
           IF x \in DOMAIN call.recs THEN call.recs[x]
           ELSE IF x \notin call.rids THEN acked[x]
           ELSE IF call.op = "supersede" THEN Closed(acked[x], call.at) ELSE Absent
  BY DEF IInv, TypeOK, SameChain, Outcome
<1>2. CASE call.op = "write"
  <2>1. call.rids = {} /\ FitsHistory(call.recs)
    BY <1>2 DEF IInv, CallOK, NoCall
  <2>2. \A x, y \in Rid :
          SameChain(x, y) /\ x \in DOMAIN call.recs
          => /\ acked[y] # Absent => Apart(call.recs[x], acked[y])
             /\ y \in DOMAIN call.recs => Apart(call.recs[x], call.recs[y])
    BY <2>1 DEF FitsHistory
  <2>3. QED BY <1>1, <2>1, <2>2 DEF HistoryOK, Apart
<1>3. CASE call.op = "supersede"
  <2>1. PICK rid \in Rid, new \in Rid :
          /\ rid # new /\ ChainOf[rid] = ChainOf[new]
          /\ call.rids = {rid} /\ DOMAIN call.recs = {new}
          /\ call.recs[new] = [from |-> call.at, until |-> TOpen]
          /\ call.at \in Instant
          /\ acked[rid] \in Interval /\ acked[new] = Absent
          /\ IsOpen(acked[rid]) /\ acked[rid].from <= call.at
    BY <1>3, SupersedeInHand
  <2> DEFINE old == acked[rid]
             succ == [from |-> call.at, until |-> TOpen]
  <2>2. /\ Outcome[rid] = Closed(old, call.at)
        /\ Outcome[new] = succ
        /\ \A x \in Rid : x \notin {rid, new} => Outcome[x] = acked[x]
    BY <1>1, <1>3, <2>1
  <2>3. ASSUME NEW x \in Rid, x \notin {rid, new}, ChainOf[x] = ChainOf[rid],
               acked[x] # Absent
        PROVE  /\ Apart(Closed(old, call.at), acked[x])
               /\ Apart(succ, acked[x])
    <3>1. acked[x] \in Interval /\ Apart(old, acked[x]) /\ acked[rid] # Absent
      BY <1>1, <2>1, <2>3, AbsentAssumption DEF HistoryOK, SameChain
    <3>2. QED BY <2>1, <3>1, ClosedStaysApart
  <2>4. Apart(Closed(old, call.at), succ)
    BY <2>1, SuccessorApart
  <2>5. CASE r \in {rid, new} /\ s \in {rid, new}
    BY <2>2, <2>4, <2>5 DEF SameChain, Apart
  <2>6. CASE r \in {rid, new} /\ s \notin {rid, new}
    <3>1. ChainOf[s] = ChainOf[rid] /\ acked[s] # Absent /\ Outcome[s] = acked[s]
      BY <1>1, <2>1, <2>2, <2>6 DEF SameChain
    <3>2. QED BY <2>2, <2>3, <2>6, <3>1
  <2>7. CASE r \notin {rid, new} /\ s \in {rid, new}
    <3>1. ChainOf[r] = ChainOf[rid] /\ acked[r] # Absent /\ Outcome[r] = acked[r]
      BY <1>1, <2>1, <2>2, <2>7 DEF SameChain
    <3>2. QED BY <2>2, <2>3, <2>7, <3>1 DEF Apart
  <2>8. CASE r \notin {rid, new} /\ s \notin {rid, new}
    BY <1>1, <2>2, <2>8 DEF HistoryOK
  <2>9. QED BY <2>5, <2>6, <2>7, <2>8
<1>4. CASE call.op \in {"none", "delete"}
  <2>1. DOMAIN call.recs = {}
    <3>1. call = NoCall \/ call.recs = NoRecs
      BY <1>4 DEF IInv, CallOK
    <3>2. call.recs = NoRecs
      BY <3>1 DEF NoCall
    <3>3. QED BY <3>2 DEF NoRecs
  <2>2. \A x \in Rid : Outcome[x] # Absent => Outcome[x] = acked[x]
    BY <1>1, <1>4, <2>1
  <2>3. QED BY <1>1, <2>2 DEF HistoryOK
<1>5. QED BY <1>2, <1>3, <1>4 DEF IInv, TypeOK

\* When a call returns, every row it was about has become what it wanted: the
\* request it waited for was the last one, and has been applied.
LEMMA ReturnStep ==
  ASSUME IInv, Return
  PROVE  InFlightOK'
<1>1. /\ pc \in {"insert", "erased"} /\ Ready /\ todo = {} /\ pc' = "idle" /\ call' = NoCall
      /\ acked' = Outcome /\ UNCHANGED <<points, queue, idmap, todo, fresh>>
  BY DEF Return
<1>2. Pending' = Pending /\ Copies' = Copies
  BY <1>1, SameServer
<1>3. /\ pc = "insert" => call.op \in {"write", "supersede"}
      /\ pc = "erased" => call.op = "delete" /\ DOMAIN call.recs = {}
  BY DEF IInv, CallOK, NoRecs
<1>4. pc = "erased" => Settled(COLL)
  BY <1>1 DEF IInv, WaitOK, Ready
<1>5. HistoryOK'
  BY <1>1, OutcomeHistory DEF HistoryOK, SameChain
<1>6. CallOK'
  BY <1>1 DEF CallOK
<1>7. \A x \in Pending' : RequestOK(x)'
  <2>1. \A x \in Pending : RequestOK(x)
    BY DEF IInv
  <2>2. CASE pc = "insert"
    BY <1>1, <1>2, <1>3, <2>1, <2>2 DEF RequestOK
  <2>3. CASE pc = "erased"
    BY <1>2, <1>4, <2>3, NothingPending DEF IInv, ServerOK, Settled
  <2>4. QED BY <1>1, <2>2, <2>3
<1>8. \A p \in (Copies \cup todo)' : p.nth = idmap'[p.rid]
  BY <1>1, <1>2 DEF IInv
<1>9. ASSUME NEW r \in Rid
      PROVE  RowOK(r)'
  <2>1. RowOK(r) /\ IsBatch(call.recs) /\ acked[r] \in Interval \cup {Absent}
    BY DEF IInv, TypeOK
  <2>2. acked'[r] = IF r \in DOMAIN call.recs THEN call.recs[r]
                    ELSE IF r \notin call.rids THEN acked[r]
                    ELSE IF call.op = "supersede" THEN Closed(acked[r], call.at) ELSE Absent
    BY <1>1 DEF Outcome
  <2>3. CopiesOf(r)' = CopiesOf(r)
    BY <1>2 DEF CopiesOf
  <2>4. AsAcked(r)'
    <3>1. CASE r \in DOMAIN call.recs
      <4>1. call.recs[r] # Absent
        BY <2>1, <3>1, AbsentAssumption DEF IsBatch
      <4>2. pc = "insert" /\ Inserting(r)
        BY <1>1, <1>3, <2>1, <3>1 DEF RowOK
      <4>3. TodoOf(r) = {}
        BY <1>1 DEF TodoOf
      <4>4. QED BY <2>2, <2>3, <3>1, <4>1, <4>2, <4>3 DEF AsAcked, Inserting
    <3>2. CASE r \notin DOMAIN call.recs /\ r \in call.rids /\ call.op = "supersede"
      <4>1. pc = "insert" /\ Closing(r)
        BY <1>1, <1>3, <2>1, <3>2 DEF RowOK
      <4>2. Closed(acked[r], call.at) # Absent
        BY <2>1, <3>2, <4>1, SupersedeInHand, ClosedInterval, AbsentAssumption DEF Closing
      <4>3. QED BY <2>2, <2>3, <3>2, <4>1, <4>2 DEF AsAcked, Closing
    <3>3. CASE r \notin DOMAIN call.recs /\ r \in call.rids /\ call.op # "supersede"
      <4>1. Erasing(r)
        BY <2>1, <3>3 DEF RowOK
      <4>2. pc = "erased"
        <5>1. call.op = "write" => call.rids = {}
          BY DEF IInv, CallOK, NoCall
        <5>2. QED BY <1>1, <1>3, <3>3, <5>1
      <4>3. CopiesOf(r) = {}
        BY <1>4, <4>1, <4>2 DEF Erasing
      <4>4. QED BY <2>2, <2>3, <3>3, <4>3 DEF AsAcked
    <3>4. CASE r \notin DOMAIN call.recs /\ r \notin call.rids
      BY <2>1, <2>2, <2>3, <3>4 DEF AsAcked, RowOK
    <3>5. QED BY <3>1, <3>2, <3>3, <3>4
  <2>5. QED BY <1>1, <2>4 DEF RowOK, NoCall, NoRecs
<1>10. WaitOK' /\ TodoOK' /\ FlushOK'
  BY <1>1 DEF IInv, WaitOK, TodoOK, FlushOK, OneEach
<1>11. QED BY <1>5, <1>6, <1>7, <1>8, <1>9, <1>10 DEF InFlightOK

\* What a call that raises has sent is as it was; it just is not waited for.
LEMMA FailStep ==
  ASSUME IInv, Fail
  PROVE  InFlightOK'
<1>1. /\ pc \in Running /\ pc' = "failed" /\ todo' = {}
      /\ UNCHANGED <<points, queue, idmap, call, fresh, acked>>
  BY DEF Fail
<1>2. Pending' = Pending /\ Copies' = Copies
  BY <1>1, SameServer
<1>3. HistoryOK'
  BY <1>1 DEF IInv, HistoryOK
<1>4. CallOK'
  <2>1. CallOK /\ pc # "idle"
    BY <1>1 DEF IInv, Running
  <2>2. CASE call.op = "supersede" /\ \E a, b \in Rid :
               /\ MaySupersede(a, b, call.at) /\ call.at \in Instant /\ call.rids = {a}
               /\ call.recs = [r \in {b} |-> [from |-> call.at, until |-> TOpen]]
    BY <1>1, <2>2 DEF CallOK, MaySupersede
  <2>3. CASE call.op = "write" /\ call.rids = {} /\ FitsHistory(call.recs)
    BY <1>1, <2>3 DEF CallOK, FitsHistory
  <2>4. CASE call.op = "delete" /\ call.recs = NoRecs
    BY <1>1, <2>4 DEF CallOK
  <2>5. QED BY <2>1, <2>2, <2>3, <2>4 DEF CallOK
<1>5. \A x \in Pending' : RequestOK(x)'
  <2>1. \A x \in Pending : RequestOK(x)
    BY DEF IInv
  <2>2. Known(call.rids)' = Known(call.rids)
    BY <1>1 DEF Known
  <2>3. QED BY <1>1, <1>2, <2>1, <2>2 DEF RequestOK
<1>6. \A p \in (Copies \cup todo)' : p.nth = idmap'[p.rid]
  BY <1>1, <1>2 DEF IInv
<1>7. ASSUME NEW r \in Rid
      PROVE  RowOK(r)'
  <2>1. RowOK(r) /\ CopiesOf(r)' = CopiesOf(r) /\ TodoOf(r)' = {}
    BY <1>1, <1>2 DEF IInv, CopiesOf, TodoOf
  <2>2. CASE r \in DOMAIN call.recs
    BY <1>1, <2>1, <2>2 DEF RowOK, Inserting
  <2>3. CASE r \notin DOMAIN call.recs /\ r \in call.rids /\ call.op = "supersede"
    <3>1. Closing(r)
      BY <2>1, <2>3 DEF RowOK
    <3>2. Closing(r)'
      BY <1>1, <1>2, <2>1, <3>1 DEF Closing, CopiesOf
    <3>3. QED BY <1>1, <2>3, <3>2 DEF RowOK
  <2>4. CASE r \notin DOMAIN call.recs /\ ~(r \in call.rids /\ call.op = "supersede")
    BY <1>1, <2>1, <2>4 DEF RowOK, Erasing, AsAcked
  <2>5. QED BY <2>2, <2>3, <2>4
<1>8. WaitOK' /\ TodoOK' /\ FlushOK'
  BY <1>1 DEF IInv, WaitOK, TodoOK, FlushOK, OneEach, Running
<1>9. QED BY <1>3, <1>4, <1>5, <1>6, <1>7, <1>8 DEF InFlightOK

\* A delete that is made again starts from what the failed one left.
LEMMA RetryStep ==
  ASSUME IInv, Retried \subseteq {"delete"}, Retry
  PROVE  InFlightOK'
<1>1. /\ pc = "failed" /\ pc' = "erase" /\ call.op = "delete"
      /\ UNCHANGED <<points, queue, idmap, todo, call, fresh, acked>>
  BY DEF Retry, Begin
<1>2. Pending' = Pending /\ Copies' = Copies
  BY <1>1, SameServer
<1>3. call.recs = NoRecs /\ DOMAIN call.recs = {}
  BY <1>1 DEF IInv, CallOK, NoRecs
<1>4. HistoryOK'
  BY <1>1 DEF IInv, HistoryOK
<1>5. CallOK'
  BY <1>1, <1>3 DEF CallOK
<1>6. \A x \in Pending' : RequestOK(x)'
  <2>1. \A x \in Pending : RequestOK(x)
    BY DEF IInv
  <2>2. Known(call.rids)' = Known(call.rids)
    BY <1>1 DEF Known
  <2>3. QED BY <1>1, <1>2, <2>1, <2>2 DEF RequestOK
<1>7. \A p \in (Copies \cup todo)' : p.nth = idmap'[p.rid]
  BY <1>1, <1>2 DEF IInv
<1>8. ASSUME NEW r \in Rid
      PROVE  RowOK(r)'
  <2>1. RowOK(r) /\ CopiesOf(r)' = CopiesOf(r)
    BY <1>2 DEF IInv, CopiesOf
  <2>2. QED BY <1>1, <1>3, <2>1 DEF RowOK, Erasing, AsAcked
<1>9. WaitOK' /\ TodoOK' /\ FlushOK'
  BY <1>1 DEF IInv, WaitOK, TodoOK, FlushOK, OneEach
<1>10. QED BY <1>4, <1>5, <1>6, <1>7, <1>8, <1>9 DEF InFlightOK

LEMMA FlushStep ==
  ASSUME IInv, Flush
  PROVE  InFlightOK'
<1>1. /\ pc = "idle" /\ pc' = "idle" /\ (status' = "green" => Settled(COLL))
      /\ UNCHANGED <<points, queue, idmap, call, todo, acked>>
  BY DEF Flush
<1>2. Pending' = Pending /\ Copies' = Copies
  BY <1>1, SameServer
<1>3. /\ \A req \in Pending : req.kind = "upsert" /\ OneEach(req.new)
      /\ \A r \in Rid : AsAcked(r)
      /\ DOMAIN call.recs = {} /\ call.rids = {}
  BY <1>1, AtRest
<1>4. HistoryOK'
  BY <1>1 DEF IInv, HistoryOK
<1>5. CallOK'
  BY <1>1 DEF IInv, CallOK
<1>6. \A x \in Pending' : RequestOK(x)'
  BY <1>2, <1>3 DEF RequestOK
<1>7. \A p \in (Copies \cup todo)' : p.nth = idmap'[p.rid]
  BY <1>1, <1>2 DEF IInv
<1>8. ASSUME NEW r \in Rid
      PROVE  RowOK(r)'
  BY <1>1, <1>2, <1>3 DEF RowOK, AsAcked, CopiesOf
<1>9. WaitOK' /\ TodoOK' /\ FlushOK'
  BY <1>1 DEF IInv, WaitOK, TodoOK, FlushOK, OneEach, Settled
<1>10. QED BY <1>4, <1>5, <1>6, <1>7, <1>8, <1>9 DEF InFlightOK

\* An empty collection with no call in progress satisfies the invariant.
LEMMA EmptyOK ==
  ASSUME points = [c \in {COLL} |-> {}], queue = [c \in {COLL} |-> <<>>],
         pc = "idle", call = NoCall, todo = {}, fresh = FALSE, acked = NoRows
  PROVE  InFlightOK
<1>1. Pending = {} /\ Copies = {}
  <2>1. queue[COLL] = <<>> /\ points[COLL] = {} /\ ServerOK
    BY EmptySeq DEF ServerOK
  <2>2. QED BY <2>1, NothingPending DEF Copies
<1>2. \A r \in Rid : acked[r] = Absent
  BY DEF NoRows
<1>3. HistoryOK
  BY <1>2 DEF HistoryOK
<1>4. \A r \in Rid : RowOK(r)
  BY <1>1, <1>2 DEF RowOK, AsAcked, CopiesOf, NoCall, NoRecs
<1>5. QED
  BY <1>1, <1>3, <1>4 DEF InFlightOK, CallOK, WaitOK, TodoOK, FlushOK, OneEach

LEMMA EmptyAgain ==
  (/\ points = [c \in {COLL} |-> {}] /\ queue = [c \in {COLL} |-> <<>>]
   /\ pc = "idle" /\ call = NoCall /\ todo = {} /\ fresh = FALSE /\ acked = NoRows)
  => InFlightOK
  BY EmptyOK

LEMMA ReconstructStep ==
  ASSUME Reconstruct
  PROVE  InFlightOK'
<1>1. (/\ points = [c \in {COLL} |-> {}] /\ queue = [c \in {COLL} |-> <<>>]
       /\ pc = "idle" /\ call = NoCall /\ todo = {} /\ fresh = FALSE /\ acked = NoRows)'
  BY DEF Reconstruct, Recreate, NoCall, NoRecs, NoRows
<1>2. QED BY <1>1, EmptyAgain, PTL

\* Applying a request brings the copies of a row to what the call wants them
\* to be, or leaves what they say as it was.
LEMMA ServerStep ==
  ASSUME IInv, ServerApplies
  PROVE  InFlightOK'
<1>1. UNCHANGED <<idmap, pc, call, todo, waiting, status, fresh, acked>>
  BY DEF ServerApplies, client
<1>2. /\ queue[COLL] # <<>> /\ Pending' \subseteq Pending
      /\ \A p \in Copies' :
           \/ p \in Copies
           \/ /\ call.op = "supersede" /\ p.rid \in call.rids /\ p.until = call.at
              /\ \E q \in Copies : q.rid = p.rid /\ q.nth = p.nth /\ q.from = p.from
      /\ \A q \in Copies :
           \/ \E p \in Copies' : p.rid = q.rid
           \/ call.op = "delete" /\ q.rid \in call.rids
      /\ queue'[COLL] = <<>> /\ pc = "closed" =>
           \A p \in Copies' : p.rid \in call.rids => p.until = call.at
      /\ queue'[COLL] = <<>> /\ pc = "erased" => \A p \in Copies' : p.rid \notin call.rids
      /\ queue'[COLL] # <<>> => LastSent' = LastSent
  BY AppliedCopies
<1>3. HistoryOK'
  BY <1>1 DEF IInv, HistoryOK
<1>4. CallOK'
  <2>1. CallOK
    BY DEF IInv
  <2>2. CASE call = NoCall /\ pc = "idle"
    BY <1>1, <2>2 DEF CallOK
  <2>3. CASE /\ call.op = "write" /\ pc \in {"insert", "failed"}
             /\ call.rids = {} /\ FitsHistory(call.recs)
    BY <1>1, <2>3 DEF CallOK, FitsHistory
  <2>4. CASE /\ call.op = "supersede" /\ pc \in {"close", "closed", "insert", "failed"}
             /\ \E a, b \in Rid :
                  /\ MaySupersede(a, b, call.at) /\ call.at \in Instant /\ call.rids = {a}
                  /\ call.recs = [r \in {b} |-> [from |-> call.at, until |-> TOpen]]
    BY <1>1, <2>4 DEF CallOK, MaySupersede
  <2>5. CASE call.op = "delete" /\ pc \in {"erase", "erased", "failed"} /\ call.recs = NoRecs
    BY <1>1, <2>5 DEF CallOK
  <2>6. QED BY <2>1, <2>2, <2>3, <2>4, <2>5 DEF CallOK
<1>5. \A x \in Pending' : RequestOK(x)'
  <2>1. \A x \in Pending : RequestOK(x)
    BY DEF IInv
  <2>2. Known(call.rids)' = Known(call.rids)
    BY <1>1 DEF Known
  <2>3. QED BY <1>1, <1>2, <2>1, <2>2 DEF RequestOK
<1>6. \A p \in (Copies \cup todo)' : p.nth = idmap'[p.rid]
  <2>1. \A p \in Copies \cup todo : p.nth = idmap[p.rid]
    BY DEF IInv
  <2>2. QED BY <1>1, <1>2, <2>1
<1>7. ASSUME NEW r \in Rid
      PROVE  RowOK(r)'
  <2>1. RowOK(r)
    BY DEF IInv
  <2>2. \A p \in CopiesOf(r)' :
          \/ p \in CopiesOf(r)
          \/ /\ call.op = "supersede" /\ r \in call.rids /\ p.until = call.at
             /\ \E q \in CopiesOf(r) : q.from = p.from
    BY <1>2 DEF CopiesOf
  <2>3. CopiesOf(r) # {} => CopiesOf(r)' # {} \/ (call.op = "delete" /\ r \in call.rids)
    BY <1>2 DEF CopiesOf
  <2>4. TodoOf(r)' = TodoOf(r)
    BY <1>1 DEF TodoOf
  <2>5. CASE r \in DOMAIN call.recs
    <3>1. Inserting(r)
      BY <2>1, <2>5 DEF RowOK
    <3>2. r \notin call.rids
      <4>1. call.recs # NoRecs
        BY <2>5 DEF NoRecs
      <4>2. call # NoCall
        BY <4>1 DEF NoCall
      <4>3. call.op = "supersede" \/ call.rids = {}
        BY <4>1, <4>2 DEF IInv, CallOK
      <4>4. QED BY <2>5, <4>3, SupersedeInHand
    <3>3. CopiesOf(r)' \subseteq CopiesOf(r) /\ (CopiesOf(r) # {} => CopiesOf(r)' # {})
      BY <2>2, <2>3, <3>2
    <3>4. Inserting(r)'
      BY <1>1, <2>4, <3>1, <3>3 DEF Inserting
    <3>5. QED BY <1>1, <2>5, <3>4 DEF RowOK
  <2>6. CASE r \notin DOMAIN call.recs /\ r \in call.rids /\ call.op = "supersede"
    <3>1. Closing(r)
      BY <2>1, <2>6 DEF RowOK
    <3>2. PICK rid \in Rid, new \in Rid :
            /\ rid # new /\ call.rids = {rid} /\ DOMAIN call.recs = {new}
            /\ acked[rid] \in Interval /\ call.at \in Instant
      BY <2>6, SupersedeInHand
    <3>3. \A p : p.from = acked[r].from /\ p.until = call.at => Says(p, Closed(acked[r], call.at))
      BY <2>6, <3>2, ClosedInterval DEF Says
    <3>4. Closed(acked[r], call.at).from = acked[r].from /\ Closed(acked[r], call.at).until = call.at
      BY <2>6, <3>2, ClosedInterval
    <3>5. \A p \in CopiesOf(r)' : Says(p, acked[r]) \/ Says(p, Closed(acked[r], call.at))
      BY <2>2, <3>1, <3>3, <3>4 DEF Closing, Says
    <3>6. CopiesOf(r)' # {}
      BY <2>3, <2>6, <3>1 DEF Closing
    <3>7. ASSUME \A p \in CopiesOf(r) : Says(p, Closed(acked[r], call.at))
          PROVE  \A p \in CopiesOf(r)' : Says(p, Closed(acked[r], call.at))
      BY <2>2, <3>3, <3>4, <3>7 DEF Says
    <3>8. ASSUME pc = "closed", queue'[COLL] = <<>>
          PROVE  \A p \in CopiesOf(r)' : Says(p, Closed(acked[r], call.at))
      <4>1. \A p \in CopiesOf(r)' : p.until = call.at
        BY <1>2, <2>6, <3>8 DEF CopiesOf
      <4>2. QED BY <3>4, <3>5, <4>1 DEF Says
    <3>9. ASSUME NEW s \in DOMAIN call.recs, CopiesOf(s)' # {}
          PROVE  CopiesOf(s) # {}
      BY <1>2, <3>2, <3>9 DEF CopiesOf
    <3>10. ASSUME \/ pc = "insert"
                  \/ pc = "closed" /\ queue'[COLL] = <<>>
                  \/ \E s \in DOMAIN call.recs : CopiesOf(s)' # {}
           PROVE  \A p \in CopiesOf(r)' : Says(p, Closed(acked[r], call.at))
      BY <3>1, <3>7, <3>8, <3>9, <3>10 DEF Closing
    <3>11. Closing(r)'
      BY <1>1, <3>1, <3>5, <3>6, <3>10 DEF Closing, Settled
    <3>12. QED BY <1>1, <2>6, <3>11 DEF RowOK
  <2>7. CASE r \notin DOMAIN call.recs /\ r \in call.rids /\ call.op # "supersede"
    <3>1. Erasing(r)
      BY <2>1, <2>7 DEF RowOK
    <3>2. CopiesOf(r)' \subseteq CopiesOf(r)
      BY <2>2, <2>7
    <3>3. pc = "erased" /\ queue'[COLL] = <<>> => CopiesOf(r)' = {}
      BY <1>2, <2>7 DEF CopiesOf
    <3>4. Erasing(r)'
      BY <1>1, <3>1, <3>2, <3>3 DEF Erasing, Settled
    <3>5. QED BY <1>1, <2>7, <3>4 DEF RowOK
  <2>8. CASE r \notin DOMAIN call.recs /\ r \notin call.rids
    <3>1. AsAcked(r)
      BY <2>1, <2>8 DEF RowOK
    <3>2. CopiesOf(r)' \subseteq CopiesOf(r) /\ (CopiesOf(r) # {} => CopiesOf(r)' # {})
      BY <2>2, <2>3, <2>8
    <3>3. AsAcked(r)'
      BY <1>1, <3>1, <3>2 DEF AsAcked
    <3>4. QED BY <1>1, <2>8, <3>3 DEF RowOK
  <2>9. QED BY <2>5, <2>6, <2>7, <2>8
<1>8. WaitOK'
  <2>1. Known(call.rids)' = Known(call.rids)
    BY <1>1 DEF Known
  <2>2. QED BY <1>1, <1>2, <2>1 DEF IInv, WaitOK, Settled
<1>9. TodoOK' /\ FlushOK'
  BY <1>1, <1>2 DEF IInv, TodoOK, FlushOK, OneEach, Settled
<1>10. QED BY <1>3, <1>4, <1>5, <1>6, <1>7, <1>8, <1>9 DEF InFlightOK

LEMMA StutterStep ==
  ASSUME IInv, UNCHANGED vars
  PROVE  InFlightOK'
<1>1. UNCHANGED <<points, queue, idmap, pc, call, todo, waiting, status, fresh, acked>>
  BY DEF vars, client
<1>2. HistoryOK' /\ CallOK' /\ WaitOK' /\ TodoOK' /\ FlushOK'
  BY <1>1 DEF IInv, HistoryOK, CallOK, WaitOK, TodoOK, FlushOK, FitsHistory, MaySupersede,
              Known, LastSent, Settled, OneEach
<1>3. Pending' = Pending /\ Copies' = Copies
  BY <1>1, SameServer
<1>4. \A x \in Pending' : RequestOK(x)'
  BY <1>1, <1>3 DEF IInv, RequestOK, Known
<1>5. \A p \in (Copies \cup todo)' : p.nth = idmap'[p.rid]
  BY <1>1, <1>3 DEF IInv
<1>6. ASSUME NEW r \in Rid
      PROVE  RowOK(r)'
  BY <1>1, <1>3 DEF IInv, RowOK, Inserting, Closing, Erasing, AsAcked, CopiesOf, TodoOf, Settled
<1>7. QED BY <1>2, <1>4, <1>5, <1>6 DEF InFlightOK

\* The invariant is inductive, if only deletes are repeated.
LEMMA InvStep ==
  ASSUME IInv, Retried \subseteq {"delete"}, [Next]_vars
  PROVE  IInv'
<1>1. TypesOK'
  BY TypeStep
<1>2. InFlightOK'
  <2>1. CASE UNCHANGED vars
    BY <2>1, StutterStep
  <2>2. CASE Next
    BY <2>2, WriteStep, SupersedeStep, DeleteStep, CloseStep, SuccessorStep, UpsertStep,
       EraseStep, ReturnStep, FailStep, RetryStep, FlushStep, ReconstructStep, ServerStep
    DEF Next
  <2>3. QED BY <2>1, <2>2
<1>3. QED BY <1>1, <1>2, InvParts, PTL

LEMMA InitInv == Init => IInv
<1> SUFFICES ASSUME Init
             PROVE  IInv
  OBVIOUS
<1>1. InFlightOK
  BY EmptyOK DEF Init, Empty
<1>2. TypesOK
  <2>1. ServerOK /\ points[COLL] = {}
    BY EmptySeq DEF Init, Empty, ServerOK
  <2>2. call.op = "none" /\ IsBatch(call.recs) /\ call.rids \subseteq Rid
    BY ArgumentTypes DEF Init, NoCall
  <2>3. counter \in 0 .. MaxWrites /\ 0 \in 0 .. counter
    BY BoundAssumption DEF Init
  <2>4. idmap \in [Rid -> 0 .. counter] /\ acked \in [Rid -> Interval \cup {Absent}]
    BY <2>3 DEF Init, NoRows
  <2>5. QED BY <2>1, <2>2, <2>3, <2>4 DEF Init, TypesOK, TypeOK
<1>3. QED BY <1>1, <1>2, InvParts

-----------------------------------------------------------------------------
(* Theorems.                                                                 *)

\* Writes, supersedes and deletes keep every copy of a row, stored or on its
\* way, between what it was and what the call makes of it.
THEOREM Invariance ==
  ASSUME Retried \subseteq {"delete"}
  PROVE  Spec => []IInv
<1>1. IInv /\ [Next]_vars => IInv'
  BY InvStep
<1>2. QED BY <1>1, InitInv, PTL DEF Spec

\* The adapter's and the server's state stay well typed, and no two points
\* have the same id.
THEOREM TypeCorrect ==
  ASSUME Retried \subseteq {"delete"}
  PROVE  Spec => []TypeOK
<1>1. IInv => TypeOK
  BY DEF IInv
<1>2. QED BY <1>1, Invariance, PTL

\* Between calls what is stored of a row is what the caller knows of it.
LEMMA StoredAsAcked ==
  ASSUME IInv, pc = "idle", NEW p \in points[COLL]
  PROVE  /\ p.rid \in Rid /\ acked[p.rid] # Absent /\ Says(p, acked[p.rid])
         /\ p.nth = idmap[p.rid] /\ p.nth # 0
<1>1. p \in Copies /\ p \in Points /\ p.nth = idmap[p.rid]
  BY CopiesTyped DEF IInv, ServerOK, Copies
<1>2. AsAcked(p.rid) /\ p.rid \in Rid /\ p.nth # 0
  BY <1>1, AtRest DEF Points
<1>3. p \in CopiesOf(p.rid)
  BY <1>1 DEF CopiesOf
<1>4. QED BY <1>1, <1>2, <1>3 DEF AsAcked

\* When nothing is pending either, every row the caller knows is stored.
LEMMA AckedIsStored ==
  ASSUME IInv, pc = "idle", Settled(COLL), NEW r \in Rid, acked[r] # Absent
  PROVE  \E p \in points[COLL] : p.rid = r
<1>1. Copies = points[COLL]
  BY NothingPending DEF IInv, ServerOK, Settled, Copies
<1>2. CopiesOf(r) # {}
  BY AtRest DEF AsAcked
<1>3. QED BY <1>1, <1>2 DEF CopiesOf

\* Between calls a read shows nothing deleted, outdated or out of scope,
\* however much of what was written is still pending.
THEOREM NothingStale ==
  ASSUME Retried \subseteq {"delete"}, Deployed
  PROVE  Spec => []NothingStaleReadable
<1>1. ASSUME IInv, pc = "idle", NEW tenant \in Tenants, NEW t \in Instants
      PROVE  Answer(tenant, t) \subseteq Truth(tenant, t)
  <2>1. ASSUME NEW p \in points[COLL], Selects(p.rid, p, tenant, t)
        PROVE  p.rid \in Truth(tenant, t)
    BY <1>1, <2>1, StoredAsAcked DEF Truth, Selects, HoldsAt, ValidAt, Says
  <2>2. QED BY <2>1 DEF Answer
<1>2. IInv => NothingStaleReadable
  BY <1>1 DEF NothingStaleReadable
<1>3. QED BY <1>2, Invariance, PTL

\* A row labelled green is measured on all the data, although flush() gives up
\* at its deadline.
THEOREM GreenIsExact ==
  ASSUME Retried \subseteq {"delete"}, Deployed
  PROVE  Spec => []GreenReadsExact
<1>1. ASSUME IInv, pc = "idle", fresh, status = "green",
             NEW tenant \in Tenants, NEW t \in Instants
      PROVE  Answer(tenant, t) = Truth(tenant, t)
  <2>1. Settled(COLL)
    BY <1>1 DEF IInv, FlushOK
  <2>2. ASSUME NEW p \in points[COLL], Selects(p.rid, p, tenant, t)
        PROVE  p.rid \in Truth(tenant, t)
    BY <1>1, <2>2, StoredAsAcked DEF Truth, Selects, HoldsAt, ValidAt, Says
  <2>3. ASSUME NEW r \in Truth(tenant, t)
        PROVE  r \in Answer(tenant, t)
    <3>1. r \in Rid /\ acked[r] # Absent /\ Asks(tenant, r) /\ HoldsAt(acked[r], t)
      BY <2>3 DEF Truth
    <3>2. PICK p \in points[COLL] : p.rid = r
      BY <1>1, <2>1, <3>1, AckedIsStored
    <3>3. Says(p, acked[r])
      BY <1>1, <3>2, StoredAsAcked
    <3>4. Selects(r, p, tenant, t)
      BY <3>1, <3>3 DEF Selects, HoldsAt, ValidAt, Says
    <3>5. QED BY <3>2, <3>4 DEF Answer
  <2>4. QED BY <2>2, <2>3 DEF Answer
<1>2. IInv => GreenReadsExact
  BY <1>1 DEF GreenReadsExact
<1>3. QED BY <1>2, Invariance, PTL

\* Between calls the self-report claims no deleted record, and denies no
\* stored one once its upsert has been applied.
THEOREM AuditIsTruthful ==
  ASSUME Retried \subseteq {"delete"}
  PROVE  Spec => []AuditTruthful
<1>1. ASSUME IInv, pc = "idle", NEW r \in Rid
      PROVE  /\ AuditPresent(r) => acked[r] # Absent
             /\ acked[r] # Absent /\ Settled(COLL) => AuditPresent(r)
  <2>1. \A p \in points[COLL] : /\ acked[p.rid] # Absent
                                /\ p.nth = idmap[p.rid] /\ p.nth # 0
    BY <1>1, StoredAsAcked
  <2>2. AuditPresent(r) => acked[r] # Absent
    BY <2>1 DEF AuditPresent, Id
  <2>3. ASSUME acked[r] # Absent, Settled(COLL)
        PROVE  AuditPresent(r)
    <3>1. PICK p \in points[COLL] : p.rid = r
      BY <1>1, <2>3, AckedIsStored
    <3>2. QED BY <2>1, <3>1 DEF AuditPresent, Id
  <2>4. QED BY <2>2, <2>3
<1>2. IInv => AuditTruthful
  BY <1>1 DEF AuditTruthful
<1>3. QED BY <1>2, Invariance, PTL

\* In every state, copies of two versions of one memory carry intervals that
\* are apart.
LEMMA CopiesApart ==
  ASSUME IInv, NEW p \in Copies, NEW q \in Copies, SameChain(p.rid, q.rid)
  PROVE  Apart(p, q)
<1> DEFINE r == p.rid
           s == q.rid
<1>1. r \in Rid /\ s \in Rid /\ p \in CopiesOf(r) /\ q \in CopiesOf(s)
  BY CopiesTyped DEF IInv, ServerOK, Points, CopiesOf
<1>2. /\ RowOK(r) /\ RowOK(s) /\ acked \in [Rid -> Interval \cup {Absent}] /\ HistoryOK
      /\ \A x \in Rid : RowOK(x)
  BY <1>1 DEF IInv, TypeOK
<1>3. SameChain(r, s) /\ SameChain(s, r)
  BY DEF SameChain
<1> HIDE DEF r, s
<1>4. ASSUME NEW a, NEW b, Says(p, a), Says(q, b), Apart(a, b) \/ Apart(b, a)
      PROVE  Apart(p, q)
  BY <1>4 DEF Says, Apart
<1>5. CASE call.op = "write"
  <2>1. call.rids = {} /\ FitsHistory(call.recs)
    BY <1>5 DEF IInv, CallOK, NoCall
  <2>2. \A x, y \in Rid :
          SameChain(x, y) /\ x \in DOMAIN call.recs
          => /\ acked[y] # Absent => Apart(call.recs[x], acked[y])
             /\ y \in DOMAIN call.recs => Apart(call.recs[x], call.recs[y])
    BY <2>1 DEF FitsHistory
  <2>3. /\ r \in DOMAIN call.recs => Says(p, call.recs[r])
        /\ r \notin DOMAIN call.recs => acked[r] # Absent /\ Says(p, acked[r])
        /\ s \in DOMAIN call.recs => Says(q, call.recs[s])
        /\ s \notin DOMAIN call.recs => acked[s] # Absent /\ Says(q, acked[s])
    BY <1>1, <1>2, <1>5, <2>1 DEF RowOK, Inserting, AsAcked
  <2>4. QED BY <1>1, <1>2, <1>3, <1>4, <2>2, <2>3 DEF HistoryOK
<1>6. CASE call.op = "supersede"
  <2>1. PICK rid \in Rid, new \in Rid :
          /\ rid # new /\ ChainOf[rid] = ChainOf[new]
          /\ call.rids = {rid} /\ DOMAIN call.recs = {new}
          /\ call.recs[new] = [from |-> call.at, until |-> TOpen]
          /\ call.at \in Instant
          /\ acked[rid] \in Interval /\ acked[new] = Absent
          /\ IsOpen(acked[rid]) /\ acked[rid].from <= call.at
          /\ Closing(rid) /\ Inserting(new)
    BY <1>6, SupersedeInHand
  <2> DEFINE old == acked[rid]
             succ == [from |-> call.at, until |-> TOpen]
             shut == Closed(old, call.at)
  <2>2. ASSUME NEW x \in Rid, NEW y \in Rid, SameChain(x, y),
               NEW c \in CopiesOf(x), NEW d \in CopiesOf(y)
        PROVE  /\ x = rid => Says(c, old) \/ Says(c, shut)
               /\ x = rid /\ y = new => Says(c, shut)
               /\ x = new => Says(c, succ)
               /\ x \notin {rid, new} => acked[x] # Absent /\ Says(c, acked[x])
    <3>1. RowOK(x)
      BY <1>2
    <3>2. x = rid => Says(c, old) \/ Says(c, shut)
      BY <2>1 DEF Closing
    <3>3. x = rid /\ y = new => Says(c, shut)
      BY <2>1 DEF Closing
    <3>4. x = new => Says(c, succ)
      BY <2>1 DEF Inserting
    <3>5. x \notin {rid, new} => acked[x] # Absent /\ Says(c, acked[x])
      BY <2>1, <3>1 DEF RowOK, AsAcked
    <3>6. QED BY <3>2, <3>3, <3>4, <3>5
  <2>3. ASSUME NEW x \in Rid, x \notin {rid, new}, ChainOf[x] = ChainOf[rid],
               acked[x] # Absent
        PROVE  /\ Apart(old, acked[x]) /\ Apart(shut, acked[x])
               /\ Apart(succ, acked[x])
    <3>1. acked[x] \in Interval /\ Apart(old, acked[x]) /\ acked[rid] # Absent
      BY <1>2, <2>1, <2>3, AbsentAssumption DEF HistoryOK, SameChain
    <3>2. QED BY <2>1, <3>1, ClosedStaysApart
  <2>4. Apart(shut, succ)
    BY <2>1, SuccessorApart
  <2> HIDE DEF old, succ, shut
  <2>5. CASE r \in {rid, new} /\ s \in {rid, new}
    <3>1. r # s
      BY <1>3 DEF SameChain
    <3>2. CASE r = rid
      BY <1>1, <1>3, <1>4, <2>2, <2>4, <2>5, <3>1, <3>2
    <3>3. CASE r = new
      BY <1>1, <1>3, <1>4, <2>2, <2>4, <2>5, <3>1, <3>3
    <3>4. QED BY <2>5, <3>2, <3>3
  <2>6. CASE r \in {rid, new} /\ s \notin {rid, new}
    <3>1. ChainOf[s] = ChainOf[rid] /\ acked[s] # Absent /\ Says(q, acked[s])
      BY <1>1, <1>3, <2>1, <2>2, <2>6 DEF SameChain
    <3>2. Says(p, old) \/ Says(p, shut) \/ Says(p, succ)
      BY <1>1, <1>3, <2>2, <2>6
    <3>3. QED BY <1>1, <1>4, <2>3, <2>6, <3>1, <3>2
  <2>7. CASE r \notin {rid, new} /\ s \in {rid, new}
    <3>1. ChainOf[r] = ChainOf[rid] /\ acked[r] # Absent /\ Says(p, acked[r])
      BY <1>1, <1>3, <2>1, <2>2, <2>7 DEF SameChain
    <3>2. Says(q, old) \/ Says(q, shut) \/ Says(q, succ)
      BY <1>1, <1>3, <2>2, <2>7
    <3>3. QED BY <1>1, <1>4, <2>3, <2>7, <3>1, <3>2
  <2>8. CASE r \notin {rid, new} /\ s \notin {rid, new}
    <3>1. /\ acked[r] # Absent /\ Says(p, acked[r])
          /\ acked[s] # Absent /\ Says(q, acked[s])
      BY <1>1, <1>3, <2>2, <2>8
    <3>2. Apart(acked[r], acked[s])
      BY <1>1, <1>2, <1>3, <3>1 DEF HistoryOK
    <3>3. QED BY <1>4, <3>1, <3>2
  <2>9. QED BY <2>5, <2>6, <2>7, <2>8
<1>7. CASE call.op \in {"none", "delete"}
  <2>1. DOMAIN call.recs = {}
    <3>1. call = NoCall \/ call.recs = NoRecs
      BY <1>7 DEF IInv, CallOK
    <3>2. call.recs = NoRecs
      BY <3>1 DEF NoCall
    <3>3. QED BY <3>2 DEF NoRecs
  <2>2. /\ acked[r] # Absent /\ Says(p, acked[r])
        /\ acked[s] # Absent /\ Says(q, acked[s])
    BY <1>1, <1>2, <1>7, <2>1 DEF RowOK, Erasing, AsAcked
  <2>3. Apart(acked[r], acked[s])
    BY <1>1, <1>2, <1>3, <2>2 DEF HistoryOK
  <2>4. QED BY <1>4, <2>2, <2>3
<1>8. QED BY <1>5, <1>6, <1>7 DEF IInv, TypeOK

\* No as_of read ever returns two versions of one memory, whatever requests
\* are still queued and whichever of them raised.
THEOREM NeverTwoVersions ==
  ASSUME Retried \subseteq {"delete"}
  PROVE  Spec => []AtMostOneVersion
<1>1. ASSUME IInv, NEW r \in Rid, NEW s \in Rid, NEW t \in Instant, SameChain(r, s)
      PROVE  ~({r, s} \subseteq Answer(AnyTenant, t))
  <2>1. t # Always /\ t \in Int
    BY InstantAssumption DEF Always
  <2>2. SUFFICES ASSUME NEW p \in points[COLL], NEW q \in points[COLL],
                        p.rid = r, q.rid = s, ValidAt(p, t), ValidAt(q, t)
                 PROVE  FALSE
    BY <2>1 DEF Answer, Selects, HoldsAt
  <2>3. p \in Copies /\ q \in Copies /\ Apart(p, q)
    BY <1>1, <2>2, CopiesApart DEF Copies
  <2>4. p \in Points /\ q \in Points
    BY <1>1, <2>3, CopiesTyped DEF IInv, ServerOK
  <2>5. p.from \in Int /\ q.from \in Int /\ p.until \in Int /\ q.until \in Int
    <3>1. /\ p.from \in Instant /\ p.until \in Instant \cup {TOpen}
          /\ q.from \in Instant /\ q.until \in Instant \cup {TOpen}
      BY <2>4 DEF Points
    <3>2. Instant \subseteq Int /\ TOpen \in Int
      BY InstantAssumption
    <3>3. QED BY <3>1, <3>2
  <2>6. QED BY <2>1, <2>2, <2>3, <2>5 DEF ValidAt, Apart
<1>2. IInv => AtMostOneVersion
  BY <1>1 DEF AtMostOneVersion
<1>3. QED BY <1>2, Invariance, PTL

-----------------------------------------------------------------------------
(* Refinement: what the requests on their way make of a row.                 *)

LEMMA SentBehind ==
  ASSUME ServerOK, NoUpsertBehind, NEW req \in Requests, Send(COLL, req),
         req.kind # "upsert" \/ \A x \in Pending : x.kind = "upsert"
  PROVE  NoUpsertBehind'
<1> DEFINE q == queue[COLL]
           n == Len(q)
           s == Append(q, req)
<1>1. q \in Seq(Requests) /\ queue' = [queue EXCEPT ![COLL] = s]
  BY DEF ServerOK, Send
<1>2. n \in Nat /\ DOMAIN q = 1 .. n
  BY <1>1, LenProperties
<1>3. /\ s[n + 1] = req /\ DOMAIN s = 1 .. n + 1
      /\ \A i \in 1 .. n : s[i] = q[i]
  BY <1>1, <1>2
<1>4. queue'[COLL] = s
  BY <1>1 DEF ServerOK
<1>5. \A i \in 1 .. n : q[i] \in Pending
  BY <1>2 DEF Pending
<1>6. \A i, j \in 1 .. n : i < j /\ q[i].kind # "upsert" => q[j].kind # "upsert"
  BY <1>2 DEF NoUpsertBehind
<1> HIDE DEF q, n, s
<1>7. \A i, j \in 1 .. n + 1 : i < j => i \in 1 .. n /\ (j \in 1 .. n \/ j = n + 1)
  BY <1>2
<1>8. \A i, j \in 1 .. n + 1 : i < j /\ s[i].kind # "upsert" => s[j].kind # "upsert"
  BY <1>3, <1>5, <1>6, <1>7
<1>9. QED BY <1>3, <1>4, <1>8 DEF NoUpsertBehind

\* A request that has names has those of all copies of the rows of the call.
LEMMA NamesRows ==
  ASSUME IInv, NEW p \in Copies
  PROVE  /\ p \in Points /\ p.rid \in Rid
         /\ \A req \in Pending :
              req.kind # "upsert" =>
                /\ req.new = {}
                /\ Id(p) \in req.ids <=> p.rid \in call.rids
                /\ \/ req.kind = "delete" /\ call.op = "delete"
                   \/ /\ req.kind = "set_payload" /\ req.until = call.at /\ call.at \in Instant
                      /\ call.op = "supersede" /\ pc \in {"closed", "failed"}
<1>1. p \in Points /\ p.nth = idmap[p.rid]
  BY CopiesTyped DEF IInv, ServerOK
<1>2. p.rid \in Rid /\ p.nth # 0
  BY <1>1 DEF Points
<1>3. Id(p) \in Known(call.rids) <=> p.rid \in call.rids
  BY <1>1, <1>2 DEF Known, Id
<1>4. ASSUME NEW req \in Pending, req.kind # "upsert"
      PROVE  /\ req.new = {} /\ req.ids = Known(call.rids)
             /\ \/ req.kind = "delete" /\ call.op = "delete"
                \/ /\ req.kind = "set_payload" /\ req.until = call.at
                   /\ call.op = "supersede" /\ pc \in {"closed", "failed"}
  <2>1. RequestOK(req)
    BY DEF IInv
  <2>2. QED BY <1>4, <2>1 DEF RequestOK, SetUntil, DeletePoints
<1>5. call.op = "supersede" => call.at \in Instant
  BY SupersedeInHand
<1>6. QED BY <1>1, <1>2, <1>3, <1>4, <1>5

Deleting == \E req \in Pending : req.kind = "delete"

Shutting == \E req \in Pending : req.kind = "set_payload"

\* A row is gone if it has no copy or a delete of it is on its way; else it is
\* as its copies say, or ended where a set_payload is on its way.
HeldFacts ==
  \A r \in Rid :
    /\ CopiesOf(r) = {} \/ (r \in call.rids /\ Deleting) => LastCopies[r] = Absent
    /\ ~(r \in call.rids /\ Deleting) =>
         \A p \in CopiesOf(r) :
           LastCopies[r] = [from |-> p.from,
                            until |-> IF r \in call.rids /\ Shutting THEN call.at ELSE p.until]

LEMMA RowsHeld == StoreInv => HeldFacts
<1> SUFFICES ASSUME StoreInv, NEW r \in Rid
             PROVE  /\ CopiesOf(r) = {} \/ (r \in call.rids /\ Deleting) => LastCopies[r] = Absent
                    /\ ~(r \in call.rids /\ Deleting) =>
                         \A p \in CopiesOf(r) :
                           LastCopies[r] = [from |-> p.from,
                                            until |-> IF r \in call.rids /\ Shutting
                                                      THEN call.at ELSE p.until]
  BY DEF HeldFacts
<1> DEFINE Heir(p) == IF p.rid \in call.rids /\ Shutting THEN [p EXCEPT !.until = call.at] ELSE p
           held == {Heir(p) : p \in {q \in Copies : ~(q.rid \in call.rids /\ Deleting)}}
<1>1. IInv /\ OneEach(Copies) /\ \A p \in Copies : p.nth = idmap[p.rid]
  BY DEF StoreInv, QueueOK, IInv
<1>2. \A p \in Copies :
        /\ p \in Points /\ p.rid \in Rid
        /\ Naming(COLL, "delete", p) # {} <=> p.rid \in call.rids /\ Deleting
        /\ Naming(COLL, "set_payload", p) # {} <=> p.rid \in call.rids /\ Shutting
        /\ \A req \in Naming(COLL, "set_payload", p) : req.until = call.at
  BY <1>1, NamesRows DEF Naming, Received, Pending, Deleting, Shutting
<1>3. Held(COLL) = held
  <2>1. Copies = points[COLL] \cup UNION {req.new : req \in Received(COLL)}
    BY DEF Copies, Received, Pending
  <2>2. {q \in Copies : Naming(COLL, "delete", q) = {}}
          = {q \in Copies : ~(q.rid \in call.rids /\ Deleting)}
    BY <1>2
  <2>3. \A p \in Copies :
          Heir(p) = IF Naming(COLL, "set_payload", p) = {} THEN p
                    ELSE [p EXCEPT !.until =
                            (CHOOSE req \in Naming(COLL, "set_payload", p) : TRUE).until]
    BY <1>2
  <2> HIDE DEF Heir
  <2>4. QED BY <2>1, <2>2, <2>3 DEF Held
<1>4. \A p \in Copies : Heir(p).rid = p.rid /\ Heir(p).from = p.from
        /\ Heir(p).until = IF p.rid \in call.rids /\ Shutting THEN call.at ELSE p.until
  BY <1>2 DEF Points
<1>5. LastCopies[r] = IF \A p \in held : p.rid # r THEN Absent
                      ELSE LET p == CHOOSE q \in held : q.rid = r
                           IN  [from |-> p.from, until |-> p.until]
  BY <1>3 DEF LastCopies
<1>6. \A p, q \in CopiesOf(r) : p = q
  BY <1>1, <1>2 DEF CopiesOf, OneEach, Id
<1> HIDE DEF Heir
<1>7. ASSUME CopiesOf(r) = {} \/ (r \in call.rids /\ Deleting)
      PROVE  LastCopies[r] = Absent
  BY <1>4, <1>5, <1>7 DEF CopiesOf
<1>8. ASSUME ~(r \in call.rids /\ Deleting), NEW p \in CopiesOf(r)
      PROVE  LastCopies[r] = [from |-> p.from,
                              until |-> IF r \in call.rids /\ Shutting THEN call.at ELSE p.until]
  <2>1. p \in Copies /\ p.rid = r /\ Heir(p) \in held /\ Heir(p).rid = r
    BY <1>4, <1>8 DEF CopiesOf
  <2>2. \A q \in held : q.rid = r => q = Heir(p)
    BY <1>4, <1>6, <2>1 DEF CopiesOf
  <2>3. (CHOOSE q \in held : q.rid = r) = Heir(p)
    BY <2>1, <2>2
  <2> HIDE DEF held
  <2>4. LastCopies[r] = [from |-> Heir(p).from, until |-> Heir(p).until]
    BY <1>5, <2>1, <2>3
  <2>5. QED BY <1>4, <2>1, <2>4
<1>9. QED BY <1>7, <1>8

\* An upsert is sent only while nothing but upserts is on its way, and its
\* points are new, or like the copies of the same id.
LEMMA InsertFacts ==
  ASSUME StoreInv, pc = "insert", NEW chunk \in SUBSET todo
  PROVE  /\ \A x \in Pending : x.kind = "upsert"
         /\ call.op \in {"write", "supersede"}
         /\ OneEach(Copies \cup chunk)
         /\ chunk \subseteq Points
         /\ \A p \in chunk : p.rid \in Rid /\ p.rid \in DOMAIN call.recs
<1>1. IInv /\ OneEach(Copies)
  BY DEF StoreInv, QueueOK
<1>2. call.op \in {"write", "supersede"}
  BY <1>1 DEF IInv, CallOK
<1>3. \A x \in Pending : RequestOK(x)
  BY <1>1 DEF IInv
<1>4. \A x \in Pending : x.kind = "upsert"
  BY <1>2, <1>3 DEF RequestOK
<1>5. /\ OneEach(todo) /\ \A p \in todo : p.rid \in DOMAIN call.recs
      /\ \A p \in Copies \cup todo : p.nth = idmap[p.rid]
      /\ Copies \cup todo \subseteq Points
  BY <1>1, CopiesTyped DEF IInv, TodoOK, ServerOK, TypeOK
<1>6. ASSUME NEW p \in Copies \cup chunk, NEW q \in chunk, Id(p) = Id(q)
      PROVE  p = q
  <2>1. p.rid = q.rid /\ p.nth = q.nth /\ q.rid \in Rid /\ p \in Points /\ q \in Points
    BY <1>5, <1>6 DEF Id, Points
  <2>2. Inserting(q.rid)
    BY <1>1, <1>5, <2>1 DEF IInv, RowOK
  <2>3. Says(p, call.recs[q.rid]) /\ Says(q, call.recs[q.rid])
    BY <2>1, <2>2 DEF Inserting, CopiesOf, TodoOf
  <2>4. QED BY <2>1, <2>3 DEF Says, Points
<1>7. OneEach(Copies \cup chunk)
  BY <1>1, <1>6 DEF OneEach
<1>8. QED BY <1>2, <1>4, <1>5, <1>7 DEF Points

\* Applying a request makes of the copies what its being on its way foretold.
LEMMA AppliedQueue ==
  ASSUME StoreInv, ServerApplies
  PROVE  /\ QueueOK' /\ call' = call
         /\ \/ /\ Copies' = Copies
               /\ Deleting' = Deleting /\ Shutting' = Shutting
            \/ /\ Shutting /\ ~Deleting /\ ~Deleting'
               /\ Copies' = {IF p.rid \in call.rids THEN [p EXCEPT !.until = call.at] ELSE p :
                               p \in Copies}
            \/ /\ Deleting /\ ~Shutting /\ ~Shutting'
               /\ Copies' = {p \in Copies : p.rid \notin call.rids}
<1> DEFINE pts == points[COLL]
<1>1. /\ IInv /\ ServerOK /\ NoUpsertBehind /\ OneEach(Copies) /\ Apply(COLL) /\ call' = call
      /\ \A x \in Pending : RequestOK(x)
  BY DEF StoreInv, QueueOK, IInv, ServerOK, ServerApplies, client
<1>2. PICK req \in Pending :
        /\ req \in Requests
        /\ points' = [points EXCEPT ![COLL] = Effect(points[COLL], req)]
        /\ Pending' \subseteq Pending /\ Pending \subseteq Pending' \cup {req}
        /\ NoUpsertBehind'
        /\ req.kind # "upsert" => \A x \in Pending : x.kind # "upsert"
  BY <1>1, AppliedRequest
<1>3. points'[COLL] = Effect(pts, req)
  BY <1>1, <1>2 DEF ServerOK
<1>4. /\ Copies = pts \cup UNION {x.new : x \in Pending}
      /\ Copies' = Effect(pts, req) \cup UNION {x.new : x \in Pending'}
  BY <1>3 DEF Copies
<1>5. Copies \subseteq Points
  BY <1>1, CopiesTyped
<1> HIDE DEF pts
<1>6. CASE req.kind = "upsert"
  <2>1. Effect(pts, req) = {p \in pts : Id(p) \notin {Id(x) : x \in req.new}} \cup req.new
    BY <1>6 DEF Effect, Without
  <2>2. req.new \subseteq Copies /\ pts \subseteq Copies
    BY <1>2, <1>4
  <2>3. \A p \in pts : p \in Effect(pts, req)
    <3>1. \A p \in pts, x \in req.new : Id(p) = Id(x) => p = x
      BY <1>1, <2>2 DEF OneEach
    <3>2. QED BY <2>1, <3>1
  <2>4. Copies' = Copies
    BY <1>2, <1>4, <2>1, <2>2, <2>3
  <2>5. Deleting' = Deleting /\ Shutting' = Shutting
    <3>1. \A x \in Pending : x.kind # "upsert" => x \in Pending'
      BY <1>2, <1>6
    <3>2. QED BY <1>2, <3>1 DEF Deleting, Shutting
  <2>6. QueueOK'
    BY <1>1, <1>2, <2>4 DEF QueueOK, OneEach
  <2>7. QED BY <1>1, <2>4, <2>5, <2>6
<1>7. CASE req.kind # "upsert"
  <2>1. /\ \A x \in Pending : x.kind # "upsert" /\ x.new = {}
        /\ req.ids = Known(call.rids)
        /\ \/ req.kind = "delete" /\ call.op = "delete"
           \/ /\ req.kind = "set_payload" /\ req.until = call.at /\ call.op = "supersede"
    BY <1>1, <1>2, <1>7 DEF RequestOK, SetUntil, DeletePoints
  <2>2. Copies = pts /\ Copies' = Effect(pts, req)
    BY <1>2, <1>4, <2>1
  <2>3. \A p \in pts : Id(p) \in req.ids <=> p.rid \in call.rids
    BY <1>1, <1>2, <1>7, <2>2, NamesRows
  <2>4. \A x \in Pending : x.kind = req.kind
    BY <1>1, <1>2, <2>1 DEF RequestOK, SetUntil, DeletePoints
  <2>5. CASE req.kind = "set_payload"
    <3> DEFINE Shut(p) == IF p.rid \in call.rids THEN [p EXCEPT !.until = call.at] ELSE p
    <3>1. Effect(pts, req)
            = {IF Id(p) \in req.ids THEN [p EXCEPT !.until = req.until] ELSE p : p \in pts}
      BY <2>5 DEF Effect
    <3>2. Copies' = {Shut(p) : p \in Copies}
      BY <2>1, <2>2, <2>3, <2>5, <3>1
    <3>3. Shutting /\ ~Deleting /\ ~Deleting'
      BY <1>2, <2>4, <2>5 DEF Shutting, Deleting
    <3>4. \A p, q \in Points : Id(p) = Id(q) <=> p.rid = q.rid /\ p.nth = q.nth
      BY DEF Id
    <3>5. \A p \in Copies : Shut(p).rid = p.rid /\ Shut(p).nth = p.nth
      BY <1>5 DEF Points
    <3>6. \A p \in Copies : Id(Shut(p)) = Id(p)
      BY <3>5 DEF Id
    <3> HIDE DEF Shut
    <3>7. \A p, q \in Copies : Id(Shut(p)) = Id(Shut(q)) => p = q
      BY <1>1, <3>6 DEF OneEach
    <3>8. OneEach(Copies')
      BY <3>2, <3>7 DEF OneEach
    <3>9. QueueOK'
      BY <1>2, <3>8 DEF QueueOK, OneEach
    <3>10. QED BY <1>1, <3>2, <3>3, <3>9 DEF Shut
  <2>6. CASE req.kind = "delete"
    <3>1. Effect(pts, req) = {p \in pts : Id(p) \notin req.ids}
      BY <2>6 DEF Effect, Without
    <3>2. Copies' = {p \in Copies : p.rid \notin call.rids}
      BY <2>2, <2>3, <3>1
    <3>3. Deleting /\ ~Shutting /\ ~Shutting'
      BY <1>2, <2>4, <2>6 DEF Shutting, Deleting
    <3>4. QueueOK'
      BY <1>1, <1>2, <3>2 DEF QueueOK, OneEach
    <3>5. QED BY <1>1, <3>2, <3>3, <3>4
  <2>7. QED BY <2>1, <2>5, <2>6
<1>8. QED BY <1>6, <1>7

\* What a step that sends a request, or none, does to the queue.
LEMMA QueueStep ==
  ASSUME StoreInv, [Next]_vars
  PROVE  QueueOK'
<1>1. IInv /\ QueueOK /\ NoUpsertBehind /\ OneEach(Copies) /\ ServerOK
  BY DEF StoreInv, QueueOK, IInv, ServerOK
<1>2. CASE UNCHANGED <<points, queue>>
  <2>1. Copies' = Copies /\ queue' = queue
    BY <1>2, SameServer
  <2>2. QED BY <1>1, <2>1 DEF QueueOK, NoUpsertBehind, OneEach
<1>3. ASSUME NEW req \in Requests, NEW wait, Request(req, wait),
             req.kind # "upsert" \/ \A x \in Pending : x.kind = "upsert",
             OneEach(Copies \cup req.new)
      PROVE  QueueOK'
  <2>1. Send(COLL, req) /\ Copies' = Copies \cup req.new
    BY <1>1, <1>3, SentCopies DEF Request
  <2>2. NoUpsertBehind'
    BY <1>1, <1>3, <2>1, SentBehind
  <2>3. QED BY <1>3, <2>1, <2>2 DEF QueueOK, OneEach
<1>4. CASE CloseStmt
  <2>1. SetUntil(Known(call.rids), call.at) \in Requests
    BY <1>1, <1>4, RequestTypes DEF CloseStmt, IInv, CallOK
  <2>2. CASE Request(SetUntil(Known(call.rids), call.at), TRUE)
    BY <1>1, <1>3, <2>1, <2>2 DEF SetUntil
  <2>3. QED BY <1>2, <1>4, <2>2 DEF CloseStmt
<1>5. ASSUME NEW chunk \in SUBSET todo, UpsertStmt(chunk)
      PROVE  QueueOK'
  <2> DEFINE small == Cardinality(DOMAIN call.recs) <= CH
  <2>1. pc = "insert" /\ Request(Upsert(chunk), small)
    BY <1>5 DEF UpsertStmt
  <2> HIDE DEF small
  <2>2. Upsert(chunk) \in Requests /\ Upsert(chunk).new = chunk
    BY <1>1, RequestTypes DEF Upsert
  <2>3. QED BY <1>3, <2>1, <2>2, InsertFacts
<1>6. CASE EraseStmt
  <2> DEFINE req == DeletePoints(Known(call.rids))
  <2>1. req \in Requests /\ req.kind = "delete" /\ req.new = {}
    BY <1>1, RequestTypes DEF DeletePoints
  <2>2. Request(req, TRUE)
    BY <1>6 DEF EraseStmt
  <2> HIDE DEF req
  <2>3. QED BY <1>1, <1>3, <2>1, <2>2
<1>7. CASE Reconstruct
  <2>1. points'[COLL] = {} /\ queue'[COLL] = <<>>
    BY <1>7 DEF Reconstruct, Recreate
  <2>2. DOMAIN queue'[COLL] = {}
    BY <2>1, EmptySeq
  <2>3. Copies' = {}
    BY <2>1, <2>2 DEF Copies, Pending
  <2>4. QED BY <2>2, <2>3 DEF QueueOK, NoUpsertBehind, OneEach
<1>8. CASE ServerApplies
  BY <1>8, AppliedQueue
<1>9. QED
  BY <1>2, <1>4, <1>5, <1>6, <1>7, <1>8
  DEF Next, vars, Write, Supersede, Delete, Call, Successor, Return, Fail, Retry, Flush

\* The inductive invariant of the refinement.
THEOREM StoreInvariance ==
  ASSUME Retried \subseteq {"delete"}
  PROVE  Spec => []StoreInv
<1>1. Init => StoreInv
  <2> SUFFICES ASSUME Init PROVE StoreInv
    OBVIOUS
  <2>1. points[COLL] = {} /\ queue[COLL] = <<>>
    BY DEF Init, Empty
  <2>2. DOMAIN queue[COLL] = {}
    BY <2>1, EmptySeq
  <2>3. QueueOK
    BY <2>1, <2>2 DEF QueueOK, NoUpsertBehind, OneEach, Copies, Pending
  <2>4. QED BY <2>3, InitInv DEF StoreInv
<1>2. StoreInv /\ [Next]_vars => StoreInv'
  <2>1. IInv /\ [Next]_vars => IInv'
    BY InvStep
  <2>2. QED BY <2>1, QueueStep DEF StoreInv
<1>3. QED BY <1>1, <1>2, PTL DEF Spec

HeldTyped == LastCopies \in [Rid -> Interval \cup {Absent}]

LEMMA HeldTypes == StoreInv => HeldTyped
<1> SUFFICES ASSUME StoreInv PROVE HeldTyped
  OBVIOUS
<1>1. HeldFacts /\ IInv /\ Copies \subseteq Points
  BY RowsHeld, CopiesTyped DEF StoreInv, IInv, ServerOK
<1>2. LastCopies = [r \in Rid |-> LastCopies[r]]
  BY DEF LastCopies
<1>3. Shutting /\ Copies # {} => call.at \in Instant
  BY <1>1, NamesRows DEF Shutting
<1>4. ASSUME NEW r \in Rid
      PROVE  LastCopies[r] \in Interval \cup {Absent}
  <2>1. CASE CopiesOf(r) = {} \/ (r \in call.rids /\ Deleting)
    BY <1>1, <2>1 DEF HeldFacts
  <2>2. CASE ~(r \in call.rids /\ Deleting) /\ CopiesOf(r) # {}
    <3>1. PICK p \in CopiesOf(r) : TRUE
      BY <2>2
    <3>2. p \in Points /\ Copies # {}
      BY <1>1, <3>1 DEF CopiesOf
    <3>3. LastCopies[r] = [from |-> p.from,
                           until |-> IF r \in call.rids /\ Shutting THEN call.at ELSE p.until]
      BY <1>1, <2>2, <3>1 DEF HeldFacts
    <3>4. QED BY <1>3, <3>2, <3>3 DEF Points, Interval
  <2>3. QED BY <2>1, <2>2
<1>5. QED BY <1>2, <1>4 DEF HeldTyped

\* While upserts are sent, a row that is held is as it will be when the call
\* has returned; and as rows will be then, the versions of a chain are apart.
HeldAsOutcome ==
  pc = "insert" => \A r \in Rid : LastCopies[r] # Absent => LastCopies[r] = Outcome[r]

OutcomeApart ==
  \A r, s \in Rid : SameChain(r, s) /\ Outcome[r] # Absent /\ Outcome[s] # Absent
    => Apart(Outcome[r], Outcome[s])

LEMMA HeldOutcome == StoreInv => HeldAsOutcome /\ OutcomeApart
<1> SUFFICES ASSUME StoreInv PROVE HeldAsOutcome /\ OutcomeApart
  OBVIOUS
<1>1. IInv /\ HeldFacts
  BY RowsHeld DEF StoreInv
<1>2. OutcomeApart
  BY <1>1, OutcomeHistory DEF OutcomeApart
<1>3. ASSUME pc = "insert", NEW r \in Rid, LastCopies[r] # Absent
      PROVE  LastCopies[r] = Outcome[r]
  <2>1. /\ \A x \in Pending : x.kind = "upsert"
        /\ call.op \in {"write", "supersede"}
    BY <1>3, InsertFacts
  <2>2. ~Deleting /\ ~Shutting
    BY <2>1 DEF Deleting, Shutting
  <2>3. PICK p \in CopiesOf(r) : LastCopies[r] = [from |-> p.from, until |-> p.until]
    BY <1>1, <1>3, <2>2 DEF HeldFacts
  <2>4. RowOK(r) /\ IsBatch(call.recs) /\ acked \in [Rid -> Interval \cup {Absent}]
        /\ CallOK
    BY <1>1 DEF IInv, TypeOK
  <2>5. Outcome[r] = IF r \in DOMAIN call.recs THEN call.recs[r]
                     ELSE IF r \notin call.rids THEN acked[r]
                     ELSE IF call.op = "supersede" THEN Closed(acked[r], call.at) ELSE Absent
    BY DEF Outcome
  <2>6. CASE r \in DOMAIN call.recs
    <3>1. Says(p, call.recs[r]) /\ call.recs[r] \in Interval
      BY <2>4, <2>6 DEF RowOK, Inserting, IsBatch
    <3>2. QED BY <2>3, <2>5, <2>6, <3>1 DEF Says, Interval
  <2>7. CASE r \notin DOMAIN call.recs /\ r \in call.rids
    <3>1. call.op = "supersede"
      BY <1>3, <2>1, <2>4, <2>7 DEF CallOK
    <3>2. Closing(r)
      BY <2>4, <2>7, <3>1 DEF RowOK
    <3>3. Says(p, Closed(acked[r], call.at)) /\ acked[r] \in Interval
      BY <1>3, <2>4, <3>2 DEF Closing
    <3>4. QED BY <2>3, <2>5, <2>7, <3>1, <3>3 DEF Says, Interval, Closed
  <2>8. CASE r \notin DOMAIN call.recs /\ r \notin call.rids
    <3>1. AsAcked(r)
      BY <2>4, <2>8 DEF RowOK
    <3>2. Says(p, acked[r]) /\ acked[r] \in Interval
      BY <2>3, <2>4, <3>1 DEF AsAcked
    <3>3. QED BY <2>3, <2>5, <2>8, <3>2 DEF Says, Interval
  <2>9. QED BY <2>6, <2>7, <2>8
<1>4. QED BY <1>2, <1>3 DEF HeldAsOutcome

LEMMA SameHeld ==
  ASSUME UNCHANGED <<points, queue>>
  PROVE  LastCopies' = LastCopies
<1>1. Received(COLL)' = Received(COLL)
  BY DEF Received
<1>2. \A p : Naming(COLL, "set_payload", p)' = Naming(COLL, "set_payload", p)
  BY <1>1 DEF Naming
<1>3. \A p : Naming(COLL, "delete", p)' = Naming(COLL, "delete", p)
  BY <1>1 DEF Naming
<1>4. Held(COLL)' = Held(COLL)
  BY <1>1, <1>2, <1>3 DEF Held
<1>5. QED BY <1>4 DEF LastCopies

\* The request that closes a row is a Close of the store, or changes nothing.
LEMMA CloseRefines ==
  ASSUME StoreInv, StoreInv', CloseStmt, LastCopies' # LastCopies
  PROVE  \E r \in Rid, at \in Instant : Store!Close(r, at)
<1> DEFINE req == SetUntil(Known(call.rids), call.at)
<1>1. IInv /\ HeldFacts /\ HeldTyped /\ ServerOK
  BY RowsHeld, HeldTypes DEF StoreInv, IInv, ServerOK
<1>2. HeldFacts' /\ HeldTyped'
  BY RowsHeld, HeldTypes, PTL
<1>3. pc = "close" /\ call' = call /\ (Request(req, TRUE) \/ UNCHANGED <<points, queue>>)
  BY DEF CloseStmt
<1>4. call.op = "supersede"
  BY <1>1, <1>3 DEF IInv, CallOK, NoCall
<1>5. Request(req, TRUE)
  BY <1>3, SameHeld
<1>6. req \in Requests /\ req.kind = "set_payload" /\ req.new = {}
  BY <1>1, <1>4, RequestTypes DEF SetUntil
<1> HIDE DEF req
<1>7. Pending' = Pending \cup {req} /\ Copies' = Copies
  BY <1>1, <1>5, <1>6, SentCopies
<1>8. ~Deleting /\ ~Shutting
  <2>1. \A x \in Pending : RequestOK(x)
    BY <1>1 DEF IInv
  <2>2. QED BY <1>3, <1>4, <2>1 DEF RequestOK, SetUntil, Deleting, Shutting
<1>9. ~Deleting' /\ Shutting'
  BY <1>6, <1>7, <1>8 DEF Deleting, Shutting
<1>10. PICK rid \in Rid, new \in Rid :
         /\ call.rids = {rid} /\ call.at \in Instant /\ acked[rid] \in Interval
         /\ IsOpen(acked[rid]) /\ acked[rid].from <= call.at /\ Closing(rid)
  BY <1>1, <1>4, SupersedeInHand
<1>11. PICK p \in CopiesOf(rid) :
         Says(p, acked[rid]) \/ Says(p, Closed(acked[rid], call.at))
  BY <1>10 DEF Closing
<1>12. LastCopies[rid] = [from |-> p.from, until |-> p.until]
  BY <1>1, <1>8, <1>11 DEF HeldFacts
<1>13. LastCopies'[rid] = [from |-> p.from, until |-> call.at]
  BY <1>2, <1>3, <1>7, <1>9, <1>10, <1>11 DEF HeldFacts, CopiesOf
<1>14. ASSUME NEW r \in Rid, r # rid
       PROVE  LastCopies'[r] = LastCopies[r]
  <2>1. CopiesOf(r)' = CopiesOf(r)
    BY <1>7 DEF CopiesOf
  <2>2. CASE CopiesOf(r) = {}
    BY <1>1, <1>2, <2>1, <2>2 DEF HeldFacts
  <2>3. CASE CopiesOf(r) # {}
    <3>1. PICK q \in CopiesOf(r) : TRUE
      BY <2>3
    <3>2. LastCopies[r] = [from |-> q.from, until |-> q.until]
      BY <1>1, <1>8, <3>1 DEF HeldFacts
    <3>3. LastCopies'[r] = [from |-> q.from, until |-> q.until]
      BY <1>2, <1>3, <1>9, <1>10, <1>14, <2>1, <3>1 DEF HeldFacts
    <3>4. QED BY <3>2, <3>3
  <2>4. QED BY <2>2, <2>3
<1>15. LastCopies' = [LastCopies EXCEPT ![rid] = [@ EXCEPT !.until = call.at]]
  BY <1>1, <1>2, <1>12, <1>13, <1>14 DEF HeldTyped
<1>16. Says(p, acked[rid])
  <2>1. SUFFICES ASSUME Says(p, Closed(acked[rid], call.at)) PROVE FALSE
    BY <1>11
  <2>2. p.until = call.at
    BY <1>10, <2>1 DEF Says, Closed, Interval
  <2>3. LastCopies' = LastCopies
    BY <1>1, <1>12, <1>15, <2>2 DEF HeldTyped
  <2>4. QED BY <2>3
<1>17. LastCopies[rid] # Absent /\ LastCopies[rid].until = TOpen
       /\ LastCopies[rid].from <= call.at
  BY <1>10, <1>12, <1>16, OpenIsSentinel, AbsentAssumption DEF Says, Interval
<1>18. Store!Close(rid, call.at)
  BY <1>15, <1>17 DEF Store!Close
<1>19. QED BY <1>10, <1>18

\* A bulk upsert is a Load of the rows that were not held, or changes nothing.
LEMMA InsertRefines ==
  ASSUME StoreInv, StoreInv', NEW chunk \in SUBSET todo, UpsertStmt(chunk),
         LastCopies' # LastCopies
  PROVE  \E S \in (SUBSET Rid) \ {{}} : Store!Load(S)
<1> DEFINE req == Upsert(chunk)
           small == Cardinality(DOMAIN call.recs) <= CH
           S == {r \in Rid : LastCopies[r] = Absent /\ LastCopies'[r] # Absent}
<1>1. HeldFacts /\ HeldTyped /\ ServerOK /\ IInv
  BY RowsHeld, HeldTypes DEF StoreInv, IInv, ServerOK
<1>2. HeldFacts' /\ HeldTyped' /\ HeldAsOutcome' /\ OutcomeApart'
  BY RowsHeld, HeldTypes, HeldOutcome, PTL
<1>3. pc = "insert" /\ pc' = "insert" /\ call' = call /\ Request(req, small)
  BY DEF UpsertStmt
<1>4. (\A x \in Pending : x.kind = "upsert") /\ chunk \subseteq Points
  BY <1>3, InsertFacts
<1>5. req \in Requests /\ req.kind = "upsert" /\ req.new = chunk
  BY <1>1, <1>4, RequestTypes DEF Upsert
<1> HIDE DEF req, small
<1>6. Pending' = Pending \cup {req} /\ Copies \subseteq Copies'
  BY <1>1, <1>3, <1>5, SentCopies
<1>7. ~Deleting /\ ~Shutting /\ ~Deleting' /\ ~Shutting'
  BY <1>4, <1>5, <1>6 DEF Deleting, Shutting
<1>8. ASSUME NEW r \in Rid, LastCopies[r] # Absent
      PROVE  LastCopies'[r] = LastCopies[r]
  <2>1. PICK p \in CopiesOf(r) : TRUE
    BY <1>1, <1>8 DEF HeldFacts
  <2>2. p \in CopiesOf(r)'
    BY <1>6, <2>1 DEF CopiesOf
  <2>3. LastCopies[r] = [from |-> p.from, until |-> p.until]
    BY <1>1, <1>7, <2>1 DEF HeldFacts
  <2>4. LastCopies'[r] = [from |-> p.from, until |-> p.until]
    BY <1>2, <1>7, <2>2 DEF HeldFacts
  <2>5. QED BY <2>3, <2>4
<1>9. \A r \in Rid : IF r \in S THEN LastCopies'[r] # Absent ELSE LastCopies'[r] = LastCopies[r]
  BY <1>8
<1>10. S # {}
  <2>1. SUFFICES ASSUME S = {} PROVE LastCopies' = LastCopies
    OBVIOUS
  <2>2. \A r \in Rid : LastCopies'[r] = LastCopies[r]
    BY <1>9, <2>1
  <2>3. QED BY <1>1, <1>2, <2>2 DEF HeldTyped
<1>11. ASSUME NEW r \in S, NEW s \in Rid, s # r, ChainOf[s] = ChainOf[r], LastCopies'[s] # Absent
       PROVE  Store!Apart(LastCopies'[r], LastCopies'[s])
  <2>1. LastCopies'[r] = Outcome'[r] /\ LastCopies'[s] = Outcome'[s]
    BY <1>2, <1>3, <1>11 DEF HeldAsOutcome
  <2>2. SameChain(r, s) /\ r \in Rid /\ LastCopies'[r] # Absent
    BY <1>11 DEF SameChain
  <2>3. Apart(LastCopies'[r], LastCopies'[s])
    BY <1>2, <1>11, <2>1, <2>2 DEF OutcomeApart, SameChain
  <2>4. QED BY <2>3 DEF Apart, Store!Apart
<1>12. Store!Load(S)
  BY <1>2, <1>9, <1>11 DEF Store!Load, Store!Versions, Store!Interval, Interval, HeldTyped
<1>13. QED BY <1>10, <1>12

\* The request of a delete is a Forget of the rows that are held, or changes
\* nothing, be it the first or a repeated one.
LEMMA EraseRefines ==
  ASSUME StoreInv, StoreInv', EraseStmt, LastCopies' # LastCopies
  PROVE  \E S \in (SUBSET Rid) \ {{}} : Store!Forget(S)
<1> DEFINE req == DeletePoints(Known(call.rids))
           S == {r \in Rid : r \in call.rids /\ LastCopies[r] # Absent}
<1>1. HeldFacts /\ HeldTyped /\ ServerOK /\ IInv
  BY RowsHeld, HeldTypes DEF StoreInv, IInv, ServerOK
<1>2. HeldFacts' /\ HeldTyped'
  BY RowsHeld, HeldTypes, PTL
<1>3. pc = "erase" /\ call' = call /\ Request(req, TRUE)
  BY DEF EraseStmt
<1>4. req \in Requests /\ req.kind = "delete" /\ req.new = {}
  BY <1>1, RequestTypes DEF DeletePoints
<1> HIDE DEF req
<1>5. Pending' = Pending \cup {req} /\ Copies' = Copies
  BY <1>1, <1>3, <1>4, SentCopies
<1>6. call.op = "delete"
  BY <1>1, <1>3 DEF IInv, CallOK
<1>7. Deleting' /\ ~Shutting /\ ~Shutting'
  <2>1. \A x \in Pending : RequestOK(x)
    BY <1>1 DEF IInv
  <2>2. QED BY <1>4, <1>5, <1>6, <2>1 DEF RequestOK, SetUntil, DeletePoints, Deleting, Shutting
<1>8. ASSUME NEW r \in Rid
      PROVE  LastCopies'[r] = IF r \in S THEN Absent ELSE LastCopies[r]
  <2>1. CopiesOf(r)' = CopiesOf(r)
    BY <1>5 DEF CopiesOf
  <2>2. CASE CopiesOf(r) = {} \/ r \in call.rids
    BY <1>1, <1>2, <1>3, <1>7, <2>1, <2>2 DEF HeldFacts
  <2>3. CASE CopiesOf(r) # {} /\ r \notin call.rids
    <3>1. PICK p \in CopiesOf(r) : TRUE
      BY <2>3
    <3>2. LastCopies[r] = [from |-> p.from, until |-> p.until]
      BY <1>1, <2>3, <3>1 DEF HeldFacts
    <3>3. LastCopies'[r] = [from |-> p.from, until |-> p.until]
      BY <1>2, <1>3, <2>1, <2>3, <3>1 DEF HeldFacts
    <3>4. QED BY <2>3, <3>2, <3>3
  <2>4. QED BY <2>2, <2>3
<1>9. LastCopies' = [r \in Rid |-> IF r \in S THEN Absent ELSE LastCopies[r]]
  BY <1>2, <1>8 DEF HeldTyped
<1>10. S # {}
  <2>1. SUFFICES ASSUME S = {} PROVE LastCopies' = LastCopies
    OBVIOUS
  <2>2. \A r \in Rid : LastCopies'[r] = LastCopies[r]
    BY <1>8, <2>1
  <2>3. QED BY <1>1, <1>2, <2>2 DEF HeldTyped
<1> HIDE DEF S
<1>11. S \subseteq Rid /\ \A r \in S : LastCopies[r] # Absent
  BY DEF S
<1>12. Store!Forget(S)
  BY <1>9, <1>11 DEF Store!Forget
<1>13. QED BY <1>10, <1>11, <1>12

\* The constructor is a Forget of all rows.
LEMMA ReconstructRefines ==
  ASSUME StoreInv, StoreInv', Reconstruct, LastCopies' # LastCopies
  PROVE  \E S \in (SUBSET Rid) \ {{}} : Store!Forget(S)
<1> DEFINE S == {r \in Rid : LastCopies[r] # Absent}
<1>1. HeldTyped
  BY HeldTypes
<1>2. HeldFacts' /\ HeldTyped'
  BY RowsHeld, HeldTypes, PTL
<1>3. Copies' = {}
  <2>1. points'[COLL] = {} /\ queue'[COLL] = <<>>
    BY DEF Reconstruct, Recreate
  <2>2. DOMAIN queue'[COLL] = {}
    BY <2>1, EmptySeq
  <2>3. QED BY <2>1, <2>2 DEF Copies, Pending
<1>4. \A r \in Rid : LastCopies'[r] = Absent
  BY <1>2, <1>3 DEF HeldFacts, CopiesOf
<1>5. LastCopies' = [r \in Rid |-> IF r \in S THEN Absent ELSE LastCopies[r]]
  BY <1>2, <1>4 DEF HeldTyped
<1>6. S # {}
  <2>1. SUFFICES ASSUME \A r \in Rid : LastCopies[r] = Absent PROVE LastCopies' = LastCopies
    OBVIOUS
  <2>2. QED BY <1>1, <1>2, <1>4, <2>1 DEF HeldTyped
<1>7. Store!Forget(S)
  BY <1>5 DEF Store!Forget
<1>8. QED BY <1>6, <1>7

\* What the server does to a collection is no step of the store: the row was
\* taken to be so when the request was received.
LEMMA ApplyStutters ==
  ASSUME StoreInv, StoreInv', ServerApplies
  PROVE  LastCopies' = LastCopies
<1>1. HeldFacts /\ HeldTyped /\ Copies \subseteq Points
  BY RowsHeld, HeldTypes, CopiesTyped DEF StoreInv, IInv, ServerOK
<1>2. HeldFacts' /\ HeldTyped'
  BY RowsHeld, HeldTypes, PTL
<1>3. call' = call
  BY AppliedQueue
<1>4. SUFFICES ASSUME NEW r \in Rid PROVE LastCopies'[r] = LastCopies[r]
  BY <1>1, <1>2 DEF HeldTyped
<1>5. CASE Copies' = Copies /\ Deleting' = Deleting /\ Shutting' = Shutting
  <2>1. CopiesOf(r)' = CopiesOf(r)
    BY <1>5 DEF CopiesOf
  <2>2. CASE CopiesOf(r) = {} \/ (r \in call.rids /\ Deleting)
    BY <1>1, <1>2, <1>3, <1>5, <2>1, <2>2 DEF HeldFacts
  <2>3. CASE CopiesOf(r) # {} /\ ~(r \in call.rids /\ Deleting)
    <3>1. PICK p \in CopiesOf(r) : TRUE
      BY <2>3
    <3> DEFINE iv == [from |-> p.from,
                      until |-> IF r \in call.rids /\ Shutting THEN call.at ELSE p.until]
    <3>2. LastCopies[r] = iv
      BY <1>1, <2>3, <3>1 DEF HeldFacts
    <3>3. LastCopies'[r] = iv
      BY <1>2, <1>3, <1>5, <2>1, <2>3, <3>1 DEF HeldFacts
    <3>4. QED BY <3>2, <3>3
  <2>4. QED BY <2>2, <2>3
<1>6. CASE /\ Shutting /\ ~Deleting /\ ~Deleting'
           /\ Copies' = {IF p.rid \in call.rids THEN [p EXCEPT !.until = call.at] ELSE p :
                           p \in Copies}
  <2> DEFINE Shut(p) == IF p.rid \in call.rids THEN [p EXCEPT !.until = call.at] ELSE p
  <2>1. \A p \in Copies : /\ Shut(p).rid = p.rid /\ Shut(p).from = p.from
                          /\ Shut(p).until = IF p.rid \in call.rids THEN call.at ELSE p.until
    BY <1>1 DEF Points
  <2>2. Copies' = {Shut(p) : p \in Copies}
    BY <1>6
  <2> HIDE DEF Shut
  <2>3. CopiesOf(r)' = {Shut(p) : p \in CopiesOf(r)}
    BY <2>1, <2>2 DEF CopiesOf
  <2>4. CASE CopiesOf(r) = {}
    BY <1>1, <1>2, <2>3, <2>4 DEF HeldFacts
  <2>5. CASE CopiesOf(r) # {}
    <3>1. PICK p \in CopiesOf(r) : TRUE
      BY <2>5
    <3>2. Shut(p) \in CopiesOf(r)' /\ p \in Copies /\ p.rid = r
      BY <2>3, <3>1 DEF CopiesOf
    <3>3. LastCopies[r] = [from |-> p.from,
                           until |-> IF r \in call.rids THEN call.at ELSE p.until]
      BY <1>1, <1>6, <3>1 DEF HeldFacts
    <3>4. LastCopies'[r] = [from |-> Shut(p).from,
                            until |-> IF r \in call.rids /\ Shutting' THEN call.at
                                      ELSE Shut(p).until]
      BY <1>2, <1>3, <1>6, <3>2 DEF HeldFacts
    <3>5. QED BY <2>1, <3>2, <3>3, <3>4
  <2>6. QED BY <2>4, <2>5
<1>7. CASE /\ Deleting /\ ~Shutting /\ ~Shutting'
           /\ Copies' = {p \in Copies : p.rid \notin call.rids}
  <2>1. CASE r \in call.rids
    <3>1. CopiesOf(r)' = {}
      BY <1>7, <2>1 DEF CopiesOf
    <3>2. QED BY <1>1, <1>2, <1>7, <2>1, <3>1 DEF HeldFacts
  <2>2. CASE r \notin call.rids
    <3>1. CopiesOf(r)' = CopiesOf(r)
      BY <1>7, <2>2 DEF CopiesOf
    <3>2. CASE CopiesOf(r) = {}
      BY <1>1, <1>2, <3>1, <3>2 DEF HeldFacts
    <3>3. CASE CopiesOf(r) # {}
      <4>1. PICK p \in CopiesOf(r) : TRUE
        BY <3>3
      <4>2. LastCopies[r] = [from |-> p.from, until |-> p.until]
        BY <1>1, <2>2, <4>1 DEF HeldFacts
      <4>3. LastCopies'[r] = [from |-> p.from, until |-> p.until]
        BY <1>2, <1>3, <2>2, <3>1, <4>1 DEF HeldFacts
      <4>4. QED BY <4>2, <4>3
    <3>4. QED BY <3>2, <3>3
  <2>3. QED BY <2>1, <2>2
<1>8. QED BY <1>5, <1>6, <1>7, AppliedQueue

\* Every step of the adapter or its server is a step of the version store or
\* leaves it alone.
LEMMA StepRefines ==
  ASSUME StoreInv, StoreInv', [Next]_vars
  PROVE  [Store!Next]_LastCopies
<1> SUFFICES ASSUME LastCopies' # LastCopies
             PROVE  Store!Next
  OBVIOUS
<1>1. CASE UNCHANGED <<points, queue>>
  BY <1>1, SameHeld
<1>2. CASE CloseStmt
  BY <1>2, CloseRefines DEF Store!Next
<1>3. CASE \E chunk \in SUBSET todo : UpsertStmt(chunk)
  BY <1>3, InsertRefines DEF Store!Next
<1>4. CASE EraseStmt
  BY <1>4, EraseRefines DEF Store!Next
<1>5. CASE Reconstruct
  BY <1>5, ReconstructRefines DEF Store!Next
<1>6. CASE ServerApplies
  BY <1>6, ApplyStutters
<1>7. QED
  BY <1>1, <1>2, <1>3, <1>4, <1>5, <1>6
  DEF Next, vars, Write, Supersede, Delete, Call, Successor, Return, Fail, Retry, Flush

\* If only deletes are repeated, the Qdrant adapter and its server implement
\* the version store, each request at the moment it is received: versions
\* appear clear of their chain, are closed once and only while open, and never
\* change again, though nobody waits for the upserts of a bulk.
THEOREM ImplementsStore ==
  ASSUME Retried \subseteq {"delete"}
  PROVE  Spec => StoreSpec
<1>1. Init => Store!Init
  <2> SUFFICES ASSUME Init PROVE Store!Init
    OBVIOUS
  <2>1. points[COLL] = {} /\ queue[COLL] = <<>>
    BY DEF Init, Empty
  <2>2. DOMAIN queue[COLL] = {}
    BY <2>1, EmptySeq
  <2>3. Held(COLL) = {}
    BY <2>1, <2>2 DEF Held, Received
  <2>4. QED BY <2>3 DEF LastCopies, Store!Init
<1>2. StoreInv /\ StoreInv' /\ [Next]_vars => [Store!Next]_LastCopies
  BY StepRefines
<1>3. QED BY <1>1, <1>2, StoreInvariance, PTL DEF Spec, StoreSpec, Store!Spec
=============================================================================
