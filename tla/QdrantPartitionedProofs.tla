----------------------- MODULE QdrantPartitionedProofs ----------------------
(* Proofs about the epoch-partitioned Qdrant adapter, for every set of rids, *)
(* batches and instants, every epoch length, number of collections and chunk *)
(* size, if only deletes are repeated.                                       *)
EXTENDS QdrantPartitionedInv, ValidTimeProofs, SequenceTheorems, TLAPS

-----------------------------------------------------------------------------
(* Placement and routing.                                                    *)

\* cur is no epoch collection, and None is no collection.
LEMMA Tables ==
  /\ Cur \in Table /\ Cur \notin Epochs /\ Epochs \subseteq Table /\ None \notin Table
  /\ Epochs \subseteq Nat
  BY EpochAssumption DEF Cur, Epochs, Table, None

\* The collections of an interval; cur is one of them iff it is open.
LEMMA TablesOfInterval ==
  ASSUME NEW iv
  PROVE  /\ TablesOf(iv) \subseteq Table
         /\ EpochsFor(iv) \subseteq TablesOf(iv) /\ EpochsFor(iv) \subseteq Epochs
         /\ \A c \in TablesOf(iv) : c = Cur \/ c \in EpochsFor(iv)
         /\ Cur \in TablesOf(iv) <=> IsOpen(iv)
  BY Tables DEF TablesOf, EpochsFor

\* Closing takes an interval out of cur, and into no other collection.
LEMMA ClosedStaysPlaced ==
  ASSUME NEW iv \in Interval, IsOpen(iv), NEW at \in Instant
  PROVE  /\ ~IsOpen(Closed(iv, at))
         /\ TablesOf(Closed(iv, at)) \subseteq EpochsFor(iv)
<1>1. Closed(iv, at).from = iv.from /\ ~IsOpen(Closed(iv, at))
  BY ClosedInterval
<1>2. QED BY <1>1 DEF TablesOf, EpochsFor

\* An instant inside the horizon is routed to a collection of every interval
\* that is valid then; any other instant is routed to some collection.
LEMMA RoutedTableHoldsValid ==
  ASSUME NEW t \in Instant
  PROVE  /\ Route(t) \in Table
         /\ \A iv \in Interval : t < Horizon /\ ValidAt(iv, t) => Route(t) \in EpochsFor(iv)
<1>1. t \in Nat /\ Epoch \in Nat /\ Epoch > 0 /\ MaxEpoch \in Nat
  BY InstantAssumption, EpochAssumption
<1>2. t \div Epoch \in Nat /\ (t < Horizon => t \div Epoch <= MaxEpoch)
  BY <1>1 DEF Horizon
<1>3. Route(t) \in Table
  BY <1>1, <1>2, Tables DEF Route, Epochs, Table
<1>4. ASSUME NEW iv \in Interval, t < Horizon, ValidAt(iv, t)
      PROVE  Route(t) \in EpochsFor(iv)
  <2>1. iv.from \in Nat /\ iv.until \in Nat /\ iv.from <= t /\ t <= iv.until - 1
    <3>1. iv.from \in Nat /\ iv.until \in Nat
      BY InstantAssumption DEF Interval
    <3>2. QED BY <1>1, <1>4, <3>1 DEF ValidAt
  <2>2. /\ iv.from \div Epoch \in Nat /\ iv.from \div Epoch <= t \div Epoch
        /\ (iv.until - 1) \div Epoch \in Int /\ t \div Epoch <= (iv.until - 1) \div Epoch
    <3>1. iv.from \div Epoch \in Nat /\ iv.from \div Epoch <= t \div Epoch
      BY <1>1, <2>1
    <3>2. (iv.until - 1) \div Epoch \in Int /\ t \div Epoch <= (iv.until - 1) \div Epoch
      BY <1>1, <2>1
    <3>3. QED BY <3>1, <3>2
  <2> DEFINE a == iv.from \div Epoch
             b == t \div Epoch
             z == (iv.until - 1) \div Epoch
  <2>3. /\ b \in Epochs /\ b <= MaxEpoch /\ Route(t) = b
        /\ a \in Nat /\ a <= b /\ z \in Int /\ b <= z
    BY <1>1, <1>2, <1>4, <2>2 DEF Route, Epochs
  <2>4. FirstEpoch(iv.from) = IF a < MaxEpoch THEN a ELSE MaxEpoch
    BY DEF FirstEpoch
  <2>5. b \in EpochsFor(iv) <=> FirstEpoch(iv.from) <= b /\ (IsOpen(iv) \/ b <= z)
    BY <2>3 DEF EpochsFor
  <2> HIDE DEF a, b, z
  <2>6. b \in Nat /\ (IF a < MaxEpoch THEN a ELSE MaxEpoch) <= b
    BY <1>1, <2>3, Tables
  <2>7. Route(t) = b /\ FirstEpoch(iv.from) <= b /\ b <= z
    BY <2>3, <2>4, <2>6
  <2>8. QED BY <2>5, <2>7
<1>5. QED BY <1>3, <1>4

-----------------------------------------------------------------------------
(* The queues, as the sets of the requests in them and the last ones.        *)

ServerOK ==
  /\ points \in [Table -> SUBSET Points]
  /\ queue \in [Table -> Seq(Requests)]

\* A request that is sent is the last one of its collection.
LEMMA SentRequest ==
  ASSUME ServerOK, NEW c \in Table, NEW req \in Requests, Send(c, req)
  PROVE  /\ queue' \in [Table -> Seq(Requests)]
         /\ queue'[c] # <<>>
         /\ LastSent(c)' = req
         /\ Pending(c)' = Pending(c) \cup {req}
         /\ \A d \in Table : d # c => queue'[d] = queue[d]
<1> DEFINE q == queue[c]
           n == Len(q)
<1>1. q \in Seq(Requests) /\ queue' = [queue EXCEPT ![c] = Append(q, req)]
  BY DEF ServerOK, Send
<1>2. n \in Nat /\ q \in [1 .. n -> Requests]
  BY <1>1, LenProperties
<1>3. /\ Append(q, req) \in Seq(Requests)
      /\ Len(Append(q, req)) = n + 1
      /\ Append(q, req)[n + 1] = req
      /\ \A i \in 1 .. n : Append(q, req)[i] = q[i]
      /\ DOMAIN Append(q, req) = 1 .. n + 1
  BY <1>1, <1>2
<1>4. /\ queue'[c] = Append(q, req) /\ queue' \in [Table -> Seq(Requests)]
      /\ \A d \in Table : d # c => queue'[d] = queue[d]
  BY <1>1, <1>3 DEF ServerOK
<1>5. Pending(c) = {q[i] : i \in 1 .. n}
  BY <1>2 DEF Pending
<1>6. Pending(c)' = {Append(q, req)[i] : i \in 1 .. n + 1}
  BY <1>3, <1>4 DEF Pending
<1> HIDE DEF n, q
<1>7. 1 .. n + 1 = (1 .. n) \cup {n + 1}
  BY <1>2
<1>8. Pending(c)' = Pending(c) \cup {req}
  BY <1>3, <1>5, <1>6, <1>7
<1>9. LastSent(c)' = req
  BY <1>3, <1>4 DEF LastSent
<1>10. queue'[c] # <<>>
  <2>1. Len(queue'[c]) # 0
    BY <1>2, <1>3, <1>4
  <2>2. QED BY <2>1, EmptySeq
<1>11. QED BY <1>4, <1>8, <1>9, <1>10

\* A request that is applied leaves the queue; the others keep their order.
LEMMA AppliedRequest ==
  ASSUME ServerOK, NEW c \in Table, Apply(c)
  PROVE  \E req \in Pending(c) :
           /\ req \in Requests
           /\ points' = [points EXCEPT ![c] = Effect(points[c], req)]
           /\ queue' \in [Table -> Seq(Requests)]
           /\ \A d \in Table : d # c => queue'[d] = queue[d]
           /\ queue[c] # <<>>
           /\ Pending(c)' \subseteq Pending(c) /\ Pending(c) \subseteq Pending(c)' \cup {req}
           /\ queue'[c] = <<>> => req = LastSent(c) /\ Pending(c)' = {}
           /\ queue'[c] # <<>> => LastSent(c)' = LastSent(c)
           /\ NoUpsertBehind(c) =>
                /\ NoUpsertBehind(c)'
                /\ req.kind # "upsert" => \A x \in Pending(c) : x.kind # "upsert"
<1> DEFINE q == queue[c]
           n == Len(q)
           t == Tail(q)
<1>1. /\ q \in Seq(Requests) /\ q # <<>> /\ queue' = [queue EXCEPT ![c] = t]
      /\ points' = [points EXCEPT ![c] = Effect(points[c], Head(q))]
  BY DEF ServerOK, Apply
<1>2. n \in Nat \ {0} /\ DOMAIN q = 1 .. n
  BY <1>1, EmptySeq, LenProperties
<1>3. /\ t \in Seq(Requests) /\ Len(t) = n - 1
      /\ \A i \in 1 .. Len(t) : t[i] = q[i + 1]
      /\ Head(q) \in Requests /\ Head(q) = q[1]
  BY <1>1, HeadTailProperties
<1>4. DOMAIN t = 1 .. n - 1 /\ \A i \in 1 .. n - 1 : t[i] = q[i + 1]
  BY <1>3, LenProperties
<1>5. /\ queue'[c] = t /\ queue' \in [Table -> Seq(Requests)]
      /\ \A d \in Table : d # c => queue'[d] = queue[d]
  BY <1>1, <1>3 DEF ServerOK
<1>6. Pending(c) = {q[i] : i \in 1 .. n} /\ Pending(c)' = {t[i] : i \in 1 .. n - 1}
  BY <1>2, <1>4, <1>5 DEF Pending
<1>7. LastSent(c) = q[n] /\ LastSent(c)' = t[n - 1]
  BY <1>3, <1>5 DEF LastSent
<1>8. t = <<>> <=> n = 1
  <2>1. t # <<>> => Len(t) \in Nat \ {0}
    BY <1>3, EmptySeq
  <2>2. t = <<>> => Len(t) = 0
    BY EmptySeq
  <2> HIDE DEF n, t
  <2>3. QED BY <1>2, <1>3, <2>1, <2>2
<1>9. points' = [points EXCEPT ![c] = Effect(points[c], q[1])]
  BY <1>1, <1>3
<1>10. q[1] \in Requests
  BY <1>3
<1>11. queue[c] # <<>>
  BY <1>1
<1> HIDE DEF n, q, t
<1>12. /\ q[1] \in Pending(c) /\ Pending(c)' \subseteq Pending(c)
       /\ Pending(c) \subseteq Pending(c)' \cup {q[1]}
  <2>1. \A i \in 1 .. n - 1 : i + 1 \in 1 .. n
    BY <1>2
  <2>2. \A i \in 1 .. n : i = 1 \/ (i - 1 \in 1 .. n - 1 /\ (i - 1) + 1 = i)
    BY <1>2
  <2>3. 1 \in 1 .. n
    BY <1>2
  <2>4. q[1] \in Pending(c) /\ Pending(c)' \subseteq Pending(c)
    BY <1>4, <1>6, <2>1, <2>3
  <2>5. ASSUME NEW i \in 1 .. n
        PROVE  q[i] \in Pending(c)' \cup {q[1]}
    <3>1. CASE i = 1
      BY <3>1
    <3>2. CASE i # 1
      BY <1>4, <1>6, <2>2, <3>2
    <3>3. QED BY <3>1, <3>2
  <2>6. QED BY <1>6, <2>4, <2>5
<1>13. t = <<>> => q[1] = LastSent(c) /\ Pending(c)' = {}
  BY <1>6, <1>7, <1>8
<1>14. t # <<>> => LastSent(c)' = LastSent(c)
  <2>1. n # 1 => n - 1 \in 1 .. n - 1 /\ (n - 1) + 1 = n
    BY <1>2
  <2>2. QED BY <1>4, <1>7, <1>8, <2>1
<1>15. ASSUME NoUpsertBehind(c)
       PROVE  /\ NoUpsertBehind(c)'
              /\ q[1].kind # "upsert" => \A x \in Pending(c) : x.kind # "upsert"
  <2>1. DOMAIN q = 1 .. n /\ DOMAIN t = 1 .. n - 1
    BY <1>2, <1>4
  <2>2. \A i, j \in 1 .. n : i < j /\ q[i].kind # "upsert" => q[j].kind # "upsert"
    BY <1>15, <2>1 DEF NoUpsertBehind, q
  <2>3. \A i \in 1 .. n - 1 : i + 1 \in 1 .. n
    BY <1>2
  <2>4. \A i, j \in 1 .. n - 1 : i < j => i + 1 < j + 1
    BY <1>2
  <2>5. \A i, j \in 1 .. n - 1 : i < j /\ t[i].kind # "upsert" => t[j].kind # "upsert"
    BY <1>4, <2>2, <2>3, <2>4
  <2>6. NoUpsertBehind(c)'
    BY <1>5, <2>1, <2>5 DEF NoUpsertBehind
  <2>7. 1 \in 1 .. n /\ \A i \in 1 .. n : i = 1 \/ 1 < i
    BY <1>2
  <2>8. q[1].kind # "upsert" => \A x \in Pending(c) : x.kind # "upsert"
    BY <1>6, <2>2, <2>7
  <2>9. QED BY <2>6, <2>8
<1>16. QED BY <1>5, <1>9, <1>10, <1>11, <1>12, <1>13, <1>14, <1>15

\* Nothing is on its way to a collection that is settled.
LEMMA NothingPending ==
  ASSUME NEW c \in Table, Settled(c)
  PROVE  Pending(c) = {} /\ Copies(c) = points[c]
<1>1. DOMAIN queue[c] = {}
  BY EmptySeq DEF Settled
<1>2. QED BY <1>1 DEF Pending, Copies

LEMMA SameServer ==
  ASSUME UNCHANGED <<points, queue>>, NEW c \in Table
  PROVE  /\ Pending(c)' = Pending(c) /\ Copies(c)' = Copies(c)
         /\ LastSent(c)' = LastSent(c) /\ Settled(c)' = Settled(c)
<1>1. Pending(c)' = Pending(c)
  BY DEF Pending
<1>2. QED BY <1>1 DEF Copies, LastSent, Settled

\* A request that is sent brings its points with it, to its collection alone.
LEMMA SentCopies ==
  ASSUME ServerOK, NEW c \in Table, NEW req \in Requests, NEW wait, Request(c, req, wait)
  PROVE  /\ ServerOK' /\ points' = points
         /\ awaits' = IF wait THEN c ELSE None
         /\ queue'[c] # <<>> /\ LastSent(c)' = req
         /\ Pending(c)' = Pending(c) \cup {req}
         /\ Copies(c)' = Copies(c) \cup req.new
         /\ \A d \in Table : d # c =>
              /\ queue'[d] = queue[d] /\ Pending(d)' = Pending(d)
              /\ Copies(d)' = Copies(d)
<1>1. Send(c, req) /\ points' = points /\ awaits' = IF wait THEN c ELSE None
  BY DEF Request
<1>2. /\ queue' \in [Table -> Seq(Requests)]
      /\ queue'[c] # <<>>
      /\ LastSent(c)' = req
      /\ Pending(c)' = Pending(c) \cup {req}
      /\ \A d \in Table : d # c => queue'[d] = queue[d]
  BY <1>1, SentRequest
<1>3. Copies(c)' = Copies(c) \cup req.new
  BY <1>1, <1>2 DEF Copies
<1>4. ASSUME NEW d \in Table, d # c
      PROVE  /\ queue'[d] = queue[d] /\ Pending(d)' = Pending(d)
             /\ Copies(d)' = Copies(d)
  BY <1>1, <1>2, <1>4 DEF Copies, Pending
<1>5. ServerOK'
  BY <1>1, <1>2 DEF ServerOK
<1>6. QED BY <1>1, <1>2, <1>3, <1>4, <1>5

LEMMA CopiesTyped == ServerOK => \A c \in Table : Copies(c) \subseteq Points
<1> SUFFICES ASSUME ServerOK, NEW c \in Table
             PROVE  Copies(c) \subseteq Points
  OBVIOUS
<1>1. points[c] \subseteq Points
  BY DEF ServerOK
<1>2. Pending(c) \subseteq Requests
  <2>1. queue[c] \in Seq(Requests)
    BY DEF ServerOK
  <2>2. QED BY <2>1, LenProperties DEF Pending
<1>3. QED BY <1>1, <1>2 DEF Copies, Requests

\* An applied request leaves of each copy a copy, changed at most as the call
\* in progress wants it, or takes it away if that is what the call wants.
LEMMA AppliedCopies ==
  ASSUME IInv, NEW c \in Table, ServerApplies(c)
  PROVE  /\ ServerOK' /\ queue[c] # <<>> /\ OneEach(points'[c])
         /\ Pending(c)' \subseteq Pending(c)
         /\ \A p \in Copies(c)' :
              \/ p \in Copies(c)
              \/ /\ call.op = "supersede" /\ p.rid \in call.rids /\ p.until = call.at
                 /\ \E q \in Copies(c) : q.rid = p.rid /\ q.nth = p.nth /\ q.from = p.from
         /\ \A q \in Copies(c) :
              \/ \E p \in Copies(c)' : p.rid = q.rid
              \/ call.op = "delete" /\ q.rid \in call.rids
              \/ Dropped(c, q.rid)
         /\ queue'[c] = <<>> /\ LastSent(c).kind = "set_payload" =>
              \A p \in Copies(c)' : p.rid \in call.rids => p.until = call.at
         /\ queue'[c] = <<>> /\ LastSent(c).kind = "delete" =>
              \A p \in Copies(c)' : p.rid \notin call.rids
         /\ queue'[c] # <<>> => LastSent(c)' = LastSent(c)
         /\ \A d \in Table : d # c =>
              /\ points'[d] = points[d] /\ queue'[d] = queue[d]
              /\ Pending(d)' = Pending(d) /\ Copies(d)' = Copies(d)
<1> DEFINE pts == points[c]
<1>1. /\ ServerOK /\ pts \subseteq Points /\ OneEach(pts)
      /\ \A req \in Pending(c) : RequestOK(c, req)
  BY DEF IInv, ServerOK, TypeOK, OneEach
<1>2. Apply(c) /\ UNCHANGED client
  BY DEF ServerApplies
<1>3. PICK req \in Pending(c) :
        /\ req \in Requests
        /\ points' = [points EXCEPT ![c] = Effect(points[c], req)]
        /\ queue' \in [Table -> Seq(Requests)]
        /\ \A d \in Table : d # c => queue'[d] = queue[d]
        /\ queue[c] # <<>>
        /\ Pending(c)' \subseteq Pending(c) /\ Pending(c) \subseteq Pending(c)' \cup {req}
        /\ queue'[c] = <<>> => req = LastSent(c) /\ Pending(c)' = {}
        /\ queue'[c] # <<>> => LastSent(c)' = LastSent(c)
  BY <1>1, <1>2, AppliedRequest
<1>4. /\ points'[c] = Effect(pts, req)
      /\ \A d \in Table : d # c => points'[d] = points[d]
  BY <1>1, <1>3 DEF ServerOK
<1>5. Effect(pts, req) \subseteq Points => ServerOK'
  BY <1>1, <1>3 DEF ServerOK
<1>6. /\ Copies(c) = pts \cup UNION {x.new : x \in Pending(c)}
      /\ Copies(c)' = Effect(pts, req) \cup UNION {x.new : x \in Pending(c)'}
  BY <1>4 DEF Copies
<1>7. RequestOK(c, req) /\ req.new \subseteq Points
  BY <1>1, <1>3 DEF Requests
<1>8. ASSUME NEW d \in Table, d # c
      PROVE  /\ points'[d] = points[d] /\ queue'[d] = queue[d]
             /\ Pending(d)' = Pending(d) /\ Copies(d)' = Copies(d)
  BY <1>3, <1>4, <1>8 DEF Pending, Copies
<1> HIDE DEF pts
<1>9. /\ UNION {x.new : x \in Pending(c)'} \subseteq Copies(c)
      /\ \A q \in Copies(c) : q \in pts \/ q \in req.new \/ q \in Copies(c)'
  BY <1>3, <1>6
<1>10. \A p, q \in Points : Id(p) = Id(q) <=> p.rid = q.rid /\ p.nth = q.nth
  BY DEF Id
<1>11. CASE req.kind = "upsert" /\ OneEach(req.new)
  <2>1. Effect(pts, req) = {p \in pts : Id(p) \notin {Id(x) : x \in req.new}} \cup req.new
    BY <1>11 DEF Effect, Without
  <2>2. Effect(pts, req) \subseteq Points /\ OneEach(Effect(pts, req))
    BY <1>1, <1>7, <1>11, <2>1 DEF OneEach
  <2>3. req.new \subseteq Copies(c)
    BY <1>3, <1>6
  <2>4. Copies(c)' \subseteq Copies(c)
    BY <1>6, <1>9, <2>1, <2>3
  <2>5. \A q \in pts : \E p \in Copies(c)' : p.rid = q.rid
    BY <1>1, <1>6, <1>7, <1>10, <2>1
  <2>6. \A q \in Copies(c) : \E p \in Copies(c)' : p.rid = q.rid
    BY <1>6, <1>9, <2>1, <2>5
  <2>7. queue'[c] = <<>> => LastSent(c).kind = "upsert"
    BY <1>3, <1>11
  <2>8. ServerOK'
    BY <1>5, <2>2
  <2>9. QED BY <1>3, <1>4, <1>8, <2>2, <2>4, <2>6, <2>7, <2>8
<1>12. CASE /\ req.kind = "set_payload" /\ req.new = {} /\ req.until = call.at
            /\ call.op = "supersede"
            /\ \A p \in Copies(c) : Id(p) \in req.ids <=> p.rid \in call.rids
  <2> DEFINE Shut(p) == [p EXCEPT !.until = call.at]
  <2>1. Effect(pts, req) = {IF Id(p) \in req.ids THEN Shut(p) ELSE p : p \in pts}
    BY <1>12 DEF Effect
  <2>2. call.at \in Instant
    <3>1. call # NoCall
      BY <1>12 DEF NoCall
    <3>2. QED BY <1>12, <3>1 DEF IInv, CallOK
  <2>3. \A p \in Points : /\ Shut(p) \in Points /\ Shut(p).rid = p.rid /\ Shut(p).nth = p.nth
                          /\ Shut(p).from = p.from /\ Shut(p).until = call.at
                          /\ Id(Shut(p)) = Id(p)
    BY <2>2 DEF Points, Id
  <2>4. \A p \in pts : Id(p) \in req.ids <=> p.rid \in call.rids
    BY <1>6, <1>12
  <2> HIDE DEF Shut
  <2>5. Effect(pts, req) \subseteq Points /\ OneEach(Effect(pts, req))
    <3>1. Effect(pts, req) \subseteq Points
      BY <1>1, <2>1, <2>3
    <3>2. ASSUME NEW p \in pts, NEW q \in pts,
                 Id(IF Id(p) \in req.ids THEN Shut(p) ELSE p)
                   = Id(IF Id(q) \in req.ids THEN Shut(q) ELSE q)
          PROVE  p = q
      <4>1. Id(p) = Id(q)
        BY <1>1, <2>3, <3>2
      <4>2. QED BY <1>1, <4>1 DEF OneEach
    <3>3. QED BY <2>1, <3>1, <3>2 DEF OneEach
  <2>6. \A p \in Effect(pts, req) :
          \/ p \in pts /\ p.rid \notin call.rids
          \/ /\ p.rid \in call.rids /\ p.until = call.at
             /\ \E q \in pts : q.rid = p.rid /\ q.nth = p.nth /\ q.from = p.from
    BY <1>1, <2>1, <2>3, <2>4
  <2>7. \A q \in pts : \E p \in Effect(pts, req) : p.rid = q.rid
    BY <1>1, <2>1, <2>3
  <2>8. pts \subseteq Copies(c)
    BY <1>6
  <2>9. \A p \in Copies(c)' :
          \/ p \in Copies(c)
          \/ /\ p.rid \in call.rids /\ p.until = call.at
             /\ \E q \in Copies(c) : q.rid = p.rid /\ q.nth = p.nth /\ q.from = p.from
    BY <1>6, <1>9, <2>6, <2>8
  <2>10. \A q \in Copies(c) : \E p \in Copies(c)' : p.rid = q.rid
    BY <1>6, <1>9, <1>12, <2>7
  <2>11. queue'[c] = <<>> => Copies(c)' = Effect(pts, req) /\ LastSent(c).kind = "set_payload"
    BY <1>3, <1>6, <1>12
  <2>12. queue'[c] = <<>> => \A p \in Copies(c)' : p.rid \in call.rids => p.until = call.at
    BY <2>6, <2>11
  <2>13. ServerOK'
    BY <1>5, <2>5
  <2>14. QED BY <1>3, <1>4, <1>8, <1>12, <2>5, <2>9, <2>10, <2>11, <2>12, <2>13
<1>13. CASE /\ req.kind = "delete" /\ req.new = {}
            /\ call.op = "delete" \/ \A r \in call.rids : Dropped(c, r)
            /\ \A p \in Copies(c) : Id(p) \in req.ids <=> p.rid \in call.rids
  <2>1. Effect(pts, req) = {p \in pts : Id(p) \notin req.ids}
    BY <1>13 DEF Effect, Without
  <2>2. \A p \in pts : Id(p) \in req.ids <=> p.rid \in call.rids
    BY <1>6, <1>13
  <2>3. Effect(pts, req) \subseteq Points /\ OneEach(Effect(pts, req))
    BY <1>1, <2>1 DEF OneEach
  <2>4. Copies(c)' \subseteq Copies(c)
    BY <1>6, <1>9, <2>1
  <2>5. \A q \in Copies(c) : q.rid \notin call.rids => \E p \in Copies(c)' : p.rid = q.rid
    BY <1>6, <1>9, <1>13, <2>1, <2>2
  <2>6. queue'[c] = <<>> =>
          LastSent(c).kind = "delete" /\ \A p \in Copies(c)' : p.rid \notin call.rids
    BY <1>3, <1>6, <1>13, <2>1, <2>2
  <2>7. ServerOK'
    BY <1>5, <2>3
  <2>8. QED BY <1>3, <1>4, <1>8, <1>13, <2>3, <2>4, <2>5, <2>6, <2>7
<1>14. QED BY <1>7, <1>11, <1>12, <1>13 DEF RequestOK, Dropped

-----------------------------------------------------------------------------
(* Types.                                                                    *)

\* The arguments of the calls are well typed.
LEMMA ArgumentTypes ==
  /\ IsBatch(NoRecs)
  /\ \A recs \in Batches : IsBatch(recs)
  /\ \A rid, new \in Rid, at \in Instant :
       LET c == SupersedeOf(rid, new, at)
       IN  IsBatch(c.recs) /\ c.rids \subseteq Rid /\ c.at \in Instant
  BY BatchAssumption DEF IsBatch, NoRecs, Interval, SupersedeOf

\* write() gives each record a point with the number of the call, in each of
\* the collections it is placed in.
LEMMA StartType ==
  ASSUME TypeOK, NEW recs, IsBatch(recs), StartInserts(recs)
  PROVE  /\ pc' = "insert"
         /\ counter' = counter + 1 /\ counter' \in 1 .. MaxWrites
         /\ idmap' \in [Table -> [Rid -> 0 .. counter']]
         /\ \A c \in Table, r \in Rid :
              idmap'[c][r] = IF r \in PlacedIn(c, recs) THEN counter' ELSE idmap[c][r]
         /\ DOMAIN todo' = Table
         /\ \A c \in Table :
              /\ todo'[c] \subseteq Points /\ OneEach(todo'[c])
              /\ \A p \in todo'[c] : /\ p.rid \in PlacedIn(c, recs) /\ p.nth = counter'
                                     /\ Says(p, recs[p.rid])
              /\ \A r \in PlacedIn(c, recs) : \E p \in todo'[c] : p.rid = r
<1>1. /\ counter \in 0 .. MaxWrites /\ MaxWrites \in Nat
      /\ idmap \in [Table -> [Rid -> 0 .. counter]]
      /\ DOMAIN recs \subseteq Rid /\ recs \in [DOMAIN recs -> Interval]
  BY ChunkAssumption DEF TypeOK, IsBatch
<1>2. /\ counter < MaxWrites /\ counter' = counter + 1 /\ pc' = "insert"
      /\ idmap' = [c \in Table |-> [r \in Rid |->
                     IF r \in PlacedIn(c, recs) THEN counter + 1 ELSE idmap[c][r]]]
  BY DEF StartInserts
<1>3. counter' \in 1 .. MaxWrites /\ 0 .. counter \subseteq 0 .. counter' /\ counter' \in 0 .. counter'
  BY <1>1, <1>2
<1>4. /\ idmap' \in [Table -> [Rid -> 0 .. counter']]
      /\ \A c \in Table, r \in Rid :
           idmap'[c][r] = IF r \in PlacedIn(c, recs) THEN counter' ELSE idmap[c][r]
  BY <1>1, <1>2, <1>3
<1> DEFINE New(r) == [rid |-> r, nth |-> counter', from |-> recs[r].from, until |-> recs[r].until]
<1>5. todo' = [c \in Table |-> {New(r) : r \in PlacedIn(c, recs)}]
  BY <1>2 DEF StartInserts, PayloadOf
<1>6. ASSUME NEW r \in DOMAIN recs
      PROVE  /\ New(r) \in Points /\ New(r).rid = r /\ New(r).nth = counter'
             /\ Says(New(r), recs[r])
  <2>1. r \in Rid /\ recs[r] \in Interval
    BY <1>1
  <2>2. recs[r].from \in Instant /\ recs[r].until \in Instant \cup {TOpen}
    BY <2>1 DEF Interval
  <2>3. QED BY <1>3, <2>1, <2>2 DEF Points, Says
<1> HIDE DEF New
<1>7. ASSUME NEW c \in Table
      PROVE  /\ todo'[c] = {New(r) : r \in PlacedIn(c, recs)}
             /\ PlacedIn(c, recs) \subseteq DOMAIN recs
  BY <1>5 DEF PlacedIn
<1>8. ASSUME NEW c \in Table
      PROVE  OneEach(todo'[c])
  BY <1>6, <1>7 DEF OneEach, Id
<1>9. DOMAIN todo' = Table
  BY <1>5
<1>10. QED BY <1>2, <1>3, <1>4, <1>6, <1>7, <1>8, <1>9

\* What a supersede that has not returned has in hand.
LEMMA SupersedeInHand ==
  ASSUME IInv, call.op = "supersede"
  PROVE  \E rid, new \in Rid :
           /\ rid # new /\ ChainOf[rid] = ChainOf[new]
           /\ call.rids = {rid} /\ DOMAIN call.recs = {new}
           /\ call.recs[new] = [from |-> call.at, until |-> TOpen]
           /\ call.at \in Instant
           /\ acked[rid] \in Interval /\ acked[new] = Absent
           /\ IsOpen(acked[rid]) /\ acked[rid].from <= call.at
           /\ Closing(rid) /\ Inserting(new)
           /\ pc \in {"close", "uncur", "insert", "failed"}
<1>1. /\ pc \in {"close", "uncur", "insert", "failed"} /\ call.at \in Instant
      /\ \E rid, new \in Rid :
           /\ MaySupersede(rid, new, call.at) /\ call.rids = {rid}
           /\ call.recs = [r \in {new} |-> [from |-> call.at, until |-> TOpen]]
  <2>1. CallOK /\ call # NoCall
    BY DEF IInv, NoCall
  <2>2. QED BY <2>1 DEF CallOK
<1>2. PICK rid \in Rid, new \in Rid :
        /\ MaySupersede(rid, new, call.at) /\ call.rids = {rid}
        /\ call.recs = [r \in {new} |-> [from |-> call.at, until |-> TOpen]]
  BY <1>1
<1>3. /\ rid # new /\ DOMAIN call.recs = {new}
      /\ call.recs[new] = [from |-> call.at, until |-> TOpen]
  BY <1>2 DEF MaySupersede, SameChain
<1>4. acked[rid] \in Interval
  BY <1>2 DEF IInv, TypeOK, MaySupersede
<1>5. RowOK(rid) /\ RowOK(new)
  BY DEF IInv
<1>6. Closing(rid) /\ Inserting(new)
  BY <1>2, <1>3, <1>5 DEF RowOK
<1>7. QED BY <1>1, <1>2, <1>3, <1>4, <1>6 DEF MaySupersede, SameChain

\* Which call each of the loops belongs to.
LEMMA LoopOf ==
  ASSUME IInv
  PROVE  /\ pc \in {"close", "uncur"} => call.op = "supersede"
         /\ pc = "insert" => call.op \in {"write", "supersede"}
         /\ pc = "erase" => call.op = "delete"
         /\ pc = "idle" => call = NoCall
         /\ call.op = "write" => call.rids = {} /\ FitsHistory(call.recs)
         /\ call.op = "delete" => call.recs = NoRecs
<1>1. CallOK
  BY DEF IInv
<1>2. CASE call = NoCall /\ pc = "idle"
  BY <1>2 DEF NoCall
<1>3. CASE call # NoCall
  BY <1>1, <1>3 DEF CallOK
<1>4. QED BY <1>1, <1>2, <1>3 DEF CallOK

\* The requests the adapter makes are requests the server knows.
LEMMA RequestTypes ==
  ASSUME IInv, NEW c \in Table
  PROVE  /\ \A rids \in SUBSET Rid : Known(c, rids) \subseteq Rid \X (1 .. MaxWrites)
         /\ pc = "close" => SetUntil(todo[c], call.at) \in Requests
         /\ pc = "erase" => DeletePoints(todo[c]) \in Requests
         /\ pc = "uncur" => DeletePoints(todo[c]) \in Requests
         /\ pc = "insert" => \A chunk \in SUBSET todo[c] : Upsert(chunk) \in Requests
<1>1. /\ idmap[c] \in [Rid -> 0 .. counter] /\ counter \in 0 .. MaxWrites /\ MaxWrites \in Nat
      /\ call.rids \subseteq Rid
      /\ todo[c] \subseteq IF pc = "insert" THEN Points ELSE Rid \X (1 .. MaxWrites)
  BY ChunkAssumption DEF IInv, TypeOK
<1>2. ASSUME NEW rids \in SUBSET Rid
      PROVE  Known(c, rids) \subseteq Rid \X (1 .. MaxWrites)
  <2>1. \A r \in Rid : idmap[c][r] # 0 => idmap[c][r] \in 1 .. MaxWrites
    BY <1>1
  <2>2. QED BY <2>1 DEF Known
<1>3. pc = "close" => call.at \in Nat
  BY LoopOf, SupersedeInHand, InstantAssumption
<1>4. QED BY <1>1, <1>2, <1>3 DEF SetUntil, DeletePoints, Upsert, Requests

\* What a call leaves behind is well typed.
LEMMA OutcomeType ==
  ASSUME IInv
  PROVE  Outcome \in [Rid -> Interval \cup {Absent}]
<1> SUFFICES ASSUME NEW r \in Rid
             PROVE  Outcome[r] \in Interval \cup {Absent}
  BY DEF Outcome
<1>1. acked[r] \in Interval \cup {Absent} /\ IsBatch(call.recs)
  BY DEF IInv, TypeOK
<1>2. CASE r \in DOMAIN call.recs
  BY <1>1, <1>2 DEF Outcome, IsBatch
<1>3. CASE r \notin DOMAIN call.recs /\ r \in call.rids /\ call.op = "supersede"
  <2>1. acked[r] \in Interval /\ call.at \in Instant
    BY <1>3, SupersedeInHand
  <2>2. QED BY <1>3, <2>1, ClosedInterval DEF Outcome
<1>4. CASE r \notin DOMAIN call.recs /\ ~(r \in call.rids /\ call.op = "supersede")
  BY <1>1, <1>4 DEF Outcome
<1>5. QED BY <1>2, <1>3, <1>4

TypesOK == TypeOK /\ ServerOK

MapTypes == idmap \in [Table -> [Rid -> 0 .. counter]] /\ counter \in 0 .. MaxWrites

TodoTypes ==
  /\ pc \in Loops \cup {"idle", "failed"}
  /\ DOMAIN todo = Table
  /\ \A c \in Table : todo[c] \subseteq IF pc = "insert" THEN Points ELSE Rid \X (1 .. MaxWrites)

CallTypes ==
  /\ call.op \in {"none", "write", "supersede", "delete"}
  /\ IsBatch(call.recs) /\ call.rids \subseteq Rid
  /\ awaits \in Table \cup {None}
  /\ acked \in [Rid -> Interval \cup {Absent}]

PointTypes == ServerOK /\ \A c \in Table : OneEach(points[c])

LEMMA TypeParts == TypesOK <=> PointTypes /\ MapTypes /\ TodoTypes /\ CallTypes
<1>1. TypesOK => PointTypes /\ MapTypes /\ TodoTypes /\ CallTypes
  BY DEF TypesOK, TypeOK, ServerOK, OneEach, PointTypes, MapTypes, TodoTypes, CallTypes
<1>2. PointTypes => DOMAIN points = Table /\ \A c \in Table : points[c] \subseteq Points
  BY DEF PointTypes, ServerOK
<1>3. PointTypes /\ MapTypes /\ TodoTypes /\ CallTypes => TypesOK
  BY <1>2 DEF TypesOK, TypeOK, OneEach, PointTypes, MapTypes, TodoTypes, CallTypes
<1>4. QED BY <1>1, <1>3

\* The ids a loop starts from are well typed, and so are a call's points.
LEMMA LoopTypes ==
  ASSUME IInv, NEW first \in {"close", "erase"}, NEW rids \in SUBSET Rid,
         StartLoop(first, rids)
  PROVE  MapTypes' /\ TodoTypes'
<1>1. MapTypes'
  BY DEF IInv, TypeOK, MapTypes, StartLoop
<1>2. \A c \in Table : todo'[c] \subseteq Rid \X (1 .. MaxWrites)
  BY RequestTypes DEF StartLoop
<1>3. QED BY <1>1, <1>2 DEF StartLoop, TodoTypes, Loops

LEMMA InsertTypes ==
  ASSUME IInv, NEW recs, IsBatch(recs), StartInserts(recs)
  PROVE  MapTypes' /\ TodoTypes'
<1>1. TypeOK
  BY DEF IInv
<1>2. /\ pc' = "insert" /\ counter' \in 0 .. MaxWrites
      /\ idmap' \in [Table -> [Rid -> 0 .. counter']]
      /\ DOMAIN todo' = Table /\ \A c \in Table : todo'[c] \subseteq Points
  BY <1>1, StartType, ChunkAssumption
<1>3. QED BY <1>2 DEF MapTypes, TodoTypes, Loops

LEMMA TypeStep ==
  ASSUME IInv, [Next]_vars
  PROVE  TypesOK'
<1>0. TypeOK /\ ServerOK /\ PointTypes /\ MapTypes /\ TodoTypes /\ CallTypes
  <2>1. TypesOK
    BY DEF IInv, TypesOK, TypeOK, ServerOK
  <2>2. QED BY <2>1, TypeParts DEF TypesOK
<1>a. ASSUME PointTypes', MapTypes', TodoTypes', CallTypes'
      PROVE  TypesOK'
  <2>1. (PointTypes /\ MapTypes /\ TodoTypes /\ CallTypes)'
    BY <1>a
  <2>2. QED BY <2>1, TypeParts, PTL
<1>b. UNCHANGED <<points, queue>> => PointTypes'
  BY <1>0 DEF PointTypes, ServerOK, OneEach
<1>c. UNCHANGED <<idmap, counter>> => MapTypes'
  BY <1>0 DEF MapTypes
<1>d. UNCHANGED <<call, awaits, acked>> => CallTypes'
  BY <1>0 DEF CallTypes
<1>e. ASSUME NEW c \in Table, NEW req \in Requests, Request(c, req, TRUE)
      PROVE  PointTypes' /\ awaits' \in Table \cup {None}
  BY <1>0, <1>e, SentCopies DEF PointTypes, OneEach
<1>1. ASSUME NEW recs \in Batches, Write(recs)
      PROVE  TypesOK'
  <2>1. /\ IsBatch(recs) /\ StartInserts(recs) /\ call' = WriteOf(recs)
        /\ UNCHANGED <<points, queue, awaits, acked>>
    BY <1>1, ArgumentTypes DEF Write, Call, Begin, WriteOf
  <2>2. CallTypes'
    BY <1>0, <2>1 DEF CallTypes, WriteOf
  <2>3. QED BY <1>a, <1>b, <2>1, <2>2, InsertTypes
<1>2. ASSUME NEW rid \in Rid, NEW new \in Rid, NEW at \in Instant, Supersede(rid, new, at)
      PROVE  TypesOK'
  <2> DEFINE c == SupersedeOf(rid, new, at)
  <2>1. c.op = "supersede" /\ c.rids \subseteq Rid /\ IsBatch(c.recs)
    <3>1. c.op = "supersede"
      BY DEF SupersedeOf
    <3>2. QED BY <3>1, ArgumentTypes
  <2>2. /\ call' = c /\ StartLoop("close", c.rids)
        /\ UNCHANGED <<points, queue, awaits, acked>>
    BY <1>2, <2>1 DEF Supersede, Call, Begin
  <2> HIDE DEF c
  <2>3. CallTypes'
    BY <1>0, <2>1, <2>2 DEF CallTypes
  <2>4. QED BY <1>a, <1>b, <2>1, <2>2, <2>3, LoopTypes
<1>3. ASSUME NEW rids \in (SUBSET Rid) \ {{}}, Delete(rids)
      PROVE  TypesOK'
  <2>1. /\ call' = DeleteOf(rids) /\ StartLoop("erase", rids)
        /\ UNCHANGED <<points, queue, awaits, acked>>
    BY <1>3 DEF Delete, DeleteOf, Call, Begin
  <2>2. CallTypes'
    BY <1>0, <2>1, ArgumentTypes DEF CallTypes, DeleteOf
  <2>3. QED BY <1>a, <1>b, <2>1, <2>2, LoopTypes
<1>4. ASSUME NEW c \in Table, CloseStmt(c)
      PROVE  TypesOK'
  <2>1. /\ pc = "close" /\ Request(c, SetUntil(todo[c], call.at), TRUE)
        /\ todo' = [todo EXCEPT ![c] = {}]
        /\ UNCHANGED <<idmap, counter, pc, call, acked>>
    BY <1>4 DEF CloseStmt
  <2>2. PointTypes' /\ awaits' \in Table \cup {None}
    BY <1>e, <2>1, RequestTypes
  <2>3. TodoTypes' /\ CallTypes'
    BY <1>0, <2>1, <2>2 DEF TodoTypes, CallTypes
  <2>4. QED BY <1>a, <1>c, <2>1, <2>2, <2>3
<1>5. CASE PopEntry
  <2>1. /\ pc = "close" /\ pc' = "uncur"
        /\ idmap' = [idmap EXCEPT ![Cur] = [r \in Rid |-> IF r \in call.rids THEN 0 ELSE @[r]]]
        /\ todo' = [todo EXCEPT ![Cur] = Known(Cur, call.rids)]
        /\ UNCHANGED <<points, queue, counter, call, awaits, acked>>
    BY <1>5 DEF PopEntry
  <2>2. Known(Cur, call.rids) \subseteq Rid \X (1 .. MaxWrites)
    BY <1>0, RequestTypes, Tables DEF CallTypes
  <2>3. MapTypes'
    <3>1. counter \in Nat /\ 0 \in 0 .. counter
      BY <1>0, ChunkAssumption DEF MapTypes
    <3>2. idmap' \in [Table -> [Rid -> 0 .. counter]]
      BY <1>0, <2>1, <3>1, Tables DEF MapTypes
    <3>3. QED BY <1>0, <2>1, <3>2 DEF MapTypes
  <2>4. TodoTypes'
    <3>1. \A c \in Table : todo'[c] \subseteq Rid \X (1 .. MaxWrites)
      BY <1>0, <2>1, <2>2 DEF TodoTypes
    <3>2. QED BY <1>0, <2>1, <3>1 DEF TodoTypes, Loops
  <2>5. QED BY <1>a, <1>b, <1>d, <2>1, <2>3, <2>4
<1>6. CASE UncurStmt
  <2>1. /\ pc = "uncur" /\ Request(Cur, DeletePoints(todo[Cur]), TRUE)
        /\ todo' = [todo EXCEPT ![Cur] = {}]
        /\ UNCHANGED <<idmap, counter, pc, call, acked>>
    BY <1>6 DEF UncurStmt
  <2>2. PointTypes' /\ awaits' \in Table \cup {None}
    BY <1>e, <2>1, RequestTypes, Tables
  <2>3. TodoTypes' /\ CallTypes'
    BY <1>0, <2>1, <2>2 DEF TodoTypes, CallTypes
  <2>4. QED BY <1>a, <1>c, <2>1, <2>2, <2>3
<1>7. CASE Successor
  <2>1. StartInserts(call.recs) /\ UNCHANGED <<points, queue, call, awaits, acked>>
    BY <1>7 DEF Successor
  <2>2. IsBatch(call.recs)
    BY <1>0 DEF CallTypes
  <2>3. QED BY <1>a, <1>b, <1>d, <2>1, <2>2, InsertTypes
<1>8. ASSUME NEW c \in Table, NEW chunk \in SUBSET todo[c], UpsertStmt(c, chunk)
      PROVE  TypesOK'
  <2> DEFINE small == ~Many(c)
  <2>1. /\ pc = "insert" /\ Request(c, Upsert(chunk), small)
        /\ todo' = [todo EXCEPT ![c] = @ \ chunk]
        /\ UNCHANGED <<idmap, counter, pc, call, acked>>
    BY <1>8 DEF UpsertStmt
  <2> HIDE DEF small
  <2>2. Upsert(chunk) \in Requests
    BY <2>1, RequestTypes
  <2>3. ServerOK' /\ points' = points /\ awaits' = IF small THEN c ELSE None
    BY <1>0, <2>1, <2>2, SentCopies
  <2>4. PointTypes' /\ awaits' \in Table \cup {None}
    BY <1>0, <2>3 DEF PointTypes, OneEach
  <2>5. TodoTypes' /\ CallTypes'
    BY <1>0, <2>1, <2>4 DEF TodoTypes, CallTypes
  <2>6. QED BY <1>a, <1>c, <2>1, <2>4, <2>5
<1>9. ASSUME NEW c \in Table, EraseStmt(c)
      PROVE  TypesOK'
  <2>1. /\ pc = "erase" /\ Request(c, DeletePoints(todo[c]), TRUE)
        /\ todo' = [todo EXCEPT ![c] = {}]
        /\ UNCHANGED <<idmap, counter, pc, call, acked>>
    BY <1>9 DEF EraseStmt
  <2>2. PointTypes' /\ awaits' \in Table \cup {None}
    BY <1>e, <2>1, RequestTypes
  <2>3. TodoTypes' /\ CallTypes'
    BY <1>0, <2>1, <2>2 DEF TodoTypes, CallTypes
  <2>4. QED BY <1>a, <1>c, <2>1, <2>2, <2>3
<1>10. CASE Return
  <2>1. /\ pc' = "idle" /\ call' = NoCall /\ awaits' = None /\ acked' = Outcome
        /\ \A c \in Table : todo[c] = {}
        /\ UNCHANGED <<points, queue, idmap, counter, todo>>
    BY <1>10 DEF Return
  <2>2. CallTypes'
    BY <2>1, OutcomeType, ArgumentTypes DEF CallTypes, NoCall
  <2>3. TodoTypes'
    BY <1>0, <2>1 DEF TodoTypes
  <2>4. QED BY <1>a, <1>b, <1>c, <2>1, <2>2, <2>3
<1>11. CASE Fail
  <2>1. /\ pc' = "failed" /\ awaits' = None /\ todo' = [c \in Table |-> {}]
        /\ UNCHANGED <<points, queue, idmap, counter, call, acked>>
    BY <1>11 DEF Fail
  <2>2. TodoTypes' /\ CallTypes'
    BY <1>0, <2>1 DEF TodoTypes, CallTypes
  <2>3. QED BY <1>a, <1>b, <1>c, <2>1, <2>2
<1>12. CASE Retry
  <2>1. Begin(call) /\ UNCHANGED <<points, queue, call, awaits, acked>>
    BY <1>12 DEF Retry
  <2>2. IsBatch(call.recs) /\ call.rids \in SUBSET Rid
    BY <1>0 DEF CallTypes
  <2>3. MapTypes' /\ TodoTypes'
    BY <2>1, <2>2, InsertTypes, LoopTypes DEF Begin
  <2>4. QED BY <1>a, <1>b, <1>d, <2>1, <2>3
<1>13. CASE Reconstruct
  <2>1. /\ points' = [c \in Table |-> {}] /\ queue' = [c \in Table |-> <<>>]
        /\ idmap' = [c \in Table |-> [r \in Rid |-> 0]] /\ counter' = 0
        /\ pc' = "idle" /\ call' = NoCall /\ todo' = [c \in Table |-> {}]
        /\ awaits' = None /\ acked' = [r \in Rid |-> Absent]
    BY <1>13 DEF Reconstruct, Recreate, NoRows
  <2>2. PointTypes'
    BY <2>1, EmptySeq DEF PointTypes, ServerOK, OneEach
  <2>3. counter' \in 0 .. MaxWrites /\ 0 \in 0 .. counter'
    BY <2>1, ChunkAssumption
  <2>4. MapTypes'
    BY <2>1, <2>3 DEF MapTypes
  <2>5. TodoTypes'
    BY <2>1 DEF TodoTypes
  <2>6. CallTypes'
    BY <2>1, ArgumentTypes DEF CallTypes, NoCall
  <2>7. QED BY <1>a, <2>2, <2>4, <2>5, <2>6
<1>14. ASSUME NEW c \in Table, ServerApplies(c)
       PROVE  TypesOK'
  <2>1. UNCHANGED <<idmap, counter, pc, call, todo, awaits, acked>>
    BY <1>14 DEF ServerApplies, client
  <2>2. PointTypes'
    BY <1>0, <1>14, AppliedCopies DEF PointTypes
  <2>3. TodoTypes'
    BY <1>0, <2>1 DEF TodoTypes
  <2>4. QED BY <1>a, <1>c, <1>d, <2>1, <2>2, <2>3
<1>15. CASE UNCHANGED vars
  <2>1. UNCHANGED <<points, queue, idmap, counter, pc, call, todo, awaits, acked>>
    BY <1>15 DEF vars, client
  <2>2. TodoTypes'
    BY <1>0, <2>1 DEF TodoTypes
  <2>3. QED BY <1>a, <1>b, <1>c, <1>d, <2>1, <2>2
<1>16. QED
  BY <1>1, <1>2, <1>3, <1>4, <1>5, <1>6, <1>7, <1>8, <1>9, <1>10, <1>11, <1>12, <1>13, <1>14,
     <1>15
  DEF Next

-----------------------------------------------------------------------------
(* Every step keeps the rest of the invariant: one lemma per action.         *)

RequestsOK == \A c \in Table : \A req \in Pending(c) : RequestOK(c, req)

InFlightOK ==
  /\ HistoryOK /\ CallOK
  /\ RequestsOK
  /\ MapOK
  /\ \A r \in Rid : RowOK(r)
  /\ WaitOK /\ TodoOK

LEMMA InvParts == IInv <=> TypesOK /\ InFlightOK
  BY DEF IInv, TypesOK, ServerOK, InFlightOK, RequestsOK

\* A call in progress stays what it is while its loops are worked off.
LEMMA CallStays ==
  ASSUME IInv, UNCHANGED <<call, acked>>,
         \/ pc' = pc
         \/ pc # "idle" /\ pc' = "failed"
         \/ pc = "close" /\ pc' = "uncur"
         \/ pc = "uncur" /\ pc' = "insert"
         \/ call.op = "delete" /\ pc # "idle" /\ pc' = "erase"
  PROVE  HistoryOK' /\ CallOK'
<1>1. HistoryOK'
  BY DEF IInv, HistoryOK
<1>2. CallOK'
  <2>1. CallOK
    BY DEF IInv
  <2>2. CASE call = NoCall /\ pc = "idle"
    <3>1. pc' = pc
      BY <2>2 DEF NoCall
    <3>2. QED BY <2>2, <3>1 DEF CallOK
  <2>3. CASE /\ call.op = "write" /\ pc \in {"insert", "failed"}
             /\ call.rids = {} /\ FitsHistory(call.recs)
    BY <2>3 DEF CallOK, FitsHistory
  <2>4. CASE /\ call.op = "supersede" /\ pc \in {"close", "uncur", "insert", "failed"}
             /\ \E a, b \in Rid :
                  /\ MaySupersede(a, b, call.at) /\ call.at \in Instant /\ call.rids = {a}
                  /\ call.recs = [r \in {b} |-> [from |-> call.at, until |-> TOpen]]
    BY <2>4 DEF CallOK, MaySupersede
  <2>5. CASE call.op = "delete" /\ pc \in {"erase", "failed"} /\ call.recs = NoRecs
    BY <2>5 DEF CallOK
  <2>6. QED BY <2>1, <2>2, <2>3, <2>4, <2>5 DEF CallOK
<1>3. QED BY <1>1, <1>2

\* A row that the call is not about stays as the caller knows it, if its copies
\* stay or are replaced by equal ones.
LEMMA OtherRow ==
  ASSUME IInv, UNCHANGED <<call, acked>>,
         NEW r \in Rid, r \notin DOMAIN call.recs, r \notin call.rids,
         \A c \in Table : /\ CopiesOf(c, r)' \subseteq CopiesOf(c, r)
                          /\ CopiesOf(c, r) # {} => CopiesOf(c, r)' # {}
  PROVE  RowOK(r)'
<1>1. AsAcked(r)
  BY DEF IInv, RowOK
<1>2. AsAcked(r)'
  <2>1. CASE acked[r] = Absent
    BY <1>1, <2>1 DEF AsAcked
  <2>2. CASE acked[r] # Absent
    <3>1. Stands(r, acked[r]) /\ Cur \in Table /\ TablesOf(acked[r]) \subseteq Table
      BY <1>1, <2>2, Tables, TablesOfInterval DEF AsAcked
    <3>2. \A c \in Table : \A p \in CopiesOf(c, r)' : Says(p, acked[r])
      BY <3>1 DEF Stands
    <3>3. CopiesOf(Cur, r)' # {} => IsOpen(acked[r])
      BY <3>1 DEF Stands
    <3>4. \A c \in TablesOf(acked[r]) : CopiesOf(c, r)' # {}
      BY <3>1 DEF Stands
    <3>5. QED BY <2>2, <3>2, <3>3, <3>4 DEF AsAcked, Stands
  <2>3. QED BY <2>1, <2>2
<1>3. QED BY <1>2 DEF RowOK

\* Between calls every row is as the caller knows it, and only upserts are
\* still pending.
LEMMA AtRest ==
  ASSUME IInv, pc = "idle"
  PROVE  /\ call = NoCall /\ DOMAIN call.recs = {} /\ call.rids = {} /\ awaits = None
         /\ \A c \in Table :
              /\ todo[c] = {} /\ Unsent(c) = {}
              /\ \A req \in Pending(c) : req.kind = "upsert" /\ OneEach(req.new)
              /\ \A p \in Copies(c) : p \in Points /\ p.rid \in Rid
                                      /\ p.nth = idmap[c][p.rid] /\ p.nth # 0
         /\ \A r \in Rid : AsAcked(r)
<1>1. call = NoCall
  BY LoopOf
<1>2. DOMAIN call.recs = {} /\ call.rids = {} /\ call.op = "none"
  BY <1>1 DEF NoCall, NoRecs
<1>3. /\ \A c \in Table : \A req \in Pending(c) : RequestOK(c, req)
      /\ \A r \in Rid : RowOK(r)
      /\ TodoOK /\ WaitOK /\ MapOK /\ ServerOK
  BY DEF IInv, ServerOK
<1>4. ASSUME NEW c \in Table, NEW p \in Copies(c)
      PROVE  p \in Points /\ p.rid \in Rid /\ p.nth = idmap[c][p.rid] /\ p.nth # 0
  <2>1. p \in Points
    BY <1>3, CopiesTyped
  <2>2. p.rid \in Rid /\ p.nth # 0
    BY <2>1 DEF Points
  <2>3. p.nth = idmap[c][p.rid]
    BY <1>2, <1>3 DEF MapOK, Dropped
  <2>4. QED BY <2>1, <2>2, <2>3
<1>5. \A c \in Table : todo[c] = {} /\ Unsent(c) = {}
  BY <1>3 DEF TodoOK, Unsent
<1>6. \A c \in Table : \A req \in Pending(c) : req.kind = "upsert" /\ OneEach(req.new)
  BY <1>2, <1>3 DEF RequestOK
<1>7. \A r \in Rid : AsAcked(r)
  BY <1>2, <1>3 DEF RowOK
<1>8. awaits = None
  BY <1>3 DEF WaitOK
<1>9. QED BY <1>1, <1>2, <1>4, <1>5, <1>6, <1>7, <1>8

\* When the answer to the last request has come, only upserts are pending, or
\* what a delete that raised has left before the loop comes to it again.
LEMMA OnlyUpserts ==
  ASSUME IInv, Ready, NEW c \in Table, NEW req \in Pending(c)
  PROVE  req.kind = "upsert" \/ pc = "failed" \/ (pc = "erase" /\ todo[c] # {})
<1>1. c = awaits => Pending(c) = {}
  BY NothingPending DEF Ready
<1>2. QED BY <1>1 DEF IInv, WaitOK

\* The map names the points of a row that stands, in every collection.
LEMMA KnownCopies ==
  ASSUME IInv, NEW c \in Table, NEW rids \in SUBSET Rid
  PROVE  /\ \A p \in Copies(c) : p \in Points /\ p.rid \in Rid /\ p.nth # 0
         /\ \A p \in Copies(c) :
              p.nth = idmap[c][p.rid] => (Id(p) \in Known(c, rids) <=> p.rid \in rids)
         /\ Known(c, rids) = {} =>
              \A p \in Copies(c) : p.nth = idmap[c][p.rid] => p.rid \notin rids
<1>1. \A p \in Copies(c) : p \in Points
  BY CopiesTyped DEF IInv, ServerOK
<1>2. \A p \in Copies(c) : p.rid \in Rid /\ p.nth # 0
  BY <1>1 DEF Points
<1>3. ASSUME NEW p \in Copies(c), p.nth = idmap[c][p.rid]
      PROVE  Id(p) \in Known(c, rids) <=> p.rid \in rids
  BY <1>2, <1>3 DEF Known, Id
<1>4. QED BY <1>1, <1>2, <1>3

\* A call starts from rows that are as the caller knows them.
LEMMA WriteStep ==
  ASSUME IInv, NEW recs \in Batches, FitsHistory(recs), Write(recs)
  PROVE  InFlightOK'
<1>1. /\ pc = "idle" /\ StartInserts(recs)
      /\ UNCHANGED <<points, queue, awaits, acked>>
      /\ call'.op = "write" /\ call'.recs = recs /\ call'.rids = {}
  BY DEF Write, Call, Begin, WriteOf
<1>2. /\ pc' = "insert"
      /\ \A c \in Table, r \in Rid :
           idmap'[c][r] = IF r \in PlacedIn(c, recs) THEN counter' ELSE idmap[c][r]
      /\ \A c \in Table :
           /\ OneEach(todo'[c])
           /\ \A p \in todo'[c] : /\ p.rid \in PlacedIn(c, recs) /\ p.nth = counter'
                                  /\ Says(p, recs[p.rid])
           /\ \A r \in PlacedIn(c, recs) : \E p \in todo'[c] : p.rid = r
  <2>1. TypeOK /\ IsBatch(recs)
    BY ArgumentTypes DEF IInv
  <2>2. QED BY <1>1, <2>1, StartType
<1>3. \A c \in Table : Pending(c)' = Pending(c) /\ Copies(c)' = Copies(c) /\ Unsent(c)' = todo'[c]
  BY <1>1, <1>2, SameServer DEF Unsent
<1>4. /\ awaits = None
      /\ \A c \in Table :
           /\ \A req \in Pending(c) : req.kind = "upsert" /\ OneEach(req.new)
           /\ \A p \in Copies(c) : p \in Points /\ p.rid \in Rid /\ p.nth = idmap[c][p.rid]
      /\ \A r \in Rid : AsAcked(r)
  BY <1>1, AtRest
<1>5. \A r \in DOMAIN recs :
        r \in Rid /\ acked[r] = Absent /\ \A c \in Table : CopiesOf(c, r) = {}
  BY <1>4, BatchAssumption DEF FitsHistory, IsBatch, AsAcked
<1>6. \A c \in Table, r \in Rid : r \in PlacedIn(c, recs) <=> r \in DOMAIN recs /\ c \in TablesOf(recs[r])
  BY DEF PlacedIn
<1>7. HistoryOK'
  BY <1>1 DEF IInv, HistoryOK
<1>8. CallOK'
  BY <1>1, <1>2 DEF CallOK, FitsHistory
<1>9. RequestsOK'
  BY <1>3, <1>4 DEF RequestsOK, RequestOK
<1>10. ASSUME NEW c \in Table, NEW p \in Copies(c)' \cup Unsent(c)'
       PROVE  p.nth = idmap'[c][p.rid]
  <2>1. CASE p \in Copies(c)
    <3>1. p.rid \in Rid /\ p.rid \notin DOMAIN recs /\ p.nth = idmap[c][p.rid]
      BY <1>4, <1>5, <2>1 DEF CopiesOf
    <3>2. QED BY <1>2, <1>6, <3>1
  <2>2. CASE p \in todo'[c]
    <3>1. p.rid \in PlacedIn(c, recs) /\ p.nth = counter'
      BY <1>2, <2>2
    <3>2. p.rid \in Rid
      BY <1>5, <3>1 DEF PlacedIn
    <3>3. QED BY <1>2, <3>1, <3>2
  <2>3. QED BY <1>3, <1>10, <2>1, <2>2
<1>11. ASSUME NEW r \in Rid
       PROVE  RowOK(r)'
  <2>1. CASE r \in DOMAIN recs
    <3>1. \A c \in Table : CopiesOf(c, r)' = {} /\ UnsentOf(c, r)' = {p \in todo'[c] : p.rid = r}
      BY <1>3, <1>5, <2>1 DEF CopiesOf, UnsentOf
    <3>2. acked'[r] = Absent
      BY <1>1, <1>5, <2>1
    <3>3. \A c \in Table : \A p \in CopiesOf(c, r)' \cup UnsentOf(c, r)' :
            c \in TablesOf(recs[r]) /\ Says(p, recs[r])
      BY <1>2, <1>6, <3>1
    <3>4. ASSUME NEW c \in TablesOf(recs[r])
          PROVE  CopiesOf(c, r)' \cup UnsentOf(c, r)' # {}
      <4>1. c \in Table /\ r \in PlacedIn(c, recs)
        BY <1>6, <2>1, <3>4, TablesOfInterval
      <4>2. QED BY <1>2, <3>1, <4>1
    <3>5. Inserting(r)'
      BY <1>1, <1>2, <3>2, <3>3, <3>4 DEF Inserting
    <3>6. QED BY <1>1, <2>1, <3>5 DEF RowOK
  <2>2. CASE r \notin DOMAIN recs
    <3>1. AsAcked(r)'
      BY <1>1, <1>3, <1>4, TablesOfInterval, Tables DEF AsAcked, Stands, CopiesOf
    <3>2. QED BY <1>1, <2>2, <3>1 DEF RowOK
  <2>3. QED BY <2>1, <2>2
<1>12. WaitOK'
  BY <1>1, <1>2, <1>3, <1>4, Tables DEF WaitOK
<1>13. TodoOK'
  BY <1>1, <1>2, <1>3 DEF TodoOK, PlacedIn
<1>14. MapOK'
  BY <1>10 DEF MapOK
<1>15. QED BY <1>7, <1>8, <1>9, <1>11, <1>12, <1>13, <1>14 DEF InFlightOK

\* What the two calls that loop over the map begin with.
LEMMA LoopStart ==
  ASSUME IInv, pc = "idle", NEW first \in {"close", "erase"}, NEW rids \in SUBSET Rid,
         StartLoop(first, rids), call'.rids = rids,
         UNCHANGED <<points, queue, awaits, acked>>
  PROVE  /\ pc' = first
         /\ RequestsOK' /\ MapOK' /\ WaitOK' /\ TodoOK' /\ HistoryOK'
         /\ \A r \in Rid : AsAcked(r) /\ AsAcked(r)'
         /\ \A c \in Table, r \in rids : Done(c)' => CopiesOf(c, r)' = {}
         /\ \A c \in Table, r \in Rid : CopiesOf(c, r)' = CopiesOf(c, r)
<1>1. /\ pc' = first /\ pc' # "insert" /\ UNCHANGED <<idmap, counter>>
      /\ \A c \in Table : todo'[c] = Known(c, rids)
  BY DEF StartLoop
<1>2. \A c \in Table : /\ Pending(c)' = Pending(c) /\ Copies(c)' = Copies(c)
                       /\ Unsent(c)' = {}
  BY <1>1, SameServer DEF Unsent
<1>3. /\ awaits = None
      /\ \A c \in Table :
           /\ \A req \in Pending(c) : req.kind = "upsert" /\ OneEach(req.new)
           /\ \A p \in Copies(c) : p \in Points /\ p.rid \in Rid /\ p.nth = idmap[c][p.rid]
      /\ \A r \in Rid : AsAcked(r)
  BY AtRest
<1>4. RequestsOK'
  BY <1>2, <1>3 DEF RequestsOK, RequestOK
<1>5. MapOK'
  BY <1>1, <1>2, <1>3 DEF MapOK
<1>6. WaitOK'
  BY <1>1, <1>2, <1>3, Tables DEF WaitOK
<1>7. TodoOK'
  <2>1. \A c \in Table : Known(c, rids)' = Known(c, rids)
    BY <1>1 DEF Known
  <2>2. \A c \in Table : todo'[c] = Known(c, call.rids)'
    BY <1>1, <2>1 DEF Known
  <2>3. QED BY <1>1, <1>2, <2>2 DEF TodoOK, OneEach
<1>8. HistoryOK'
  BY DEF IInv, HistoryOK
<1>9. \A c \in Table, r \in Rid : CopiesOf(c, r)' = CopiesOf(c, r)
  BY <1>2 DEF CopiesOf
<1>10. ASSUME NEW r \in Rid
       PROVE  AsAcked(r) /\ AsAcked(r)'
  BY <1>3, <1>9, TablesOfInterval, Tables DEF AsAcked, Stands
<1>11. ASSUME NEW c \in Table, NEW r \in rids, Done(c)'
       PROVE  CopiesOf(c, r)' = {}
  <2>1. Known(c, rids) = {}
    BY <1>1, <1>11 DEF Done
  <2>2. QED BY <1>2, <1>3, <2>1, KnownCopies DEF CopiesOf
<1>12. QED BY <1>1, <1>4, <1>5, <1>6, <1>7, <1>8, <1>9, <1>10, <1>11

LEMMA SupersedeStep ==
  ASSUME IInv, NEW rid \in Rid, NEW new \in Rid, NEW at \in Instant,
         MaySupersede(rid, new, at), Supersede(rid, new, at)
  PROVE  InFlightOK'
<1>1. /\ pc = "idle" /\ StartLoop("close", {rid})
      /\ UNCHANGED <<points, queue, awaits, acked>>
      /\ call'.op = "supersede" /\ call'.rids = {rid} /\ call'.at = at
      /\ call'.recs = [r \in {new} |-> [from |-> at, until |-> TOpen]]
  BY DEF Supersede, Call, Begin, SupersedeOf
<1>2. /\ pc' = "close"
      /\ RequestsOK' /\ MapOK' /\ WaitOK' /\ TodoOK' /\ HistoryOK'
      /\ \A r \in Rid : AsAcked(r) /\ AsAcked(r)'
      /\ \A c \in Table : Done(c)' => CopiesOf(c, rid)' = {}
      /\ \A c \in Table, r \in Rid : CopiesOf(c, r)' = CopiesOf(c, r)
  BY <1>1, LoopStart
<1>3. /\ DOMAIN call'.recs = {new} /\ rid # new
      /\ acked[rid] # Absent /\ acked[new] = Absent
  BY <1>1 DEF MaySupersede, SameChain
<1>4. CallOK'
  BY <1>1, <1>2 DEF CallOK, MaySupersede
<1>5. \A c \in Table : CopiesOf(c, new)' = {} /\ UnsentOf(c, new)' = {}
  BY <1>2, <1>3 DEF AsAcked, UnsentOf, Unsent
<1>6. Inserting(new)'
  BY <1>1, <1>2, <1>3, <1>5 DEF Inserting
<1>7. Closing(rid)'
  <2>1. Stands(rid, acked[rid]) /\ EpochsFor(acked[rid]) \subseteq TablesOf(acked[rid])
        /\ TablesOf(acked[rid]) \subseteq Table
    BY <1>2, <1>3, TablesOfInterval DEF AsAcked
  <2>2. \A c \in Table : \A p \in CopiesOf(c, rid)' : Says(p, acked[rid])
    BY <1>2, <2>1 DEF Stands
  <2>3. \A e \in EpochsFor(acked[rid]) : CopiesOf(e, rid)' # {}
    BY <1>2, <2>1 DEF Stands
  <2>4. \A c \in Table, s \in DOMAIN call'.recs : CopiesOf(c, s)' = {}
    BY <1>3, <1>5
  <2>5. \A c \in Table : Done(c)' => ClosedIn(c, rid)'
    BY <1>2 DEF ClosedIn
  <2>6. QED BY <1>1, <1>2, <1>3, <2>2, <2>3, <2>4, <2>5 DEF Closing
<1>8. ASSUME NEW r \in Rid
      PROVE  RowOK(r)'
  BY <1>1, <1>2, <1>3, <1>6, <1>7 DEF RowOK
<1>9. QED BY <1>2, <1>4, <1>8 DEF InFlightOK

LEMMA DeleteStep ==
  ASSUME IInv, NEW rids \in (SUBSET Rid) \ {{}}, Delete(rids)
  PROVE  InFlightOK'
<1>1. /\ pc = "idle" /\ StartLoop("erase", rids)
      /\ UNCHANGED <<points, queue, awaits, acked>>
      /\ call'.op = "delete" /\ call'.rids = rids /\ call'.recs = NoRecs
      /\ DOMAIN call'.recs = {}
  BY DEF Delete, Call, Begin, DeleteOf, NoRecs
<1>2. /\ pc' = "erase"
      /\ RequestsOK' /\ MapOK' /\ WaitOK' /\ TodoOK' /\ HistoryOK'
      /\ \A r \in Rid : AsAcked(r) /\ AsAcked(r)'
      /\ \A c \in Table, r \in rids : Done(c)' => CopiesOf(c, r)' = {}
      /\ \A c \in Table, r \in Rid : CopiesOf(c, r)' = CopiesOf(c, r)
  BY <1>1, LoopStart
<1>3. CallOK'
  BY <1>1, <1>2 DEF CallOK
<1>4. ASSUME NEW r \in rids
      PROVE  Erasing(r)'
  <2>1. AsAcked(r) /\ r \in Rid /\ Cur \in Table
    BY <1>2, Tables
  <2>2. \A c \in Table : \A p \in CopiesOf(c, r) : acked[r] # Absent /\ Says(p, acked[r])
    BY <2>1 DEF AsAcked, Stands
  <2>3. CopiesOf(Cur, r) # {} => IsOpen(acked[r])
    BY <2>1 DEF AsAcked, Stands
  <2>4. QED BY <1>1, <1>2, <2>1, <2>2, <2>3 DEF Erasing
<1>5. ASSUME NEW r \in Rid
      PROVE  RowOK(r)'
  BY <1>1, <1>2, <1>4 DEF RowOK
<1>6. QED BY <1>2, <1>3, <1>5 DEF InFlightOK

\* A close names the points of the old version in one collection.
LEMMA CloseStep ==
  ASSUME IInv, NEW c \in Table, CloseStmt(c)
  PROVE  InFlightOK'
<1> DEFINE req == SetUntil(todo[c], call.at)
<1>1. /\ pc = "close" /\ Ready /\ todo[c] # {} /\ Request(c, req, TRUE)
      /\ todo' = [todo EXCEPT ![c] = {}]
      /\ UNCHANGED <<idmap, counter, pc, call, acked>>
  BY DEF CloseStmt, IsNext
<1>2. PICK rid \in Rid, new \in Rid :
        /\ rid # new /\ call.rids = {rid} /\ DOMAIN call.recs = {new}
        /\ Closing(rid) /\ Inserting(new)
  BY <1>1, LoopOf, SupersedeInHand
<1>3. /\ req.kind = "set_payload" /\ req.new = {} /\ req.ids = todo[c] /\ req.until = call.at
      /\ req \in Requests
  BY <1>1, RequestTypes DEF SetUntil
<1> HIDE DEF req
<1>4. /\ queue'[c] # <<>> /\ awaits' = c
      /\ LastSent(c)' = req /\ Pending(c)' = Pending(c) \cup {req}
      /\ \A d \in Table : Copies(d)' = Copies(d)
      /\ \A d \in Table : d # c => queue'[d] = queue[d] /\ Pending(d)' = Pending(d)
  <2>1. ServerOK
    BY DEF IInv, ServerOK
  <2>2. QED BY <1>1, <1>3, <2>1, SentCopies
<1>5. /\ DOMAIN todo = Table /\ todo'[c] = {} /\ \A d \in Table : d # c => todo'[d] = todo[d]
  BY <1>1 DEF IInv, TypeOK
<1>6. HistoryOK' /\ CallOK'
  BY <1>1, CallStays
<1>7. todo[c] = Known(c, call.rids) /\ call.op = "supersede" /\ call.rids \subseteq Rid
  BY <1>1, <1>2, LoopOf DEF IInv, TodoOK
<1>8. \A d \in Table : \A p \in Copies(d) : p.nth = idmap[d][p.rid]
  BY <1>1 DEF IInv, MapOK, Dropped
<1>9. RequestsOK'
  <2>1. \A p \in Copies(c) : Id(p) \in req.ids <=> p.rid \in call.rids
    BY <1>3, <1>7, <1>8, KnownCopies
  <2>2. \A x : x = req => RequestOK(c, x)'
    BY <1>1, <1>3, <1>4, <1>7, <2>1 DEF RequestOK
  <2>3. ASSUME NEW d \in Table, NEW x \in Pending(d)
        PROVE  RequestOK(d, x)'
    <3>1. x.kind = "upsert"
      BY <1>1, OnlyUpserts
    <3>2. RequestOK(d, x)
      BY DEF IInv
    <3>3. QED BY <3>1, <3>2 DEF RequestOK
  <2>4. QED BY <1>4, <2>2, <2>3 DEF RequestsOK
<1>10. \A d \in Table : Unsent(d)' = {}
  BY <1>1 DEF Unsent
<1>11. MapOK'
  BY <1>1, <1>4, <1>8, <1>10 DEF MapOK
<1>12. \A d \in Table, r \in Rid : CopiesOf(d, r)' = CopiesOf(d, r) /\ UnsentOf(d, r)' = {}
  BY <1>4, <1>10 DEF CopiesOf, UnsentOf
<1>13. ASSUME NEW d \in Table, Done(d)'
       PROVE  Done(d)
  <2>1. d # c /\ todo[d] = {}
    BY <1>4, <1>5, <1>13 DEF Done, Settled
  <2>2. QED BY <1>1, <2>1 DEF Done, Ready
<1>14. Inserting(new)'
  BY <1>1, <1>2, <1>12, LoopOf DEF Inserting
<1>15. Closing(rid)'
  <2>1. \A d \in Table : ClosedIn(d, rid)' <=> ClosedIn(d, rid)
    BY <1>1, <1>2, <1>12 DEF ClosedIn
  <2>2. \A d \in Table : Done(d)' => ClosedIn(d, rid)'
    BY <1>1, <1>2, <1>13, <2>1 DEF Closing
  <2>3. (\E d \in Table, s \in DOMAIN call.recs : CopiesOf(d, s)' # {})
        => \A d \in Table : ClosedIn(d, rid)'
    BY <1>2, <1>12, <2>1 DEF Closing
  <2>4. /\ \A d \in Table : \A p \in CopiesOf(d, rid)' :
             Says(p, acked[rid]) \/ Says(p, Closed(acked[rid], call.at))
        /\ \A e \in EpochsFor(acked[rid]) : CopiesOf(e, rid)' # {}
    BY <1>2, <1>12, TablesOfInterval, Tables DEF Closing
  <2>5. acked[rid] # Absent
    BY <1>2 DEF Closing
  <2>6. QED BY <1>1, <2>2, <2>3, <2>4, <2>5 DEF Closing
<1>16. ASSUME NEW r \in Rid
       PROVE  RowOK(r)'
  <2>1. CASE r \in {rid, new}
    BY <1>1, <1>2, <1>7, <1>14, <1>15, <2>1 DEF RowOK
  <2>2. CASE r \notin {rid, new}
    BY <1>1, <1>2, <1>12, <2>2, OtherRow
  <2>3. QED BY <2>1, <2>2
<1>17. WaitOK'
  <2>1. \A d \in Table : \A x \in Pending(d)' : x.kind = "upsert" \/ d = awaits'
    BY <1>1, <1>4, OnlyUpserts
  <2>2. QED BY <1>1, <1>3, <1>4, <2>1 DEF WaitOK
<1>18. TodoOK'
  <2>1. \A d \in Table : Known(d, call.rids)' = Known(d, call.rids)
    BY <1>1 DEF Known
  <2>2. \A d \in Table : todo'[d] \in {{}, Known(d, call.rids)'}
    BY <1>1, <1>5, <2>1 DEF IInv, TodoOK
  <2>3. QED BY <1>1, <1>10, <2>2 DEF TodoOK, OneEach
<1>19. QED BY <1>6, <1>9, <1>11, <1>16, <1>17, <1>18 DEF InFlightOK

\* When every collection has closed the old version, the map drops it from cur.
LEMMA PopStep ==
  ASSUME IInv, PopEntry
  PROVE  InFlightOK'
<1>1. /\ pc = "close" /\ pc' = "uncur" /\ Ready /\ \A c \in Table : todo[c] = {}
      /\ idmap' = [idmap EXCEPT ![Cur] = [r \in Rid |-> IF r \in call.rids THEN 0 ELSE @[r]]]
      /\ todo' = [todo EXCEPT ![Cur] = Known(Cur, call.rids)]
      /\ UNCHANGED <<points, queue, counter, call, awaits, acked>>
  BY DEF PopEntry
<1>2. PICK rid \in Rid, new \in Rid :
        /\ rid # new /\ call.rids = {rid} /\ DOMAIN call.recs = {new}
        /\ acked[rid] \in Interval /\ call.at \in Instant
        /\ Closing(rid) /\ Inserting(new)
  BY <1>1, LoopOf, SupersedeInHand
<1>3. call.op = "supersede" /\ call.rids \subseteq Rid /\ Cur \in Table
  BY <1>1, <1>2, LoopOf, Tables
<1>4. /\ \A d \in Table : Pending(d)' = Pending(d) /\ Copies(d)' = Copies(d)
      /\ \A d \in Table : Unsent(d)' = {} /\ Unsent(d) = {}
  BY <1>1, SameServer DEF Unsent
<1>5. /\ todo'[Cur] = Known(Cur, call.rids)
      /\ \A d \in Table : d # Cur => todo'[d] = {}
  BY <1>1, <1>3 DEF IInv, TypeOK
<1>6. \A d \in Table : \A p \in Copies(d) : p.nth = idmap[d][p.rid]
  BY <1>1 DEF IInv, MapOK, Dropped
<1>7. \A d \in Table : \A x \in Pending(d) : x.kind = "upsert" /\ OneEach(x.new)
  <2>1. \A d \in Table : \A x \in Pending(d) : x.kind = "upsert" /\ RequestOK(d, x)
    BY <1>1, OnlyUpserts DEF IInv
  <2>2. QED BY <2>1 DEF RequestOK
<1>8. HistoryOK' /\ CallOK'
  BY <1>1, CallStays
<1>9. RequestsOK'
  BY <1>4, <1>7 DEF RequestsOK, RequestOK
<1>10. \A d \in Table, r \in Rid : CopiesOf(d, r)' = CopiesOf(d, r) /\ UnsentOf(d, r)' = {}
  BY <1>4 DEF CopiesOf, UnsentOf
<1>11. \A d \in Table : ClosedIn(d, rid)
  <2>1. \A d \in Table : Done(d)
    BY <1>1 DEF Done, Ready
  <2>2. QED BY <1>1, <1>2, <2>1 DEF Closing
<1>12. MapOK'
  <2>1. idmap \in [Table -> [Rid -> 0 .. counter]]
    BY DEF IInv, TypeOK
  <2>2. \A d \in Table, r \in Rid : idmap'[d][r] = idmap[d][r] \/ (d = Cur /\ r \in call.rids)
    BY <1>1, <2>1
  <2>3. \A d \in Table : \A p \in Copies(d) : p.rid \in Rid
    BY KnownCopies
  <2>4. \A d \in Table : \A p \in CopiesOf(d, rid) : p.until = call.at
    BY <1>2, <1>11, ClosedInterval DEF ClosedIn, Says, Closed
  <2>5. ASSUME NEW d \in Table, NEW p \in Copies(d)
        PROVE  p.nth = idmap'[d][p.rid] \/ (Dropped(d, p.rid)' /\ p.until = call'.at)
    <3>1. CASE p.nth # idmap'[d][p.rid]
      <4>1. d = Cur /\ p.rid \in call.rids
        BY <1>6, <2>2, <2>3, <3>1
      <4>2. p.until = call.at
        BY <1>2, <2>4, <4>1 DEF CopiesOf
      <4>3. QED BY <1>1, <1>3, <4>1, <4>2 DEF Dropped
    <3>2. QED BY <3>1
  <2>6. QED BY <1>4, <2>5 DEF MapOK
<1>13. Done(Cur)' => CopiesOf(Cur, rid)' = {}
  <2>1. Known(Cur, call.rids) = {} => CopiesOf(Cur, rid) = {}
    BY <1>2, <1>3, <1>6, KnownCopies DEF CopiesOf
  <2>2. QED BY <1>3, <1>5, <1>10, <2>1 DEF Done
<1>14. Inserting(new)'
  BY <1>1, <1>2, <1>10 DEF Inserting
<1>15. Closing(rid)'
  BY <1>1, <1>2, <1>10, <1>11, <1>13, TablesOfInterval, Tables DEF Closing, ClosedIn
<1>16. ASSUME NEW r \in Rid
       PROVE  RowOK(r)'
  <2>1. CASE r \in {rid, new}
    BY <1>1, <1>2, <1>3, <1>14, <1>15, <2>1 DEF RowOK
  <2>2. CASE r \notin {rid, new}
    BY <1>1, <1>2, <1>10, <2>2, OtherRow
  <2>3. QED BY <2>1, <2>2
<1>17. WaitOK'
  BY <1>1, <1>4, <1>7 DEF WaitOK, Ready, Settled
<1>18. TodoOK'
  <2>1. \A p \in Copies(Cur)' : Id(p) \in todo'[Cur] <=> p.rid \in call'.rids
    BY <1>1, <1>3, <1>4, <1>5, <1>6, KnownCopies
  <2>2. QED BY <1>1, <1>4, <1>5, <2>1 DEF TodoOK, OneEach
<1>19. QED BY <1>8, <1>9, <1>12, <1>16, <1>17, <1>18 DEF InFlightOK

\* Its point there goes with the request that follows.
LEMMA UncurStep ==
  ASSUME IInv, UncurStmt
  PROVE  InFlightOK'
<1> DEFINE req == DeletePoints(todo[Cur])
<1>1. /\ pc = "uncur" /\ Ready /\ todo[Cur] # {} /\ Request(Cur, req, TRUE)
      /\ todo' = [todo EXCEPT ![Cur] = {}]
      /\ UNCHANGED <<idmap, counter, pc, call, acked>>
  BY DEF UncurStmt
<1>2. PICK rid \in Rid, new \in Rid :
        /\ rid # new /\ call.rids = {rid} /\ DOMAIN call.recs = {new}
        /\ Closing(rid) /\ Inserting(new)
  BY <1>1, LoopOf, SupersedeInHand
<1>3. call.op = "supersede" /\ Cur \in Table
  BY <1>1, LoopOf, Tables
<1>4. /\ req.kind = "delete" /\ req.new = {} /\ req.ids = todo[Cur]
      /\ req \in Requests
  BY <1>1, <1>3, RequestTypes DEF DeletePoints
<1> HIDE DEF req
<1>5. /\ queue'[Cur] # <<>> /\ awaits' = Cur
      /\ LastSent(Cur)' = req /\ Pending(Cur)' = Pending(Cur) \cup {req}
      /\ \A d \in Table : Copies(d)' = Copies(d)
      /\ \A d \in Table : d # Cur => queue'[d] = queue[d] /\ Pending(d)' = Pending(d)
  <2>1. ServerOK
    BY DEF IInv, ServerOK
  <2>2. QED BY <1>1, <1>3, <1>4, <2>1, SentCopies
<1>6. /\ \A d \in Table : todo'[d] = {}
      /\ \A d \in Table : Unsent(d)' = {} /\ Unsent(d) = {}
  <2>1. DOMAIN todo = Table /\ \A d \in Table : d # Cur => todo[d] = {}
    BY <1>1 DEF IInv, TypeOK, TodoOK
  <2>2. QED BY <1>1, <2>1 DEF Unsent
<1>7. HistoryOK' /\ CallOK'
  BY <1>1, CallStays
<1>8. \A d \in Table : \A x \in Pending(d) : x.kind = "upsert" /\ OneEach(x.new)
  <2>1. \A d \in Table : \A x \in Pending(d) : x.kind = "upsert" /\ RequestOK(d, x)
    BY <1>1, OnlyUpserts DEF IInv
  <2>2. QED BY <2>1 DEF RequestOK
<1>9. RequestsOK'
  <2>1. \A p \in Copies(Cur) : Id(p) \in req.ids <=> p.rid \in call.rids
    BY <1>1, <1>4 DEF IInv, TodoOK
  <2>2. \A x : x = req => RequestOK(Cur, x)'
    BY <1>1, <1>3, <1>4, <1>5, <2>1 DEF RequestOK
  <2>3. \A d \in Table : \A x \in Pending(d) : RequestOK(d, x)'
    BY <1>8 DEF RequestOK
  <2>4. QED BY <1>5, <2>2, <2>3 DEF RequestsOK
<1>10. MapOK'
  BY <1>1, <1>5, <1>6 DEF IInv, MapOK, Dropped
<1>11. \A d \in Table, r \in Rid : CopiesOf(d, r)' = CopiesOf(d, r) /\ UnsentOf(d, r)' = {}
  BY <1>5, <1>6 DEF CopiesOf, UnsentOf
<1>12. \A d \in Table : ClosedIn(d, rid)
  BY <1>1, <1>2 DEF Closing
<1>13. ~Done(Cur)'
  BY <1>3, <1>5 DEF Done, Settled
<1>14. Inserting(new)'
  BY <1>1, <1>2, <1>11 DEF Inserting
<1>15. Closing(rid)'
  BY <1>1, <1>2, <1>11, <1>12, <1>13, TablesOfInterval, Tables DEF Closing, ClosedIn
<1>16. ASSUME NEW r \in Rid
       PROVE  RowOK(r)'
  <2>1. CASE r \in {rid, new}
    BY <1>1, <1>2, <1>3, <1>14, <1>15, <2>1 DEF RowOK
  <2>2. CASE r \notin {rid, new}
    BY <1>1, <1>2, <1>11, <2>2, OtherRow
  <2>3. QED BY <2>1, <2>2
<1>17. WaitOK'
  <2>1. \A d \in Table : \A x \in Pending(d)' : x.kind = "upsert" \/ d = awaits'
    BY <1>5, <1>8
  <2>2. LastSent(awaits)' = req
    BY <1>5 DEF LastSent
  <2>3. QED BY <1>1, <1>4, <1>5, <2>1, <2>2 DEF WaitOK
<1>18. TodoOK'
  BY <1>1, <1>3, <1>6 DEF TodoOK, OneEach
<1>19. QED BY <1>7, <1>9, <1>10, <1>16, <1>17, <1>18 DEF InFlightOK

\* The successor is written when every copy of the old version is closed, and
\* cur has none of it.
LEMMA SuccessorStep ==
  ASSUME IInv, Successor
  PROVE  InFlightOK'
<1>1. /\ pc = "uncur" /\ Ready /\ todo[Cur] = {} /\ StartInserts(call.recs)
      /\ UNCHANGED <<points, queue, call, awaits, acked>>
  BY DEF Successor
<1>2. PICK rid \in Rid, new \in Rid :
        /\ rid # new /\ call.rids = {rid} /\ DOMAIN call.recs = {new}
        /\ Closing(rid) /\ Inserting(new)
  BY <1>1, LoopOf, SupersedeInHand
<1>3. /\ pc' = "insert" /\ call.op = "supersede"
      /\ \A c \in Table, r \in Rid :
           idmap'[c][r] = IF r \in PlacedIn(c, call.recs) THEN counter' ELSE idmap[c][r]
      /\ \A c \in Table :
           /\ OneEach(todo'[c])
           /\ \A p \in todo'[c] : /\ p.rid \in PlacedIn(c, call.recs) /\ p.nth = counter'
                                  /\ Says(p, call.recs[p.rid])
           /\ \A r \in PlacedIn(c, call.recs) : \E p \in todo'[c] : p.rid = r
  <2>1. TypeOK /\ IsBatch(call.recs)
    BY DEF IInv, TypeOK
  <2>2. QED BY <1>1, <2>1, StartType, LoopOf
<1>4. \A c \in Table : Pending(c)' = Pending(c) /\ Copies(c)' = Copies(c) /\ Unsent(c)' = todo'[c]
  BY <1>1, <1>3, SameServer DEF Unsent
<1>5. \A c \in Table : \A x \in Pending(c) : x.kind = "upsert" /\ OneEach(x.new)
  <2>1. \A c \in Table : \A x \in Pending(c) : x.kind = "upsert" /\ RequestOK(c, x)
    BY <1>1, OnlyUpserts DEF IInv
  <2>2. QED BY <2>1 DEF RequestOK
<1>6. /\ \A c \in Table, r \in Rid : CopiesOf(c, r)' = CopiesOf(c, r)
      /\ \A c \in Table, r \in Rid : UnsentOf(c, r)' = {p \in todo'[c] : p.rid = r}
  BY <1>4 DEF CopiesOf, UnsentOf
<1>7. /\ acked[new] = Absent /\ \A c \in Table : CopiesOf(c, new) = {}
      /\ \A c \in Table : ClosedIn(c, rid)
  BY <1>1, <1>2 DEF Inserting, Closing
<1>8. CopiesOf(Cur, rid) = {}
  <2>1. Done(Cur)
    BY <1>1, Tables DEF Done, Ready
  <2>2. QED BY <1>1, <1>2, <2>1 DEF Closing
<1>9. \A c \in Table, r \in Rid :
        r \in PlacedIn(c, call.recs) <=> r = new /\ c \in TablesOf(call.recs[new])
  BY <1>2 DEF PlacedIn
<1>10. HistoryOK' /\ CallOK'
  BY <1>1, <1>3, CallStays
<1>11. RequestsOK'
  BY <1>4, <1>5 DEF RequestsOK, RequestOK
<1>12. ASSUME NEW c \in Table, NEW p \in Copies(c)' \cup Unsent(c)'
       PROVE  p.nth = idmap'[c][p.rid]
  <2>1. CASE p \in Copies(c)
    <3>1. p.rid \in Rid /\ p \in CopiesOf(c, p.rid)
      BY <2>1, KnownCopies DEF CopiesOf
    <3>2. p.rid # new /\ ~(c = Cur /\ p.rid = rid)
      BY <1>7, <1>8, <3>1
    <3>3. p.nth = idmap[c][p.rid]
      BY <1>2, <2>1, <3>2 DEF IInv, MapOK, Dropped
    <3>4. QED BY <1>3, <1>9, <3>1, <3>2, <3>3
  <2>2. CASE p \in todo'[c]
    <3>1. p.rid \in PlacedIn(c, call.recs) /\ p.nth = counter'
      BY <1>3, <2>2
    <3>2. p.rid \in Rid
      BY <1>2, <3>1 DEF PlacedIn
    <3>3. QED BY <1>3, <3>1, <3>2
  <2>3. QED BY <1>4, <1>12, <2>1, <2>2
<1>13. Inserting(new)'
  <2>1. \A c \in Table : \A p \in CopiesOf(c, new)' \cup UnsentOf(c, new)' :
          c \in TablesOf(call.recs[new]) /\ Says(p, call.recs[new])
    BY <1>3, <1>6, <1>7, <1>9
  <2>2. ASSUME NEW c \in TablesOf(call.recs[new])
        PROVE  CopiesOf(c, new)' \cup UnsentOf(c, new)' # {}
    <3>1. c \in Table /\ new \in PlacedIn(c, call.recs)
      BY <1>9, <2>2, TablesOfInterval
    <3>2. QED BY <1>3, <1>6, <3>1
  <2>3. QED BY <1>1, <1>3, <1>7, <2>1, <2>2 DEF Inserting
<1>14. Closing(rid)'
  <2>1. \A c \in Table : ClosedIn(c, rid)'
    BY <1>1, <1>2, <1>6, <1>7 DEF ClosedIn
  <2>2. /\ \A c \in Table : \A p \in CopiesOf(c, rid)' :
             Says(p, acked[rid]) \/ Says(p, Closed(acked[rid], call.at))
        /\ \A e \in EpochsFor(acked[rid]) : CopiesOf(e, rid)' # {}
        /\ acked[rid] # Absent
    BY <1>2, <1>6, TablesOfInterval, Tables DEF Closing
  <2>3. CopiesOf(Cur, rid)' = {}
    BY <1>2, <1>6, <1>8, Tables
  <2>4. QED BY <1>1, <1>3, <2>1, <2>2, <2>3 DEF Closing
<1>15. ASSUME NEW r \in Rid
       PROVE  RowOK(r)'
  <2>1. CASE r \in {rid, new}
    BY <1>1, <1>2, <1>3, <1>13, <1>14, <2>1 DEF RowOK
  <2>2. CASE r \notin {rid, new}
    BY <1>1, <1>2, <1>6, <2>2, OtherRow
  <2>3. QED BY <2>1, <2>2
<1>16. WaitOK'
  BY <1>1, <1>3, <1>4, <1>5 DEF WaitOK
<1>17. TodoOK'
  BY <1>1, <1>2, <1>3, <1>4 DEF TodoOK, PlacedIn
<1>18. MapOK'
  BY <1>12 DEF MapOK
<1>19. QED BY <1>10, <1>11, <1>15, <1>16, <1>17, <1>18 DEF InFlightOK

\* A chunk that is sent is no longer to be sent.
LEMMA UpsertStep ==
  ASSUME IInv, NEW c \in Table, NEW chunk \in SUBSET todo[c], UpsertStmt(c, chunk)
  PROVE  InFlightOK'
<1> DEFINE small == ~Many(c)
<1>1. /\ pc = "insert" /\ Request(c, Upsert(chunk), small)
      /\ todo' = [todo EXCEPT ![c] = @ \ chunk]
      /\ UNCHANGED <<idmap, counter, pc, call, acked>>
  BY DEF UpsertStmt
<1> HIDE DEF small
<1>2. /\ Upsert(chunk).kind = "upsert" /\ Upsert(chunk).new = chunk
      /\ Upsert(chunk) \in Requests
  BY <1>1, RequestTypes DEF Upsert
<1>3. /\ Pending(c)' = Pending(c) \cup {Upsert(chunk)} /\ Copies(c)' = Copies(c) \cup chunk
      /\ \A d \in Table : d # c => Pending(d)' = Pending(d) /\ Copies(d)' = Copies(d)
  <2>1. ServerOK
    BY DEF IInv, ServerOK
  <2>2. QED BY <1>1, <1>2, <2>1, SentCopies
<1>4. /\ Unsent(c)' = Unsent(c) \ chunk /\ chunk \subseteq Unsent(c)
      /\ \A d \in Table : d # c => Unsent(d)' = Unsent(d)
  BY <1>1 DEF IInv, TypeOK, Unsent
<1>5. call.op \in {"write", "supersede"}
  BY <1>1, LoopOf
<1>6. \A d \in Table : \A x \in Pending(d) : x.kind = "upsert" /\ OneEach(x.new)
  BY <1>1, <1>5 DEF IInv, RequestOK
<1>7. \A d \in Table : OneEach(Unsent(d)) /\ \A p \in Unsent(d) : p.rid \in DOMAIN call.recs
  BY DEF IInv, TodoOK
<1>8. OneEach(chunk)
  BY <1>4, <1>7 DEF OneEach
<1>9. HistoryOK' /\ CallOK'
  BY <1>1, CallStays
<1>10. \A d \in Table : \A x \in Pending(d)' : x.kind = "upsert" /\ OneEach(x.new)
  BY <1>2, <1>3, <1>6, <1>8
<1>11. RequestsOK'
  BY <1>10 DEF RequestsOK, RequestOK
<1>12. \A d \in Table : Copies(d)' \cup Unsent(d)' = Copies(d) \cup Unsent(d)
  BY <1>3, <1>4
<1>13. MapOK'
  BY <1>1, <1>12 DEF IInv, MapOK, Dropped
<1>14. \A d \in Table, r \in Rid :
         /\ CopiesOf(d, r)' \cup UnsentOf(d, r)' = CopiesOf(d, r) \cup UnsentOf(d, r)
         /\ r \notin DOMAIN call.recs => CopiesOf(d, r)' = CopiesOf(d, r)
  <2>1. \A d \in Table, r \in Rid :
          CopiesOf(d, r)' \cup UnsentOf(d, r)' = CopiesOf(d, r) \cup UnsentOf(d, r)
    BY <1>12 DEF CopiesOf, UnsentOf
  <2>2. \A d \in Table, r \in Rid : r \notin DOMAIN call.recs => UnsentOf(d, r) = {}
    BY <1>7 DEF UnsentOf
  <2>3. \A d \in Table, r \in Rid : r \notin DOMAIN call.recs => UnsentOf(d, r)' = {}
    BY <1>4, <1>7 DEF UnsentOf
  <2>4. QED BY <2>1, <2>2, <2>3
<1>15. ASSUME NEW r \in Rid
       PROVE  RowOK(r)'
  <2>1. RowOK(r)
    BY DEF IInv
  <2>2. CASE r \in DOMAIN call.recs
    <3>1. Inserting(r) /\ TablesOf(call.recs[r]) \subseteq Table
      BY <2>1, <2>2, TablesOfInterval DEF RowOK
    <3>2. Inserting(r)'
      BY <1>1, <1>14, <3>1 DEF Inserting
    <3>3. QED BY <1>1, <2>2, <3>2 DEF RowOK
  <2>3. CASE r \notin DOMAIN call.recs /\ r \in call.rids /\ call.op = "supersede"
    <3>1. Closing(r)
      BY <2>1, <2>3 DEF RowOK
    <3>2. \A d \in Table : CopiesOf(d, r)' = CopiesOf(d, r)
      BY <1>14, <2>3
    <3>3. Closing(r)'
      BY <1>1, <3>1, <3>2, TablesOfInterval, Tables DEF Closing, ClosedIn
    <3>4. QED BY <1>1, <2>3, <3>3 DEF RowOK
  <2>4. CASE r \notin DOMAIN call.recs /\ r \notin call.rids
    BY <1>1, <1>14, <2>4, OtherRow
  <2>5. QED BY <1>5, <2>2, <2>3, <2>4, LoopOf
<1>16. WaitOK'
  BY <1>1, <1>10 DEF WaitOK
<1>17. TodoOK'
  <2>1. \A d \in Table : Unsent(d)' \subseteq Unsent(d)
    BY <1>4
  <2>2. QED BY <1>1, <1>7, <2>1 DEF TodoOK, OneEach
<1>18. QED BY <1>9, <1>11, <1>13, <1>15, <1>16, <1>17 DEF InFlightOK

\* A delete names the points of the rows in one collection.
LEMMA EraseStep ==
  ASSUME IInv, NEW c \in Table, EraseStmt(c)
  PROVE  InFlightOK'
<1> DEFINE req == DeletePoints(todo[c])
<1>1. /\ pc = "erase" /\ Ready /\ todo[c] # {} /\ Request(c, req, TRUE)
      /\ todo' = [todo EXCEPT ![c] = {}]
      /\ UNCHANGED <<idmap, counter, pc, call, acked>>
  BY DEF EraseStmt, IsNext
<1>2. call.op = "delete" /\ call.recs = NoRecs /\ DOMAIN call.recs = {} /\ call.rids \subseteq Rid
  BY <1>1, LoopOf DEF IInv, TypeOK, NoRecs
<1>3. /\ req.kind = "delete" /\ req.new = {} /\ req.ids = todo[c]
      /\ req \in Requests
  BY <1>1, RequestTypes DEF DeletePoints
<1> HIDE DEF req
<1>4. /\ queue'[c] # <<>> /\ awaits' = c
      /\ LastSent(c)' = req /\ Pending(c)' = Pending(c) \cup {req}
      /\ \A d \in Table : Copies(d)' = Copies(d)
      /\ \A d \in Table : d # c => queue'[d] = queue[d] /\ Pending(d)' = Pending(d)
  <2>1. ServerOK
    BY DEF IInv, ServerOK
  <2>2. QED BY <1>1, <1>3, <2>1, SentCopies
<1>5. /\ DOMAIN todo = Table /\ todo'[c] = {} /\ \A d \in Table : d # c => todo'[d] = todo[d]
  BY <1>1 DEF IInv, TypeOK
<1>6. HistoryOK' /\ CallOK'
  BY <1>1, CallStays
<1>7. todo[c] = Known(c, call.rids) /\ \A d \in Table : Known(d, call.rids)' = Known(d, call.rids)
  BY <1>1 DEF IInv, TodoOK, Known
<1>8. \A d \in Table : \A p \in Copies(d) : p.nth = idmap[d][p.rid]
  BY <1>1 DEF IInv, MapOK, Dropped
<1>9. RequestsOK'
  <2>1. \A p \in Copies(c) : Id(p) \in req.ids <=> p.rid \in call.rids
    BY <1>2, <1>3, <1>7, <1>8, KnownCopies
  <2>2. \A x : x = req => RequestOK(c, x)'
    BY <1>1, <1>2, <1>3, <1>4, <1>7, <2>1 DEF RequestOK
  <2>3. ASSUME NEW d \in Table, NEW x \in Pending(d)
        PROVE  RequestOK(d, x)'
    <3>1. RequestOK(d, x)
      BY DEF IInv
    <3>2. QED BY <1>1, <1>4, <1>7, <3>1 DEF RequestOK
  <2>4. QED BY <1>4, <2>2, <2>3 DEF RequestsOK
<1>10. \A d \in Table : Unsent(d)' = {}
  BY <1>1 DEF Unsent
<1>11. MapOK'
  BY <1>1, <1>4, <1>8, <1>10 DEF MapOK
<1>12. \A d \in Table, r \in Rid : CopiesOf(d, r)' = CopiesOf(d, r)
  BY <1>4 DEF CopiesOf
<1>13. ASSUME NEW d \in Table, Done(d)'
       PROVE  Done(d)
  <2>1. d # c /\ todo[d] = {}
    BY <1>4, <1>5, <1>13 DEF Done, Settled
  <2>2. QED BY <1>1, <2>1 DEF Done, Ready
<1>14. ASSUME NEW r \in Rid
       PROVE  RowOK(r)'
  <2>1. CASE r \in call.rids
    <3>1. Erasing(r)
      BY <1>2, <2>1 DEF IInv, RowOK
    <3>2. Erasing(r)'
      BY <1>1, <1>12, <1>13, <3>1, Tables DEF Erasing
    <3>3. QED BY <1>1, <1>2, <2>1, <3>2 DEF RowOK
  <2>2. CASE r \notin call.rids
    BY <1>1, <1>2, <1>12, <2>2, OtherRow
  <2>3. QED BY <2>1, <2>2
<1>15. WaitOK'
  <2>1. ASSUME NEW d \in Table, NEW x \in Pending(d)'
        PROVE  x.kind = "upsert" \/ d = awaits' \/ todo'[d] # {}
    <3>1. CASE d = c
      BY <1>4, <3>1
    <3>2. CASE d # c
      <4>1. x \in Pending(d)
        BY <1>4, <2>1, <3>2
      <4>2. x.kind = "upsert" \/ todo[d] # {}
        BY <1>1, <4>1, OnlyUpserts
      <4>3. QED BY <1>5, <3>2, <4>2
    <3>3. QED BY <3>1, <3>2
  <2>2. LastSent(awaits)' = req
    BY <1>4 DEF LastSent
  <2>3. QED BY <1>1, <1>3, <2>1, <2>2 DEF WaitOK
<1>16. TodoOK'
  <2>1. \A d \in Table : todo'[d] \in {{}, Known(d, call.rids)'}
    BY <1>1, <1>5, <1>7 DEF IInv, TodoOK
  <2>2. QED BY <1>1, <1>10, <2>1 DEF TodoOK, OneEach
<1>17. QED BY <1>6, <1>9, <1>11, <1>14, <1>15, <1>16 DEF InFlightOK

\* The rows a call leaves behind are a history without overlapping versions.
LEMMA OutcomeHistory ==
  ASSUME IInv, NEW r \in Rid, NEW s \in Rid, SameChain(r, s),
         Outcome[r] # Absent, Outcome[s] # Absent
  PROVE  Apart(Outcome[r], Outcome[s])
<1>1. /\ acked \in [Rid -> Interval \cup {Absent}] /\ HistoryOK /\ SameChain(s, r)
      /\ \A x \in Rid : Outcome[x] =
           IF x \in DOMAIN call.recs THEN call.recs[x]
           ELSE IF x \notin call.rids THEN acked[x]
           ELSE IF call.op = "supersede" THEN Closed(acked[x], call.at) ELSE Absent
  BY DEF IInv, TypeOK, SameChain, Outcome
<1>2. CASE call.op = "write"
  <2>1. call.rids = {} /\ FitsHistory(call.recs)
    BY <1>2, LoopOf
  <2>2. \A x, y \in Rid :
          SameChain(x, y) /\ x \in DOMAIN call.recs
          => /\ acked[y] # Absent => Apart(call.recs[x], acked[y])
             /\ y \in DOMAIN call.recs => Apart(call.recs[x], call.recs[y])
    BY <2>1 DEF FitsHistory
  <2>3. QED BY <1>1, <2>1, <2>2 DEF HistoryOK, Apart
<1>3. CASE call.op = "supersede"
  <2>1. PICK rid \in Rid, new \in Rid :
          /\ rid # new /\ ChainOf[rid] = ChainOf[new]
          /\ call.rids = {rid} /\ DOMAIN call.recs = {new}
          /\ call.recs[new] = [from |-> call.at, until |-> TOpen]
          /\ call.at \in Instant
          /\ acked[rid] \in Interval /\ acked[new] = Absent
          /\ IsOpen(acked[rid]) /\ acked[rid].from <= call.at
    BY <1>3, SupersedeInHand
  <2> DEFINE old == acked[rid]
             succ == [from |-> call.at, until |-> TOpen]
  <2>2. /\ Outcome[rid] = Closed(old, call.at)
        /\ Outcome[new] = succ
        /\ \A x \in Rid : x \notin {rid, new} => Outcome[x] = acked[x]
    BY <1>1, <1>3, <2>1
  <2>3. ASSUME NEW x \in Rid, x \notin {rid, new}, ChainOf[x] = ChainOf[rid],
               acked[x] # Absent
        PROVE  /\ Apart(Closed(old, call.at), acked[x])
               /\ Apart(succ, acked[x])
    <3>1. acked[x] \in Interval /\ Apart(old, acked[x]) /\ acked[rid] # Absent
      BY <1>1, <2>1, <2>3, AbsentAssumption DEF HistoryOK, SameChain
    <3>2. QED BY <2>1, <3>1, ClosedStaysApart
  <2>4. Apart(Closed(old, call.at), succ)
    BY <2>1, SuccessorApart
  <2>5. CASE r \in {rid, new} /\ s \in {rid, new}
    BY <2>2, <2>4, <2>5 DEF SameChain, Apart
  <2>6. CASE r \in {rid, new} /\ s \notin {rid, new}
    <3>1. ChainOf[s] = ChainOf[rid] /\ acked[s] # Absent /\ Outcome[s] = acked[s]
      BY <1>1, <2>1, <2>2, <2>6 DEF SameChain
    <3>2. QED BY <2>2, <2>3, <2>6, <3>1
  <2>7. CASE r \notin {rid, new} /\ s \in {rid, new}
    <3>1. ChainOf[r] = ChainOf[rid] /\ acked[r] # Absent /\ Outcome[r] = acked[r]
      BY <1>1, <2>1, <2>2, <2>7 DEF SameChain
    <3>2. QED BY <2>2, <2>3, <2>7, <3>1 DEF Apart
  <2>8. CASE r \notin {rid, new} /\ s \notin {rid, new}
    BY <1>1, <2>2, <2>8 DEF HistoryOK
  <2>9. QED BY <2>5, <2>6, <2>7, <2>8
<1>4. CASE call.op \in {"none", "delete"}
  <2>1. DOMAIN call.recs = {}
    <3>1. call = NoCall \/ call.recs = NoRecs
      BY <1>4 DEF IInv, CallOK
    <3>2. call.recs = NoRecs
      BY <3>1 DEF NoCall
    <3>3. QED BY <3>2 DEF NoRecs
  <2>2. \A x \in Rid : Outcome[x] # Absent => Outcome[x] = acked[x]
    BY <1>1, <1>4, <2>1
  <2>3. QED BY <1>1, <2>2 DEF HistoryOK
<1>5. QED BY <1>2, <1>3, <1>4 DEF IInv, TypeOK

\* When a call returns, every row it was about has become what it wanted, in
\* every collection: the requests it waited for have been applied.
LEMMA ReturnStep ==
  ASSUME IInv, Return
  PROVE  InFlightOK'
<1>1. /\ pc \in {"insert", "erase"} /\ Ready /\ \A c \in Table : todo[c] = {}
      /\ pc' = "idle" /\ call' = NoCall /\ awaits' = None
      /\ acked' = Outcome /\ UNCHANGED <<points, queue, idmap, counter, todo>>
  BY DEF Return
<1>2. \A c \in Table : Pending(c)' = Pending(c) /\ Copies(c)' = Copies(c) /\ Unsent(c)' = {}
  BY <1>1, SameServer DEF Unsent
<1>3. \A c \in Table : \A x \in Pending(c) : x.kind = "upsert" /\ OneEach(x.new)
  <2>1. \A c \in Table : \A x \in Pending(c) : x.kind = "upsert" /\ RequestOK(c, x)
    BY <1>1, OnlyUpserts DEF IInv
  <2>2. QED BY <2>1 DEF RequestOK
<1>4. /\ pc = "insert" => call.op \in {"write", "supersede"}
      /\ pc = "erase" => call.op = "delete" /\ DOMAIN call.recs = {}
      /\ call.op = "write" => call.rids = {}
  BY LoopOf DEF NoRecs
<1>5. \A c \in Table : Done(c)
  BY <1>1 DEF Done, Ready
<1>6. HistoryOK'
  BY <1>1, OutcomeHistory DEF HistoryOK, SameChain
<1>7. CallOK'
  BY <1>1 DEF CallOK
<1>8. RequestsOK'
  BY <1>2, <1>3 DEF RequestsOK, RequestOK
<1>9. MapOK'
  BY <1>1, <1>2 DEF IInv, MapOK, Dropped
<1>10. ASSUME NEW r \in Rid
       PROVE  RowOK(r)'
  <2>1. RowOK(r) /\ IsBatch(call.recs) /\ acked[r] \in Interval \cup {Absent}
    BY DEF IInv, TypeOK
  <2>2. acked'[r] = IF r \in DOMAIN call.recs THEN call.recs[r]
                    ELSE IF r \notin call.rids THEN acked[r]
                    ELSE IF call.op = "supersede" THEN Closed(acked[r], call.at) ELSE Absent
    BY <1>1 DEF Outcome
  <2>3. \A c \in Table : CopiesOf(c, r)' = CopiesOf(c, r)
    BY <1>2 DEF CopiesOf
  <2>4. AsAcked(r)'
    <3>1. CASE r \in DOMAIN call.recs
      <4>1. call.recs[r] # Absent
        BY <2>1, <3>1, AbsentAssumption DEF IsBatch
      <4>2. pc = "insert" /\ Inserting(r)
        BY <1>1, <1>4, <2>1, <3>1 DEF RowOK
      <4>3. \A c \in Table : UnsentOf(c, r) = {}
        BY <1>1 DEF UnsentOf, Unsent
      <4>4. /\ \A c \in Table : \A p \in CopiesOf(c, r) :
                 c \in TablesOf(call.recs[r]) /\ Says(p, call.recs[r])
            /\ \A c \in TablesOf(call.recs[r]) : CopiesOf(c, r) # {}
        BY <4>2, <4>3, TablesOfInterval DEF Inserting
      <4>5. CopiesOf(Cur, r) # {} => IsOpen(call.recs[r])
        BY <4>4, Tables, TablesOfInterval
      <4>6. QED BY <2>2, <2>3, <3>1, <4>1, <4>4, <4>5, Tables, TablesOfInterval DEF AsAcked, Stands
    <3>2. CASE r \notin DOMAIN call.recs /\ r \in call.rids /\ call.op = "supersede"
      <4> DEFINE shut == Closed(acked[r], call.at)
      <4>1. pc = "insert" /\ Closing(r)
        BY <1>1, <1>4, <2>1, <3>2 DEF RowOK
      <4>2. acked[r] \in Interval /\ IsOpen(acked[r]) /\ call.at \in Instant
        BY <3>2, SupersedeInHand
      <4>3. shut # Absent /\ TablesOf(shut) \subseteq EpochsFor(acked[r])
        BY <4>2, ClosedInterval, ClosedStaysPlaced, AbsentAssumption
      <4>4. /\ \A c \in Table : \A p \in CopiesOf(c, r) : Says(p, shut)
            /\ CopiesOf(Cur, r) = {}
            /\ \A e \in EpochsFor(acked[r]) : CopiesOf(e, r) # {}
        BY <4>1 DEF Closing, ClosedIn
      <4>5. acked'[r] = shut
        BY <2>2, <3>2
      <4> HIDE DEF shut
      <4>6. EpochsFor(acked[r]) \subseteq Table
        BY TablesOfInterval, Tables
      <4>7. QED BY <2>3, <4>3, <4>4, <4>5, <4>6, Tables DEF AsAcked, Stands
    <3>3. CASE r \notin DOMAIN call.recs /\ r \in call.rids /\ call.op # "supersede"
      <4>1. pc = "erase" /\ Erasing(r)
        BY <1>1, <1>4, <2>1, <3>3 DEF RowOK
      <4>2. \A c \in Table : CopiesOf(c, r) = {}
        BY <1>5, <4>1 DEF Erasing
      <4>3. QED BY <2>2, <2>3, <3>3, <4>2 DEF AsAcked
    <3>4. CASE r \notin DOMAIN call.recs /\ r \notin call.rids
      <4>1. AsAcked(r) /\ acked'[r] = acked[r]
        BY <2>1, <2>2, <3>4 DEF RowOK
      <4>2. QED BY <2>3, <4>1, Tables, TablesOfInterval DEF AsAcked, Stands
    <3>5. QED BY <3>1, <3>2, <3>3, <3>4
  <2>5. QED BY <1>1, <2>4 DEF RowOK, NoCall, NoRecs
<1>11. WaitOK'
  BY <1>1, <1>2, <1>3, Tables DEF WaitOK
<1>12. TodoOK'
  BY <1>1, <1>2 DEF TodoOK, OneEach
<1>13. QED BY <1>6, <1>7, <1>8, <1>9, <1>10, <1>11, <1>12 DEF InFlightOK

\* What a call that raises has sent is as it was; it just is not waited for.
LEMMA FailStep ==
  ASSUME IInv, Fail
  PROVE  InFlightOK'
<1>1. /\ pc \in Loops /\ pc # "idle" /\ pc' = "failed" /\ awaits' = None
      /\ todo' = [c \in Table |-> {}]
      /\ UNCHANGED <<points, queue, idmap, counter, call, acked>>
  BY DEF Fail, Loops
<1>2. \A c \in Table : Pending(c)' = Pending(c) /\ Copies(c)' = Copies(c) /\ Unsent(c)' = {}
  BY <1>1, SameServer DEF Unsent
<1>3. \A c \in Table, r \in Rid : CopiesOf(c, r)' = CopiesOf(c, r) /\ UnsentOf(c, r)' = {}
  BY <1>2 DEF CopiesOf, UnsentOf
<1>4. HistoryOK' /\ CallOK'
  BY <1>1, CallStays
<1>5. RequestsOK'
  <2>1. \A c \in Table : Known(c, call.rids)' = Known(c, call.rids)
    BY <1>1 DEF Known
  <2>2. \A c \in Table : \A x \in Pending(c) : RequestOK(c, x)
    BY DEF IInv
  <2>3. QED BY <1>1, <1>2, <2>1, <2>2 DEF RequestsOK, RequestOK
<1>6. MapOK'
  BY <1>1, <1>2 DEF IInv, MapOK, Dropped
<1>7. ASSUME NEW r \in Rid
      PROVE  RowOK(r)'
  <2>1. RowOK(r)
    BY DEF IInv
  <2>2. CASE r \in DOMAIN call.recs
    <3>1. Inserting(r)
      BY <2>1, <2>2 DEF RowOK
    <3>2. Inserting(r)'
      BY <1>1, <1>3, <3>1 DEF Inserting
    <3>3. QED BY <1>1, <2>2, <3>2 DEF RowOK
  <2>3. CASE r \notin DOMAIN call.recs /\ r \in call.rids /\ call.op = "supersede"
    <3>1. Closing(r) /\ DOMAIN call.recs \subseteq Rid
      BY <2>1, <2>3 DEF RowOK, IInv, TypeOK, IsBatch
    <3>2. /\ acked[r] # Absent
          /\ \A c \in Table : \A p \in CopiesOf(c, r)' :
               Says(p, acked[r]) \/ Says(p, Closed(acked[r], call.at))
          /\ \A e \in EpochsFor(acked[r]) : CopiesOf(e, r)' # {}
      BY <1>3, <3>1, TablesOfInterval, Tables DEF Closing
    <3>3. ASSUME NEW c \in Table, NEW s \in DOMAIN call.recs, CopiesOf(c, s)' # {}
          PROVE  \A d \in Table : ClosedIn(d, r)'
      <4>1. CopiesOf(c, s) # {}
        BY <1>3, <3>1, <3>3
      <4>2. \A d \in Table : ClosedIn(d, r)
        BY <3>1, <4>1 DEF Closing
      <4>3. QED BY <1>1, <1>3, <4>2 DEF ClosedIn
    <3>4. Closing(r)'
      BY <1>1, <3>2, <3>3 DEF Closing
    <3>5. QED BY <1>1, <2>3, <3>4 DEF RowOK
  <2>4. CASE r \notin DOMAIN call.recs /\ r \in call.rids /\ call.op # "supersede"
    <3>1. Erasing(r)
      BY <2>1, <2>4 DEF RowOK
    <3>2. Erasing(r)'
      BY <1>1, <1>3, <3>1, Tables DEF Erasing
    <3>3. QED BY <1>1, <2>4, <3>2 DEF RowOK
  <2>5. CASE r \notin DOMAIN call.recs /\ r \notin call.rids
    BY <1>1, <1>3, <2>5, OtherRow
  <2>6. QED BY <2>2, <2>3, <2>4, <2>5
<1>8. WaitOK'
  BY <1>1, Tables DEF WaitOK
<1>9. TodoOK'
  BY <1>1, <1>2 DEF TodoOK, OneEach
<1>10. QED BY <1>4, <1>5, <1>6, <1>7, <1>8, <1>9 DEF InFlightOK

\* A delete that is made again starts from what the failed one left.
LEMMA RetryStep ==
  ASSUME IInv, Retried \subseteq {"delete"}, Retry
  PROVE  InFlightOK'
<1>1. /\ pc = "failed" /\ call.op = "delete" /\ StartLoop("erase", call.rids)
      /\ UNCHANGED <<points, queue, call, awaits, acked>>
  BY DEF Retry, Begin
<1>2. /\ pc' = "erase" /\ UNCHANGED <<idmap, counter>>
      /\ \A c \in Table : todo'[c] = Known(c, call.rids)
      /\ \A c \in Table : Known(c, call.rids)' = Known(c, call.rids)
  BY <1>1 DEF StartLoop, Known
<1>3. \A c \in Table : Pending(c)' = Pending(c) /\ Copies(c)' = Copies(c) /\ Unsent(c)' = {}
  BY <1>1, <1>2, SameServer DEF Unsent
<1>4. call.recs = NoRecs /\ DOMAIN call.recs = {} /\ call.rids \subseteq Rid
  BY <1>1, LoopOf DEF IInv, TypeOK, NoRecs
<1>5. \A c \in Table, r \in Rid : CopiesOf(c, r)' = CopiesOf(c, r)
  BY <1>3 DEF CopiesOf
<1>6. HistoryOK' /\ CallOK'
  BY <1>1, <1>2, CallStays
<1>7. \A c \in Table : \A x \in Pending(c) : RequestOK(c, x)
  BY DEF IInv
<1>8. RequestsOK'
  BY <1>1, <1>2, <1>3, <1>7 DEF RequestsOK, RequestOK
<1>9. \A c \in Table : \A p \in Copies(c) : p.nth = idmap[c][p.rid]
  BY <1>1 DEF IInv, MapOK, Dropped
<1>10. MapOK'
  BY <1>2, <1>3, <1>9 DEF MapOK
<1>11. ASSUME NEW r \in Rid
       PROVE  RowOK(r)'
  <2>1. CASE r \in call.rids
    <3>1. Erasing(r)
      BY <1>1, <1>4, <2>1 DEF IInv, RowOK
    <3>2. ASSUME NEW c \in Table, Done(c)'
          PROVE  CopiesOf(c, r)' = {}
      <4>1. Known(c, call.rids) = {}
        BY <1>2, <3>2 DEF Done
      <4>2. QED BY <1>3, <1>4, <1>9, <2>1, <4>1, KnownCopies DEF CopiesOf
    <3>3. Erasing(r)'
      BY <1>1, <1>5, <3>1, <3>2, Tables DEF Erasing
    <3>4. QED BY <1>1, <1>4, <2>1, <3>3 DEF RowOK
  <2>2. CASE r \notin call.rids
    BY <1>1, <1>4, <1>5, <2>2, OtherRow
  <2>3. QED BY <2>1, <2>2
<1>12. WaitOK'
  <2>1. awaits' = None
    BY <1>1 DEF IInv, WaitOK
  <2>2. ASSUME NEW c \in Table, NEW x \in Pending(c)', x.kind # "upsert"
        PROVE  todo'[c] # {}
    BY <1>1, <1>2, <1>3, <1>7, <2>2 DEF RequestOK
  <2>3. QED BY <1>2, <2>1, <2>2, Tables DEF WaitOK
<1>13. TodoOK'
  BY <1>2, <1>3 DEF TodoOK, OneEach
<1>14. QED BY <1>6, <1>8, <1>10, <1>11, <1>12, <1>13 DEF InFlightOK

\* Empty collections with no call in progress satisfy the invariant.
LEMMA EmptyOK ==
  ASSUME points = [c \in Table |-> {}], queue = [c \in Table |-> <<>>],
         pc = "idle", call = NoCall, todo = [c \in Table |-> {}], awaits = None, acked = NoRows
  PROVE  InFlightOK
<1>1. \A c \in Table : Pending(c) = {} /\ Copies(c) = {} /\ Unsent(c) = {}
  <2>1. \A c \in Table : Settled(c) /\ points[c] = {}
    BY DEF Settled
  <2>2. QED BY <2>1, NothingPending DEF Unsent
<1>2. \A r \in Rid : acked[r] = Absent
  BY DEF NoRows
<1>3. HistoryOK
  BY <1>2 DEF HistoryOK
<1>4. \A r \in Rid : RowOK(r)
  BY <1>1, <1>2 DEF RowOK, AsAcked, CopiesOf, NoCall, NoRecs
<1>5. CallOK /\ RequestsOK /\ MapOK
  BY <1>1 DEF CallOK, RequestsOK, MapOK
<1>6. WaitOK /\ TodoOK
  BY <1>1, Tables DEF WaitOK, TodoOK, OneEach
<1>7. QED BY <1>3, <1>4, <1>5, <1>6 DEF InFlightOK

LEMMA EmptyAgain ==
  (/\ points = [c \in Table |-> {}] /\ queue = [c \in Table |-> <<>>]
   /\ pc = "idle" /\ call = NoCall /\ todo = [c \in Table |-> {}] /\ awaits = None
   /\ acked = NoRows)
  => InFlightOK
  BY EmptyOK

LEMMA ReconstructStep ==
  ASSUME Reconstruct
  PROVE  InFlightOK'
<1>1. (/\ points = [c \in Table |-> {}] /\ queue = [c \in Table |-> <<>>]
       /\ pc = "idle" /\ call = NoCall /\ todo = [c \in Table |-> {}] /\ awaits = None
       /\ acked = NoRows)'
  BY DEF Reconstruct, Recreate, NoCall, NoRecs, NoRows
<1>2. QED BY <1>1, EmptyAgain, PTL

\* Applying a request brings the copies of a row to what the call wants them
\* to be, or leaves what they say as it was.
LEMMA ServerStep ==
  ASSUME IInv, NEW c \in Table, ServerApplies(c)
  PROVE  InFlightOK'
<1>1. UNCHANGED <<idmap, counter, pc, call, todo, awaits, acked>>
  BY DEF ServerApplies, client
<1>2. /\ ServerOK' /\ queue[c] # <<>>
      /\ Pending(c)' \subseteq Pending(c)
      /\ \A p \in Copies(c)' :
           \/ p \in Copies(c)
           \/ /\ call.op = "supersede" /\ p.rid \in call.rids /\ p.until = call.at
              /\ \E q \in Copies(c) : q.rid = p.rid /\ q.nth = p.nth /\ q.from = p.from
      /\ \A q \in Copies(c) :
           \/ \E p \in Copies(c)' : p.rid = q.rid
           \/ call.op = "delete" /\ q.rid \in call.rids
           \/ Dropped(c, q.rid)
      /\ queue'[c] = <<>> /\ LastSent(c).kind = "set_payload" =>
           \A p \in Copies(c)' : p.rid \in call.rids => p.until = call.at
      /\ queue'[c] = <<>> /\ LastSent(c).kind = "delete" =>
           \A p \in Copies(c)' : p.rid \notin call.rids
      /\ queue'[c] # <<>> => LastSent(c)' = LastSent(c)
      /\ \A d \in Table : d # c =>
           /\ queue'[d] = queue[d] /\ Pending(d)' = Pending(d) /\ Copies(d)' = Copies(d)
  BY AppliedCopies
<1>3. HistoryOK' /\ CallOK'
  BY <1>1, CallStays
<1>4. \A d \in Table : Known(d, call.rids)' = Known(d, call.rids) /\ Unsent(d)' = Unsent(d)
  BY <1>1 DEF Known, Unsent
<1>5. RequestsOK'
  <2>1. ASSUME NEW d \in Table, NEW x \in Pending(d)'
        PROVE  RequestOK(d, x)'
    <3>1. RequestOK(d, x) /\ x \in Pending(d)
      BY <1>2, <2>1 DEF IInv
    <3>2. \A p \in Copies(d)' : \E q \in Copies(d) : Id(p) = Id(q) /\ p.rid = q.rid
      BY <1>2 DEF Id
    <3>3. (\A p \in Copies(d) : Id(p) \in x.ids <=> p.rid \in call.rids)
          => \A p \in Copies(d)' : Id(p) \in x.ids <=> p.rid \in call.rids
      BY <3>2
    <3>4. QED BY <1>1, <1>4, <3>1, <3>3 DEF RequestOK
  <2>2. QED BY <2>1 DEF RequestsOK
<1>6. MapOK'
  <2>1. \A d \in Table : \A p \in Copies(d) \cup Unsent(d) :
          p.nth = idmap[d][p.rid] \/ (Dropped(d, p.rid) /\ p.until = call.at)
    BY DEF IInv, MapOK
  <2>2. \A d \in Table : \A p \in Copies(d)' :
          p.nth = idmap[d][p.rid] \/ (Dropped(d, p.rid) /\ p.until = call.at)
    BY <1>2, <2>1
  <2>3. QED BY <1>1, <1>4, <2>1, <2>2 DEF MapOK, Dropped
<1>7. \A d \in Table, r \in Rid : UnsentOf(d, r)' = UnsentOf(d, r)
  BY <1>4 DEF UnsentOf
<1>8. ASSUME NEW d \in Table, NEW r \in Rid
      PROVE  /\ \A p \in CopiesOf(d, r)' :
                  \/ p \in CopiesOf(d, r)
                  \/ /\ call.op = "supersede" /\ r \in call.rids /\ p.until = call.at
                     /\ \E q \in CopiesOf(d, r) : q.from = p.from
             /\ CopiesOf(d, r) # {} =>
                  \/ CopiesOf(d, r)' # {}
                  \/ call.op = "delete" /\ r \in call.rids
                  \/ Dropped(d, r)
             /\ CopiesOf(d, r) = {} => CopiesOf(d, r)' = {}
  <2>1. CASE d # c
    BY <1>2, <2>1 DEF CopiesOf
  <2>2. CASE d = c
    BY <1>2, <2>2 DEF CopiesOf
  <2>3. QED BY <2>1, <2>2
<1>9. ASSUME NEW d \in Table, Done(d)', ~Done(d)
      PROVE  d = c /\ c = awaits /\ queue'[c] = <<>> /\ ~Settled(c)
  BY <1>1, <1>2, <1>9 DEF Done, Settled
<1>10. ASSUME NEW r \in Rid
       PROVE  RowOK(r)'
  <2>1. RowOK(r)
    BY DEF IInv
  <2>2. CASE r \in DOMAIN call.recs
    <3>1. Inserting(r)
      BY <2>1, <2>2 DEF RowOK
    <3>2. r \notin call.rids
      <4>1. call.recs # NoRecs
        BY <2>2 DEF NoRecs
      <4>2. call # NoCall
        BY <4>1 DEF NoCall
      <4>3. call.op = "supersede" \/ call.rids = {}
        BY <4>1, <4>2, LoopOf DEF IInv, CallOK
      <4>4. QED BY <2>2, <4>3, SupersedeInHand
    <3>3. \A d \in Table : /\ CopiesOf(d, r)' \subseteq CopiesOf(d, r)
                           /\ CopiesOf(d, r) # {} => CopiesOf(d, r)' # {}
      BY <1>8, <3>2 DEF Dropped
    <3>4. /\ \A d \in Table : CopiesOf(d, r)' \cup UnsentOf(d, r)' \subseteq CopiesOf(d, r) \cup UnsentOf(d, r)
          /\ \A d \in Table : CopiesOf(d, r) \cup UnsentOf(d, r) # {}
                              => CopiesOf(d, r)' \cup UnsentOf(d, r)' # {}
          /\ TablesOf(call.recs[r]) \subseteq Table
      BY <1>7, <3>3, TablesOfInterval
    <3>5. Inserting(r)'
      BY <1>1, <3>1, <3>3, <3>4 DEF Inserting
    <3>6. QED BY <1>1, <2>2, <3>5 DEF RowOK
  <2>3. CASE r \notin DOMAIN call.recs /\ r \in call.rids /\ call.op = "supersede"
    <3>1. Closing(r)
      BY <2>1, <2>3 DEF RowOK
    <3>2. PICK rid \in Rid, new \in Rid :
            /\ rid # new /\ call.rids = {rid} /\ DOMAIN call.recs = {new}
            /\ acked[rid] \in Interval /\ call.at \in Instant
      BY <2>3, SupersedeInHand
    <3>3. Closed(acked[r], call.at).from = acked[r].from /\ Closed(acked[r], call.at).until = call.at
      BY <2>3, <3>2, ClosedInterval
    <3>4. \A d \in Table : \A p \in CopiesOf(d, r)' :
            Says(p, acked[r]) \/ Says(p, Closed(acked[r], call.at))
      <4>1. \A d \in Table : \A q \in CopiesOf(d, r) : q.from = acked[r].from
        BY <3>1, <3>3 DEF Closing, Says
      <4>2. QED BY <1>8, <3>1, <3>3, <4>1 DEF Closing, Says
    <3>5. \A e \in EpochsFor(acked[r]) : CopiesOf(e, r)' # {}
      <4>1. \A e \in EpochsFor(acked[r]) : e \in Table /\ e # Cur /\ CopiesOf(e, r) # {}
        BY <3>1, TablesOfInterval, Tables DEF Closing
      <4>2. QED BY <1>8, <2>3, <4>1 DEF Dropped
    <3>6. ASSUME NEW d \in Table, ClosedIn(d, r)
          PROVE  ClosedIn(d, r)'
      <4>1. \A p \in CopiesOf(d, r)' : Says(p, Closed(acked[r], call.at))
        BY <1>8, <3>3, <3>6 DEF ClosedIn, Says
      <4>2. QED BY <1>1, <4>1 DEF ClosedIn
    <3>7. ASSUME pc = "close", NEW d \in Table, Done(d)'
          PROVE  ClosedIn(d, r)'
      <4>1. CASE Done(d)
        BY <3>1, <3>6, <3>7, <4>1 DEF Closing
      <4>2. CASE ~Done(d)
        <5>1. d = c /\ LastSent(c).kind = "set_payload" /\ queue'[c] = <<>>
          BY <1>9, <3>7, <4>2 DEF IInv, WaitOK
        <5>2. \A p \in CopiesOf(d, r)' : p.until = call.at
          BY <1>2, <2>3, <5>1 DEF CopiesOf
        <5>3. \A p \in CopiesOf(d, r)' : Says(p, Closed(acked[r], call.at))
          BY <3>3, <3>4, <5>2 DEF Says
        <5>4. QED BY <1>1, <5>3 DEF ClosedIn
      <4>3. QED BY <4>1, <4>2
    <3>8. ASSUME \/ pc \in {"uncur", "insert"}
                 \/ \E d \in Table, s \in DOMAIN call.recs : CopiesOf(d, s)' # {}
          PROVE  \A d \in Table : ClosedIn(d, r)'
      <4>1. \/ pc \in {"uncur", "insert"}
            \/ \E d \in Table, s \in DOMAIN call.recs : CopiesOf(d, s) # {}
        BY <1>8, <3>2, <3>8
      <4>2. \A d \in Table : ClosedIn(d, r)
        BY <3>1, <4>1 DEF Closing
      <4>3. QED BY <3>6, <4>2
    <3>9. ASSUME pc = "insert" \/ (pc = "uncur" /\ Done(Cur)')
          PROVE  CopiesOf(Cur, r)' = {}
      <4>1. CASE pc = "insert" \/ Done(Cur)
        BY <1>8, <3>1, <3>9, <4>1, Tables DEF Closing
      <4>2. CASE pc = "uncur" /\ ~Done(Cur)
        <5>1. Cur = c /\ LastSent(c).kind = "delete" /\ queue'[c] = <<>>
          BY <1>9, <3>9, <4>2, Tables DEF IInv, WaitOK
        <5>2. QED BY <1>2, <2>3, <5>1 DEF CopiesOf
      <4>3. QED BY <3>9, <4>1, <4>2
    <3>10. Closing(r)'
      BY <1>1, <3>1, <3>4, <3>5, <3>7, <3>8, <3>9 DEF Closing
    <3>11. QED BY <1>1, <2>3, <3>10 DEF RowOK
  <2>4. CASE r \notin DOMAIN call.recs /\ r \in call.rids /\ call.op # "supersede"
    <3>1. Erasing(r)
      BY <2>1, <2>4 DEF RowOK
    <3>2. \A d \in Table : CopiesOf(d, r)' \subseteq CopiesOf(d, r)
      BY <1>8, <2>4
    <3>3. ASSUME pc = "erase", NEW d \in Table, Done(d)'
          PROVE  CopiesOf(d, r)' = {}
      <4>1. CASE Done(d)
        BY <1>8, <3>1, <3>3, <4>1 DEF Erasing
      <4>2. CASE ~Done(d)
        <5>1. d = c /\ LastSent(c).kind = "delete" /\ queue'[c] = <<>>
          BY <1>9, <3>3, <4>2 DEF IInv, WaitOK
        <5>2. QED BY <1>2, <2>4, <5>1 DEF CopiesOf
      <4>3. QED BY <4>1, <4>2
    <3>4. Erasing(r)'
      BY <1>1, <3>1, <3>2, <3>3, Tables DEF Erasing
    <3>5. QED BY <1>1, <2>4, <3>4 DEF RowOK
  <2>5. CASE r \notin DOMAIN call.recs /\ r \notin call.rids
    <3>1. \A d \in Table : /\ CopiesOf(d, r)' \subseteq CopiesOf(d, r)
                           /\ CopiesOf(d, r) # {} => CopiesOf(d, r)' # {}
      BY <1>8, <2>5 DEF Dropped
    <3>2. QED BY <1>1, <2>5, <3>1, OtherRow
  <2>6. QED BY <2>2, <2>3, <2>4, <2>5
<1>11. WaitOK'
  <2>1. \A d \in Table : Pending(d)' \subseteq Pending(d)
    BY <1>2
  <2>2. ASSUME awaits \in Table, queue'[awaits] # <<>>
        PROVE  ~Settled(awaits) /\ LastSent(awaits)' = LastSent(awaits)
    BY <1>1, <1>2, <2>2 DEF Settled, LastSent
  <2>3. QED BY <1>1, <2>1, <2>2 DEF IInv, WaitOK, Settled
<1>12. TodoOK'
  <2>1. TodoOK
    BY DEF IInv
  <2>2. \A p \in Copies(Cur)' : \E q \in Copies(Cur) : Id(p) = Id(q) /\ p.rid = q.rid
    BY <1>2, Tables DEF Id
  <2>3. pc = "uncur" /\ todo[Cur] # {} =>
          \A p \in Copies(Cur)' : Id(p) \in todo[Cur] <=> p.rid \in call.rids
    BY <2>1, <2>2 DEF TodoOK
  <2>4. QED BY <1>1, <1>4, <2>1, <2>3 DEF TodoOK, OneEach
<1>13. QED BY <1>3, <1>5, <1>6, <1>10, <1>11, <1>12 DEF InFlightOK

LEMMA StutterStep ==
  ASSUME IInv, UNCHANGED vars
  PROVE  InFlightOK'
<1>1. UNCHANGED <<points, queue, idmap, counter, pc, call, todo, awaits, acked>>
  BY DEF vars, client
<1>2. HistoryOK' /\ CallOK'
  BY <1>1, CallStays
<1>3. \A c \in Table :
        /\ Pending(c)' = Pending(c) /\ Copies(c)' = Copies(c) /\ LastSent(c)' = LastSent(c)
        /\ Unsent(c)' = Unsent(c) /\ Known(c, call.rids)' = Known(c, call.rids)
        /\ Done(c)' = Done(c)
  BY <1>1, SameServer DEF Unsent, Known, Done
<1>4. RequestsOK'
  BY <1>1, <1>3 DEF IInv, RequestsOK, RequestOK
<1>5. MapOK'
  BY <1>1, <1>3 DEF IInv, MapOK, Dropped
<1>6. ASSUME NEW r \in Rid
      PROVE  RowOK(r)'
  <2>1. RowOK(r) /\ (r \in DOMAIN call.recs => DOMAIN call.recs \subseteq Rid)
    BY DEF IInv, TypeOK, IsBatch
  <2>2. /\ \A x : \A c \in Table : CopiesOf(c, x)' = CopiesOf(c, x) /\ UnsentOf(c, x)' = UnsentOf(c, x)
        /\ \A c \in Table : ClosedIn(c, r)' = ClosedIn(c, r)
    BY <1>1, <1>3 DEF CopiesOf, UnsentOf, ClosedIn
  <2>3. Inserting(r) => Inserting(r)'
    BY <1>1, <2>2, TablesOfInterval DEF Inserting
  <2>4. ASSUME Closing(r)
        PROVE  Closing(r)'
    <3>1. /\ acked[r] # Absent
          /\ \A c \in Table : \A p \in CopiesOf(c, r)' :
               Says(p, acked[r]) \/ Says(p, Closed(acked[r], call.at))
          /\ \A e \in EpochsFor(acked[r]) : CopiesOf(e, r)' # {}
      BY <2>2, <2>4, TablesOfInterval, Tables DEF Closing
    <3>2. pc = "close" => \A c \in Table : Done(c)' => ClosedIn(c, r)'
      BY <1>3, <2>2, <2>4 DEF Closing
    <3>3. \/ pc \in {"uncur", "insert"}
          \/ \E c \in Table, s \in DOMAIN call.recs : CopiesOf(c, s)' # {}
          => \A c \in Table : ClosedIn(c, r)'
      BY <2>2, <2>4 DEF Closing
    <3>4. pc = "insert" \/ (pc = "uncur" /\ Done(Cur)') => CopiesOf(Cur, r)' = {}
      BY <1>3, <2>2, <2>4, Tables DEF Closing
    <3>5. QED BY <1>1, <3>1, <3>2, <3>3, <3>4 DEF Closing
  <2>5. Erasing(r) => Erasing(r)'
    BY <1>1, <1>3, <2>2, Tables DEF Erasing
  <2>6. AsAcked(r) => AsAcked(r)'
    BY <1>1, <2>2, TablesOfInterval, Tables DEF AsAcked, Stands
  <2>7. QED BY <1>1, <2>1, <2>3, <2>4, <2>5, <2>6 DEF RowOK
<1>7. WaitOK'
  BY <1>1, <1>3 DEF IInv, WaitOK, Settled, LastSent
<1>8. TodoOK'
  <2>1. Copies(Cur)' = Copies(Cur)
    BY <1>3, Tables
  <2>2. QED BY <1>1, <1>3, <2>1 DEF IInv, TodoOK, OneEach
<1>9. QED BY <1>2, <1>4, <1>5, <1>6, <1>7, <1>8 DEF InFlightOK

\* The invariant is inductive, if only deletes are repeated.
LEMMA InvStep ==
  ASSUME IInv, Retried \subseteq {"delete"}, [Next]_vars
  PROVE  IInv'
<1>1. TypesOK'
  BY TypeStep
<1>2. InFlightOK'
  <2>1. CASE UNCHANGED vars
    BY <2>1, StutterStep
  <2>2. CASE Next
    BY <2>2, WriteStep, SupersedeStep, DeleteStep, CloseStep, PopStep, UncurStep,
       SuccessorStep, UpsertStep, EraseStep, ReturnStep, FailStep, RetryStep, ReconstructStep, ServerStep
    DEF Next
  <2>3. QED BY <2>1, <2>2
<1>3. QED BY <1>1, <1>2, InvParts, PTL

LEMMA InitInv == Init => IInv
<1> SUFFICES ASSUME Init
             PROVE  IInv
  OBVIOUS
<1>1. InFlightOK
  BY EmptyOK DEF Init, Empty
<1>2. TypesOK
  <2>1. PointTypes
    BY EmptySeq DEF Init, Empty, PointTypes, ServerOK, OneEach
  <2>2. counter \in 0 .. MaxWrites /\ 0 \in 0 .. counter
    BY ChunkAssumption DEF Init
  <2>3. MapTypes
    BY <2>2 DEF Init, MapTypes
  <2>4. TodoTypes
    BY DEF Init, TodoTypes
  <2>5. CallTypes
    BY ArgumentTypes DEF Init, CallTypes, NoCall, NoRows
  <2>6. QED BY <2>1, <2>3, <2>4, <2>5, TypeParts
<1>3. QED BY <1>1, <1>2, InvParts

-----------------------------------------------------------------------------
(* Theorems.                                                                 *)

\* Writes, supersedes and deletes keep every copy of a row, stored in or on its
\* way to any collection, between what it was and what the call makes of it.
THEOREM Invariance ==
  ASSUME Retried \subseteq {"delete"}
  PROVE  Spec => []IInv
<1>1. IInv /\ [Next]_vars => IInv'
  BY InvStep
<1>2. QED BY <1>1, InitInv, PTL DEF Spec

\* The adapter's and the server's state stay well typed, and no collection has
\* two points with the same id.
THEOREM TypeCorrect ==
  ASSUME Retried \subseteq {"delete"}
  PROVE  Spec => []TypeOK
<1>1. IInv => TypeOK
  BY DEF IInv
<1>2. QED BY <1>1, Invariance, PTL

\* Between calls a point says of its row what the caller knows, and a point of
\* cur is of an open row.
LEMMA StoredAsAcked ==
  ASSUME IInv, pc = "idle", NEW c \in Table, NEW p \in points[c]
  PROVE  /\ p.rid \in Rid /\ acked[p.rid] # Absent /\ Says(p, acked[p.rid])
         /\ c = Cur => IsOpen(acked[p.rid])
         /\ p.nth = idmap[c][p.rid] /\ p.nth # 0
<1>1. p \in Copies(c)
  BY DEF Copies
<1>2. AsAcked(p.rid) /\ p.rid \in Rid /\ p.nth # 0 /\ p.nth = idmap[c][p.rid]
  BY <1>1, AtRest
<1>3. p \in CopiesOf(c, p.rid)
  BY <1>1 DEF CopiesOf
<1>4. QED BY <1>2, <1>3 DEF AsAcked, Stands

\* Between calls a row the caller knows has a copy, stored or on its way, in
\* every collection that the placement rule names; the map has its id.
LEMMA AckedHasCopies ==
  ASSUME IInv, pc = "idle", NEW r \in Rid, acked[r] # Absent, NEW c \in TablesOf(acked[r])
  PROVE  /\ \E p \in Copies(c) : p.rid = r
         /\ Settled(c) => \E p \in points[c] : p.rid = r
         /\ idmap[c][r] # 0
<1>1. c \in Table
  BY TablesOfInterval
<1>2. CopiesOf(c, r) # {}
  BY AtRest DEF AsAcked, Stands
<1>3. PICK p \in Copies(c) : p.rid = r
  BY <1>2 DEF CopiesOf
<1>4. p.nth = idmap[c][r] /\ p.nth # 0
  BY <1>1, <1>3, AtRest
<1>5. QED BY <1>1, <1>3, <1>4, NothingPending

\* Between calls a read shows nothing deleted, closed or never written, however
\* much of what was written is still pending.
LEMMA ReadsNothingStale ==
  ASSUME IInv, pc = "idle"
  PROVE  /\ \A t \in Instant : AnswerAt(t) \subseteq TrueAt(t)
         /\ AnswerNow \subseteq TrueNow
<1>1. ASSUME NEW t \in Instant, NEW r \in AnswerAt(t)
      PROVE  r \in TrueAt(t)
  <2>1. PICK p \in points[Route(t)] : p.rid = r /\ ValidPoint(p, t)
    BY <1>1 DEF AnswerAt
  <2>2. Route(t) \in Table
    BY RoutedTableHoldsValid
  <2>3. r \in Rid /\ acked[r] # Absent /\ Says(p, acked[r])
    BY <2>1, <2>2, StoredAsAcked
  <2>4. QED BY <2>1, <2>3 DEF ValidPoint, ValidAt, Says, TrueAt
<1>2. ASSUME NEW r \in AnswerNow
      PROVE  r \in TrueNow
  <2>1. PICK p \in points[Cur] : p.rid = r
    BY <1>2 DEF AnswerNow
  <2>2. r \in Rid /\ acked[r] # Absent /\ IsOpen(acked[r])
    BY <2>1, Tables, StoredAsAcked
  <2>3. QED BY <2>2 DEF TrueNow
<1>3. QED BY <1>1, <1>2

THEOREM NothingStale ==
  ASSUME Retried \subseteq {"delete"}
  PROVE  Spec => []NothingStaleReadable
<1>1. IInv => NothingStaleReadable
  BY ReadsNothingStale DEF NothingStaleReadable
<1>2. QED BY <1>1, Invariance, PTL

\* Once every collection has reported green, a read routed to one collection
\* returns every row that is true at an instant inside the horizon, and now.
THEOREM SettledIsExact ==
  ASSUME Retried \subseteq {"delete"}
  PROVE  Spec => []SettledReadsExact
<1>1. ASSUME IInv, pc = "idle", AllSettled, NEW t \in Instant, t < Horizon, NEW r \in TrueAt(t)
      PROVE  r \in AnswerAt(t)
  <2>1. r \in Rid /\ acked[r] # Absent /\ ValidAt(acked[r], t)
    BY <1>1 DEF TrueAt
  <2>2. acked[r] \in Interval
    BY <1>1, <2>1 DEF IInv, TypeOK
  <2>3. Route(t) \in TablesOf(acked[r]) /\ Route(t) \in Table
    BY <1>1, <2>1, <2>2, RoutedTableHoldsValid, TablesOfInterval
  <2>4. PICK p \in points[Route(t)] : p.rid = r
    BY <1>1, <2>1, <2>3, AckedHasCopies DEF AllSettled
  <2>5. Says(p, acked[r])
    BY <1>1, <2>3, <2>4, StoredAsAcked
  <2>6. ValidPoint(p, t)
    BY <2>1, <2>5 DEF ValidPoint, ValidAt, Says
  <2>7. QED BY <2>4, <2>6 DEF AnswerAt
<1>2. ASSUME IInv, pc = "idle", AllSettled, NEW r \in TrueNow
      PROVE  r \in AnswerNow
  <2>1. r \in Rid /\ acked[r] # Absent /\ IsOpen(acked[r])
    BY <1>2 DEF TrueNow
  <2>2. Cur \in TablesOf(acked[r]) /\ Cur \in Table
    BY <2>1, Tables, TablesOfInterval
  <2>3. PICK p \in points[Cur] : p.rid = r
    BY <1>2, <2>1, <2>2, AckedHasCopies DEF AllSettled
  <2>4. Says(p, acked[r])
    BY <1>2, <2>2, <2>3, StoredAsAcked
  <2>5. QED BY <2>1, <2>3, <2>4 DEF AnswerNow, IsOpen, Says
<1>3. IInv => SettledReadsExact
  <2>1. SUFFICES ASSUME IInv, pc = "idle", AllSettled
                 PROVE  /\ \A t \in Instant : t < Horizon => AnswerAt(t) = TrueAt(t)
                        /\ AnswerNow = TrueNow
    BY DEF SettledReadsExact
  <2>2. /\ \A t \in Instant : AnswerAt(t) \subseteq TrueAt(t)
        /\ AnswerNow \subseteq TrueNow
    BY <2>1, ReadsNothingStale
  <2>3. \A t \in Instant : t < Horizon => TrueAt(t) \subseteq AnswerAt(t)
    BY <1>1, <2>1
  <2>4. TrueNow \subseteq AnswerNow
    BY <1>2, <2>1
  <2>5. QED BY <2>2, <2>3, <2>4
<1>4. QED BY <1>3, Invariance, PTL

\* In every state, after a call that raised too, no point is out of reach of the
\* map, so delete and supersede of a rid leave no copy of it behind; the one
\* exception is the point of the version that a supersede has taken out of the
\* map of cur, and that one is closed before its entry is popped.
THEOREM PointsReachable ==
  ASSUME Retried \subseteq {"delete"}
  PROVE  Spec => []EveryPointReachable
<1>1. IInv => EveryPointReachable
  BY DEF IInv, MapOK, EveryPointReachable
<1>2. QED BY <1>1, Invariance, PTL

\* In every state the self-report denies no record that a read for now returns,
\* and between calls none that is open.
THEOREM AuditDeniesNothingOpen ==
  ASSUME Retried \subseteq {"delete"}
  PROVE  Spec => []AuditDeniesNoneOpen
<1>1. ASSUME IInv, NEW p \in points[Cur], p.until >= TOpen
      PROVE  AuditPresent(p.rid)
  <2>1. p \in Copies(Cur) /\ Cur \in Table
    BY Tables DEF Copies
  <2>2. p \in Points /\ p.nth # 0
    BY <1>1, <2>1, KnownCopies
  <2>3. p.until = call.at => call.op # "supersede"
    <3>1. call.op = "supersede" => call.at \in Nat /\ TOpen \in Nat /\ call.at < TOpen
      BY <1>1, SupersedeInHand, InstantAssumption
    <3>2. QED BY <1>1, <3>1
  <2>4. p.nth = idmap[Cur][p.rid]
    BY <1>1, <2>1, <2>3 DEF IInv, MapOK, Dropped
  <2>5. QED BY <2>2, <2>4 DEF AuditPresent
<1>2. ASSUME IInv, pc = "idle", NEW r \in TrueNow
      PROVE  AuditPresent(r)
  <2>1. r \in Rid /\ acked[r] # Absent /\ Cur \in TablesOf(acked[r])
    BY <1>2, TablesOfInterval DEF TrueNow
  <2>2. QED BY <1>2, <2>1, AckedHasCopies DEF AuditPresent
<1>3. IInv => AuditDeniesNoneOpen
  BY <1>1, <1>2 DEF AuditDeniesNoneOpen, AnswerNow
<1>4. QED BY <1>3, Invariance, PTL

\* In every state, copies of two versions of one memory carry intervals that
\* are apart, in whichever collections they are.
LEMMA CopiesApart ==
  ASSUME IInv, NEW b \in Table, NEW e \in Table, NEW p \in Copies(b), NEW q \in Copies(e),
         SameChain(p.rid, q.rid)
  PROVE  Apart(p, q)
<1> DEFINE r == p.rid
           s == q.rid
<1>1. r \in Rid /\ s \in Rid /\ p \in CopiesOf(b, r) /\ q \in CopiesOf(e, s)
  BY KnownCopies DEF CopiesOf
<1>2. /\ RowOK(r) /\ RowOK(s) /\ acked \in [Rid -> Interval \cup {Absent}] /\ HistoryOK
      /\ \A x \in Rid : RowOK(x)
  BY <1>1 DEF IInv, TypeOK
<1>3. SameChain(r, s) /\ SameChain(s, r)
  BY DEF SameChain
<1> HIDE DEF r, s
<1>4. ASSUME NEW x, NEW y, Says(p, x), Says(q, y), Apart(x, y) \/ Apart(y, x)
      PROVE  Apart(p, q)
  BY <1>4 DEF Says, Apart
<1>5. CASE call.op = "write"
  <2>1. call.rids = {} /\ FitsHistory(call.recs)
    BY <1>5, LoopOf
  <2>2. \A x, y \in Rid :
          SameChain(x, y) /\ x \in DOMAIN call.recs
          => /\ acked[y] # Absent => Apart(call.recs[x], acked[y])
             /\ y \in DOMAIN call.recs => Apart(call.recs[x], call.recs[y])
    BY <2>1 DEF FitsHistory
  <2>3. /\ r \in DOMAIN call.recs => Says(p, call.recs[r])
        /\ r \notin DOMAIN call.recs => acked[r] # Absent /\ Says(p, acked[r])
        /\ s \in DOMAIN call.recs => Says(q, call.recs[s])
        /\ s \notin DOMAIN call.recs => acked[s] # Absent /\ Says(q, acked[s])
    BY <1>1, <1>2, <1>5, <2>1 DEF RowOK, Inserting, AsAcked, Stands
  <2>4. QED BY <1>1, <1>2, <1>3, <1>4, <2>2, <2>3 DEF HistoryOK
<1>6. CASE call.op = "supersede"
  <2>1. PICK rid \in Rid, new \in Rid :
          /\ rid # new /\ ChainOf[rid] = ChainOf[new]
          /\ call.rids = {rid} /\ DOMAIN call.recs = {new}
          /\ call.recs[new] = [from |-> call.at, until |-> TOpen]
          /\ call.at \in Instant
          /\ acked[rid] \in Interval /\ acked[new] = Absent
          /\ IsOpen(acked[rid]) /\ acked[rid].from <= call.at
          /\ Closing(rid) /\ Inserting(new)
    BY <1>6, SupersedeInHand
  <2> DEFINE old == acked[rid]
             succ == [from |-> call.at, until |-> TOpen]
             shut == Closed(old, call.at)
  <2>2. ASSUME NEW x \in Rid, NEW y \in Rid, SameChain(x, y), NEW c \in Table, NEW d \in Table,
               NEW u \in CopiesOf(c, x), NEW v \in CopiesOf(d, y)
        PROVE  /\ x = rid => Says(u, old) \/ Says(u, shut)
               /\ x = rid /\ y = new => Says(u, shut)
               /\ x = new => Says(u, succ)
               /\ x \notin {rid, new} => acked[x] # Absent /\ Says(u, acked[x])
    <3>1. RowOK(x)
      BY <1>2
    <3>2. x = rid => Says(u, old) \/ Says(u, shut)
      BY <2>1 DEF Closing
    <3>3. x = rid /\ y = new => Says(u, shut)
      BY <2>1 DEF Closing, ClosedIn
    <3>4. x = new => Says(u, succ)
      BY <2>1 DEF Inserting
    <3>5. x \notin {rid, new} => acked[x] # Absent /\ Says(u, acked[x])
      BY <2>1, <3>1 DEF RowOK, AsAcked, Stands
    <3>6. QED BY <3>2, <3>3, <3>4, <3>5
  <2>3. ASSUME NEW x \in Rid, x \notin {rid, new}, ChainOf[x] = ChainOf[rid],
               acked[x] # Absent
        PROVE  /\ Apart(old, acked[x]) /\ Apart(shut, acked[x])
               /\ Apart(succ, acked[x])
    <3>1. acked[x] \in Interval /\ Apart(old, acked[x]) /\ acked[rid] # Absent
      BY <1>2, <2>1, <2>3, AbsentAssumption DEF HistoryOK, SameChain
    <3>2. QED BY <2>1, <3>1, ClosedStaysApart
  <2>4. Apart(shut, succ)
    BY <2>1, SuccessorApart
  <2> HIDE DEF old, succ, shut
  <2>5. CASE r \in {rid, new} /\ s \in {rid, new}
    <3>1. r # s
      BY <1>3 DEF SameChain
    <3>2. CASE r = rid
      BY <1>1, <1>3, <1>4, <2>2, <2>4, <2>5, <3>1, <3>2
    <3>3. CASE r = new
      BY <1>1, <1>3, <1>4, <2>2, <2>4, <2>5, <3>1, <3>3
    <3>4. QED BY <2>5, <3>2, <3>3
  <2>6. CASE r \in {rid, new} /\ s \notin {rid, new}
    <3>1. ChainOf[s] = ChainOf[rid] /\ acked[s] # Absent /\ Says(q, acked[s])
      BY <1>1, <1>3, <2>1, <2>2, <2>6 DEF SameChain
    <3>2. Says(p, old) \/ Says(p, shut) \/ Says(p, succ)
      BY <1>1, <1>3, <2>2, <2>6
    <3>3. QED BY <1>1, <1>4, <2>3, <2>6, <3>1, <3>2
  <2>7. CASE r \notin {rid, new} /\ s \in {rid, new}
    <3>1. ChainOf[r] = ChainOf[rid] /\ acked[r] # Absent /\ Says(p, acked[r])
      BY <1>1, <1>3, <2>1, <2>2, <2>7 DEF SameChain
    <3>2. Says(q, old) \/ Says(q, shut) \/ Says(q, succ)
      BY <1>1, <1>3, <2>2, <2>7
    <3>3. QED BY <1>1, <1>4, <2>3, <2>7, <3>1, <3>2
  <2>8. CASE r \notin {rid, new} /\ s \notin {rid, new}
    <3>1. /\ acked[r] # Absent /\ Says(p, acked[r])
          /\ acked[s] # Absent /\ Says(q, acked[s])
      BY <1>1, <1>3, <2>2, <2>8
    <3>2. Apart(acked[r], acked[s])
      BY <1>1, <1>2, <1>3, <3>1 DEF HistoryOK
    <3>3. QED BY <1>4, <3>1, <3>2
  <2>9. QED BY <2>5, <2>6, <2>7, <2>8
<1>7. CASE call.op \in {"none", "delete"}
  <2>1. DOMAIN call.recs = {}
    <3>1. call = NoCall \/ call.recs = NoRecs
      BY <1>7 DEF IInv, CallOK
    <3>2. call.recs = NoRecs
      BY <3>1 DEF NoCall
    <3>3. QED BY <3>2 DEF NoRecs
  <2>2. /\ acked[r] # Absent /\ Says(p, acked[r])
        /\ acked[s] # Absent /\ Says(q, acked[s])
    BY <1>1, <1>2, <1>7, <2>1 DEF RowOK, Erasing, AsAcked, Stands
  <2>3. Apart(acked[r], acked[s])
    BY <1>1, <1>2, <1>3, <2>2 DEF HistoryOK
  <2>4. QED BY <1>4, <2>2, <2>3
<1>8. QED BY <1>5, <1>6, <1>7 DEF IInv, TypeOK

\* No read ever returns two versions of one memory, whatever requests are still
\* queued and whichever of them raised.
THEOREM NeverTwoVersions ==
  ASSUME Retried \subseteq {"delete"}
  PROVE  Spec => []AtMostOneVersion
<1>1. ASSUME IInv, NEW r \in Rid, NEW s \in Rid, SameChain(r, s),
             NEW c \in Table, NEW p \in points[c], NEW q \in points[c], p.rid = r, q.rid = s
      PROVE  /\ \A t \in Instant : ~(ValidPoint(p, t) /\ ValidPoint(q, t))
             /\ ~(p.until >= TOpen /\ q.until >= TOpen)
  <2>1. p \in Copies(c) /\ q \in Copies(c) /\ Apart(p, q)
    BY <1>1, CopiesApart DEF Copies
  <2>2. p \in Points /\ q \in Points
    BY <1>1, <2>1, KnownCopies
  <2>3. /\ p.from \in Int /\ q.from \in Int /\ p.until \in Int /\ q.until \in Int
        /\ TOpen \in Int /\ p.from < TOpen /\ q.from < TOpen /\ Instant \subseteq Int
    <3>1. /\ p.from \in Instant /\ p.until \in Instant \cup {TOpen}
          /\ q.from \in Instant /\ q.until \in Instant \cup {TOpen}
      BY <2>2 DEF Points
    <3>2. Instant \subseteq Int /\ TOpen \in Int /\ \A t \in Instant : t < TOpen
      BY InstantAssumption
    <3>3. QED BY <3>1, <3>2
  <2>4. QED BY <2>1, <2>3 DEF ValidPoint, Apart
<1>2. ASSUME IInv, NEW r \in Rid, NEW s \in Rid, SameChain(r, s)
      PROVE  /\ \A t \in Instant : ~({r, s} \subseteq AnswerAt(t))
             /\ ~({r, s} \subseteq AnswerNow)
  <2>1. ASSUME NEW t \in Instant, {r, s} \subseteq AnswerAt(t)
        PROVE  FALSE
    <3>1. PICK p \in points[Route(t)] : p.rid = r /\ ValidPoint(p, t)
      BY <2>1 DEF AnswerAt
    <3>2. PICK q \in points[Route(t)] : q.rid = s /\ ValidPoint(q, t)
      BY <2>1 DEF AnswerAt
    <3>3. QED BY <1>1, <1>2, <3>1, <3>2, RoutedTableHoldsValid
  <2>2. ASSUME {r, s} \subseteq AnswerNow
        PROVE  FALSE
    <3>1. PICK p \in points[Cur] : p.rid = r /\ p.until >= TOpen
      BY <2>2 DEF AnswerNow
    <3>2. PICK q \in points[Cur] : q.rid = s /\ q.until >= TOpen
      BY <2>2 DEF AnswerNow
    <3>3. QED BY <1>1, <1>2, <3>1, <3>2, Tables
  <2>3. QED BY <2>1, <2>2
<1>3. IInv => AtMostOneVersion
  BY <1>2 DEF AtMostOneVersion
<1>4. QED BY <1>3, Invariance, PTL

-----------------------------------------------------------------------------
(* Refinement: what the requests on their way make of a row in a collection. *)

LEMMA SentBehind ==
  ASSUME ServerOK, NEW c \in Table, NoUpsertBehind(c), NEW req \in Requests, Send(c, req),
         req.kind # "upsert" \/ \A x \in Pending(c) : x.kind = "upsert"
  PROVE  NoUpsertBehind(c)'
<1> DEFINE q == queue[c]
           n == Len(q)
           s == Append(q, req)
<1>1. q \in Seq(Requests) /\ queue' = [queue EXCEPT ![c] = s]
  BY DEF ServerOK, Send
<1>2. n \in Nat /\ DOMAIN q = 1 .. n
  BY <1>1, LenProperties
<1>3. /\ s[n + 1] = req /\ DOMAIN s = 1 .. n + 1
      /\ \A i \in 1 .. n : s[i] = q[i]
  BY <1>1, <1>2
<1>4. queue'[c] = s
  BY <1>1 DEF ServerOK
<1>5. \A i \in 1 .. n : q[i] \in Pending(c)
  BY <1>2 DEF Pending
<1>6. \A i, j \in 1 .. n : i < j /\ q[i].kind # "upsert" => q[j].kind # "upsert"
  BY <1>2 DEF NoUpsertBehind
<1> HIDE DEF q, n, s
<1>7. \A i, j \in 1 .. n + 1 : i < j => i \in 1 .. n /\ (j \in 1 .. n \/ j = n + 1)
  BY <1>2
<1>8. \A i, j \in 1 .. n + 1 : i < j /\ s[i].kind # "upsert" => s[j].kind # "upsert"
  BY <1>3, <1>5, <1>6, <1>7
<1>9. QED BY <1>3, <1>4, <1>8 DEF NoUpsertBehind

Deleting(c) == \E req \in Pending(c) : req.kind = "delete"

Shutting(c) == \E req \in Pending(c) : req.kind = "set_payload"

\* A request to an epoch collection that has names has those of all copies of
\* the rows of the call.
LEMMA NamesRows ==
  ASSUME IInv, NEW e \in Epochs
  PROVE  /\ \A req \in Pending(e) :
              req.kind # "upsert" =>
                /\ req.new = {}
                /\ \A p \in Copies(e) : Id(p) \in req.ids <=> p.rid \in call.rids
                /\ \/ req.kind = "delete" /\ call.op = "delete"
                   \/ /\ req.kind = "set_payload" /\ req.until = call.at /\ call.at \in Instant
                      /\ call.op = "supersede" /\ pc \in {"close", "uncur", "failed"}
         /\ \A p \in Copies(e) : p \in Points /\ p.rid \in Rid
<1>1. e \in Table /\ e # Cur
  BY Tables
<1>2. \A req \in Pending(e) : RequestOK(e, req)
  BY <1>1 DEF IInv
<1>3. call.op = "supersede" => call.at \in Instant
  BY SupersedeInHand
<1>4. \A p \in Copies(e) : p \in Points /\ p.rid \in Rid
  BY <1>1, KnownCopies
<1>5. QED BY <1>1, <1>2, <1>3, <1>4 DEF RequestOK

\* A collection will be without a row if it has no copy or a delete of it is on
\* its way; else it will have it as its copies say, or ended where a
\* set_payload is on its way.
HeldFacts ==
  \A e \in Epochs, r \in Rid :
    /\ CopiesOf(e, r) = {} \/ (r \in call.rids /\ Deleting(e)) => Kept[e][r] = Absent
    /\ ~(r \in call.rids /\ Deleting(e)) =>
         \A p \in CopiesOf(e, r) :
           Kept[e][r] = [from |-> p.from,
                         until |-> IF r \in call.rids /\ Shutting(e) THEN call.at ELSE p.until]

LEMMA RowsHeld == StoreInv => HeldFacts
<1> SUFFICES ASSUME StoreInv, NEW e \in Epochs, NEW r \in Rid
             PROVE  /\ CopiesOf(e, r) = {} \/ (r \in call.rids /\ Deleting(e))
                         => Kept[e][r] = Absent
                    /\ ~(r \in call.rids /\ Deleting(e)) =>
                         \A p \in CopiesOf(e, r) :
                           Kept[e][r] = [from |-> p.from,
                                         until |-> IF r \in call.rids /\ Shutting(e)
                                                   THEN call.at ELSE p.until]
  BY DEF HeldFacts
<1> DEFINE Heir(p) == IF p.rid \in call.rids /\ Shutting(e) THEN [p EXCEPT !.until = call.at]
                      ELSE p
           held == {Heir(p) : p \in {q \in Copies(e) : ~(q.rid \in call.rids /\ Deleting(e))}}
<1>1. IInv /\ OneEach(Copies(e)) /\ MapOK /\ e \in Table /\ e # Cur
  BY Tables DEF StoreInv, QueueOK, IInv
<1>2. \A p \in Copies(e) :
        /\ p \in Points /\ p.rid \in Rid /\ p.nth = idmap[e][p.rid]
        /\ Naming(e, "delete", p) # {} <=> p.rid \in call.rids /\ Deleting(e)
        /\ Naming(e, "set_payload", p) # {} <=> p.rid \in call.rids /\ Shutting(e)
        /\ \A req \in Naming(e, "set_payload", p) : req.until = call.at
  <2>1. \A p \in Copies(e) : p.nth = idmap[e][p.rid]
    BY <1>1 DEF MapOK, Dropped
  <2>2. QED BY <1>1, <2>1, NamesRows DEF Naming, Received, Pending, Deleting, Shutting
<1>3. Held(e) = held
  <2>1. Copies(e) = points[e] \cup UNION {req.new : req \in Received(e)}
    BY DEF Copies, Received, Pending
  <2>2. {q \in Copies(e) : Naming(e, "delete", q) = {}}
          = {q \in Copies(e) : ~(q.rid \in call.rids /\ Deleting(e))}
    BY <1>2
  <2>3. \A p \in Copies(e) :
          Heir(p) = IF Naming(e, "set_payload", p) = {} THEN p
                    ELSE [p EXCEPT !.until =
                            (CHOOSE req \in Naming(e, "set_payload", p) : TRUE).until]
    BY <1>2
  <2> HIDE DEF Heir
  <2>4. QED BY <2>1, <2>2, <2>3 DEF Held
<1>4. \A p \in Copies(e) : Heir(p).rid = p.rid /\ Heir(p).from = p.from
        /\ Heir(p).until = IF p.rid \in call.rids /\ Shutting(e) THEN call.at ELSE p.until
  BY <1>2 DEF Points
<1>5. Kept[e][r] = IF \A p \in held : p.rid # r THEN Absent
                   ELSE LET p == CHOOSE q \in held : q.rid = r
                        IN  [from |-> p.from, until |-> p.until]
  <2> HIDE DEF held
  <2>1. QED BY <1>3 DEF Kept
<1>6. \A p, q \in CopiesOf(e, r) : p = q
  BY <1>1, <1>2 DEF CopiesOf, OneEach, Id
<1> HIDE DEF Heir
<1>7. ASSUME CopiesOf(e, r) = {} \/ (r \in call.rids /\ Deleting(e))
      PROVE  Kept[e][r] = Absent
  BY <1>4, <1>5, <1>7 DEF CopiesOf
<1>8. ASSUME ~(r \in call.rids /\ Deleting(e)), NEW p \in CopiesOf(e, r)
      PROVE  Kept[e][r] = [from |-> p.from,
                           until |-> IF r \in call.rids /\ Shutting(e) THEN call.at
                                     ELSE p.until]
  <2>1. p \in Copies(e) /\ p.rid = r /\ Heir(p) \in held /\ Heir(p).rid = r
    BY <1>4, <1>8 DEF CopiesOf
  <2>2. \A q \in held : q.rid = r => q = Heir(p)
    BY <1>4, <1>6, <2>1 DEF CopiesOf
  <2>3. (CHOOSE q \in held : q.rid = r) = Heir(p)
    BY <2>1, <2>2
  <2> HIDE DEF held
  <2>4. Kept[e][r] = [from |-> Heir(p).from, until |-> Heir(p).until]
    BY <1>5, <2>1, <2>3
  <2>5. QED BY <1>4, <2>1, <2>4
<1>9. QED BY <1>7, <1>8

\* An upsert is sent only while nothing but upserts is on its way to the
\* collection, and its points are new, or like the copies of the same id.
LEMMA InsertFacts ==
  ASSUME StoreInv, pc = "insert", NEW c \in Table, NEW chunk \in SUBSET todo[c]
  PROVE  /\ \A x \in Pending(c) : x.kind = "upsert"
         /\ OneEach(Copies(c) \cup chunk)
         /\ chunk \subseteq Points
         /\ \A p \in chunk : /\ p.rid \in Rid /\ p.rid \in DOMAIN call.recs
                             /\ Says(p, call.recs[p.rid])
<1>1. IInv /\ OneEach(Copies(c)) /\ call.op \in {"write", "supersede"}
  BY LoopOf DEF StoreInv, QueueOK
<1>2. \A x \in Pending(c) : x.kind = "upsert"
  <2>1. \A x \in Pending(c) : RequestOK(c, x)
    BY <1>1 DEF IInv
  <2>2. QED BY <1>1, <2>1 DEF RequestOK
<1>3. /\ Unsent(c) = todo[c] /\ OneEach(todo[c])
      /\ \A p \in todo[c] : p.rid \in DOMAIN call.recs
  BY <1>1 DEF IInv, TodoOK, Unsent
<1>4. todo[c] \subseteq Points /\ Copies(c) \subseteq Points
  BY <1>1, CopiesTyped DEF IInv, TypeOK, ServerOK
<1>5. \A p \in todo[c] \cup Copies(c) : p.rid \in Rid
  BY <1>4 DEF Points
<1>6. ASSUME NEW r \in Rid, r \in DOMAIN call.recs,
             NEW p \in Copies(c) \cup todo[c], p.rid = r
      PROVE  Says(p, call.recs[r])
  <2>1. Inserting(r)
    BY <1>1, <1>6 DEF IInv, RowOK
  <2>2. QED BY <1>3, <1>6, <2>1 DEF Inserting, CopiesOf, UnsentOf
<1>7. ASSUME NEW p \in Copies(c) \cup chunk, NEW q \in chunk, Id(p) = Id(q)
      PROVE  p = q
  <2>1. p.rid = q.rid /\ p.nth = q.nth /\ p \in Points /\ q \in Points
    BY <1>4, <1>7 DEF Id
  <2>2. Says(p, call.recs[q.rid]) /\ Says(q, call.recs[q.rid])
    BY <1>3, <1>5, <1>6, <2>1
  <2>3. QED BY <2>1, <2>2 DEF Says, Points
<1>8. OneEach(Copies(c) \cup chunk)
  BY <1>1, <1>7 DEF OneEach
<1>9. \A p \in chunk : Says(p, call.recs[p.rid])
  BY <1>3, <1>5, <1>6
<1>10. QED BY <1>2, <1>3, <1>4, <1>5, <1>8, <1>9

\* Applying a request makes of the copies what its being on its way foretold.
LEMMA AppliedQueue ==
  ASSUME StoreInv, NEW c \in Table, ServerApplies(c)
  PROVE  /\ QueueOK' /\ call' = call
         /\ \A d \in Table : d # c => Pending(d)' = Pending(d) /\ Copies(d)' = Copies(d)
         /\ c \in Epochs =>
              \/ /\ Copies(c)' = Copies(c)
                 /\ Deleting(c)' = Deleting(c) /\ Shutting(c)' = Shutting(c)
              \/ /\ Shutting(c) /\ ~Deleting(c) /\ ~Deleting(c)'
                 /\ Copies(c)' = {IF p.rid \in call.rids THEN [p EXCEPT !.until = call.at]
                                  ELSE p : p \in Copies(c)}
              \/ /\ Deleting(c) /\ ~Shutting(c) /\ ~Shutting(c)'
                 /\ Copies(c)' = {p \in Copies(c) : p.rid \notin call.rids}
<1> DEFINE pts == points[c]
<1>1. /\ IInv /\ ServerOK /\ NoUpsertBehind(c) /\ OneEach(Copies(c)) /\ Apply(c) /\ call' = call
      /\ \A x \in Pending(c) : RequestOK(c, x)
  BY DEF StoreInv, QueueOK, IInv, ServerOK, ServerApplies, client
<1>2. PICK req \in Pending(c) :
        /\ req \in Requests
        /\ points' = [points EXCEPT ![c] = Effect(points[c], req)]
        /\ Pending(c)' \subseteq Pending(c) /\ Pending(c) \subseteq Pending(c)' \cup {req}
        /\ NoUpsertBehind(c)'
        /\ req.kind # "upsert" => \A x \in Pending(c) : x.kind # "upsert"
  BY <1>1, AppliedRequest
<1>3. points'[c] = Effect(pts, req)
  BY <1>1, <1>2 DEF ServerOK
<1>4. /\ Copies(c) = pts \cup UNION {x.new : x \in Pending(c)}
      /\ Copies(c)' = Effect(pts, req) \cup UNION {x.new : x \in Pending(c)'}
  BY <1>3 DEF Copies
<1>5. Copies(c) \subseteq Points
  BY <1>1, CopiesTyped
<1>6. \A d \in Table : d # c => /\ Pending(d)' = Pending(d) /\ Copies(d)' = Copies(d)
                                /\ queue'[d] = queue[d]
  BY <1>1, AppliedCopies
<1>7. OneEach(Copies(c)') => QueueOK'
  <2>1. \A d \in Table : d # c => NoUpsertBehind(d) /\ OneEach(Copies(d))
    BY DEF StoreInv, QueueOK
  <2>2. \A d \in Table : d # c => NoUpsertBehind(d)' /\ OneEach(Copies(d)')
    BY <1>6, <2>1 DEF NoUpsertBehind
  <2>3. QED BY <1>2, <2>2 DEF QueueOK, OneEach
<1> HIDE DEF pts
<1>8. CASE req.kind = "upsert"
  <2>1. Effect(pts, req) = {p \in pts : Id(p) \notin {Id(x) : x \in req.new}} \cup req.new
    BY <1>8 DEF Effect, Without
  <2>2. req.new \subseteq Copies(c) /\ pts \subseteq Copies(c)
    BY <1>2, <1>4
  <2>3. \A p \in pts : p \in Effect(pts, req)
    <3>1. \A p \in pts, x \in req.new : Id(p) = Id(x) => p = x
      BY <1>1, <2>2 DEF OneEach
    <3>2. QED BY <2>1, <3>1
  <2>4. Copies(c)' = Copies(c)
    BY <1>2, <1>4, <2>1, <2>2, <2>3
  <2>5. Deleting(c)' = Deleting(c) /\ Shutting(c)' = Shutting(c)
    <3>1. \A x \in Pending(c) : x.kind # "upsert" => x \in Pending(c)'
      BY <1>2, <1>8
    <3>2. QED BY <1>2, <3>1 DEF Deleting, Shutting
  <2>6. QueueOK'
    BY <1>1, <1>7, <2>4
  <2>7. QED BY <1>1, <1>6, <2>4, <2>5, <2>6
<1>9. CASE req.kind # "upsert"
  <2>1. /\ \A x \in Pending(c) : x.kind # "upsert" /\ x.new = {}
        /\ req.kind \in {"set_payload", "delete"}
        /\ req.kind = "set_payload" => req.until = call.at
        /\ \A p \in Copies(c) : Id(p) \in req.ids <=> p.rid \in call.rids
    BY <1>1, <1>2, <1>9 DEF RequestOK
  <2>2. Copies(c) = pts /\ Copies(c)' = Effect(pts, req)
    BY <1>2, <1>4, <2>1
  <2>3. ASSUME c \in Epochs
        PROVE  \A x \in Pending(c) : x.kind = req.kind
    BY <1>1, <1>2, <2>1, <2>3, NamesRows
  <2>4. CASE req.kind = "set_payload"
    <3> DEFINE Shut(p) == IF p.rid \in call.rids THEN [p EXCEPT !.until = call.at] ELSE p
    <3>1. Effect(pts, req)
            = {IF Id(p) \in req.ids THEN [p EXCEPT !.until = req.until] ELSE p : p \in pts}
      BY <2>4 DEF Effect
    <3>2. Copies(c)' = {Shut(p) : p \in Copies(c)}
      BY <2>1, <2>2, <2>4, <3>1
    <3>3. c \in Epochs => Shutting(c) /\ ~Deleting(c) /\ ~Deleting(c)'
      BY <1>2, <2>3, <2>4 DEF Shutting, Deleting
    <3>4. \A p \in Copies(c) : Shut(p).rid = p.rid /\ Shut(p).nth = p.nth
      BY <1>5 DEF Points
    <3>5. \A p \in Copies(c) : Id(Shut(p)) = Id(p)
      BY <3>4 DEF Id
    <3> HIDE DEF Shut
    <3>6. \A p, q \in Copies(c) : Id(Shut(p)) = Id(Shut(q)) => p = q
      BY <1>1, <3>5 DEF OneEach
    <3>7. OneEach(Copies(c)')
      BY <3>2, <3>6 DEF OneEach
    <3>8. QED BY <1>1, <1>6, <1>7, <3>2, <3>3, <3>7 DEF Shut
  <2>5. CASE req.kind = "delete"
    <3>1. Effect(pts, req) = {p \in pts : Id(p) \notin req.ids}
      BY <2>5 DEF Effect, Without
    <3>2. Copies(c)' = {p \in Copies(c) : p.rid \notin call.rids}
      BY <2>1, <2>2, <3>1
    <3>3. c \in Epochs => Deleting(c) /\ ~Shutting(c) /\ ~Shutting(c)'
      BY <1>2, <2>3, <2>5 DEF Shutting, Deleting
    <3>4. OneEach(Copies(c)')
      BY <1>1, <3>2 DEF OneEach
    <3>5. QED BY <1>1, <1>6, <1>7, <3>2, <3>3, <3>4
  <2>6. QED BY <2>1, <2>4, <2>5
<1>10. QED BY <1>8, <1>9

\* What a step that sends a request, or none, does to the queues.
LEMMA QueueStep ==
  ASSUME StoreInv, [Next]_vars
  PROVE  QueueOK'
<1>1. /\ IInv /\ ServerOK
      /\ \A c \in Table : NoUpsertBehind(c) /\ OneEach(Copies(c))
  BY DEF StoreInv, QueueOK, IInv, ServerOK
<1>2. CASE UNCHANGED <<points, queue>>
  <2>1. \A c \in Table : Copies(c)' = Copies(c) /\ queue'[c] = queue[c]
    BY <1>2, SameServer
  <2>2. QED BY <1>1, <2>1 DEF QueueOK, NoUpsertBehind, OneEach
<1>3. ASSUME NEW c \in Table, NEW req \in Requests, NEW wait, Request(c, req, wait),
             req.kind # "upsert" \/ \A x \in Pending(c) : x.kind = "upsert",
             OneEach(Copies(c) \cup req.new)
      PROVE  QueueOK'
  <2>1. /\ Send(c, req) /\ Copies(c)' = Copies(c) \cup req.new
        /\ \A d \in Table : d # c => queue'[d] = queue[d] /\ Copies(d)' = Copies(d)
    BY <1>1, <1>3, SentCopies DEF Request
  <2>2. NoUpsertBehind(c)'
    BY <1>1, <1>3, <2>1, SentBehind
  <2>3. \A d \in Table : d # c => NoUpsertBehind(d)' /\ OneEach(Copies(d)')
    BY <1>1, <2>1 DEF NoUpsertBehind
  <2>4. QED BY <1>3, <2>1, <2>2, <2>3 DEF QueueOK, OneEach
<1>4. ASSUME NEW c \in Table, NEW req \in Requests, Request(c, req, TRUE),
             req.kind # "upsert", req.new = {}
      PROVE  QueueOK'
  BY <1>1, <1>3, <1>4
<1>5. ASSUME NEW c \in Table, CloseStmt(c)
      PROVE  QueueOK'
  <2> DEFINE req == SetUntil(todo[c], call.at)
  <2>1. Request(c, req, TRUE) /\ req \in Requests
    BY <1>1, <1>5, RequestTypes DEF CloseStmt
  <2>2. req.kind # "upsert" /\ req.new = {}
    BY DEF SetUntil
  <2> HIDE DEF req
  <2>3. QED BY <1>4, <2>1, <2>2
<1>6. CASE UncurStmt
  <2> DEFINE req == DeletePoints(todo[Cur])
  <2>1. Request(Cur, req, TRUE) /\ req \in Requests /\ Cur \in Table
    BY <1>1, <1>6, RequestTypes, Tables DEF UncurStmt
  <2>2. req.kind # "upsert" /\ req.new = {}
    BY DEF DeletePoints
  <2> HIDE DEF req
  <2>3. QED BY <1>4, <2>1, <2>2
<1>7. ASSUME NEW c \in Table, NEW chunk \in SUBSET todo[c], UpsertStmt(c, chunk)
      PROVE  QueueOK'
  <2> DEFINE small == ~Many(c)
  <2>1. pc = "insert" /\ Request(c, Upsert(chunk), small)
    BY <1>7 DEF UpsertStmt
  <2> HIDE DEF small
  <2>2. Upsert(chunk) \in Requests /\ Upsert(chunk).new = chunk
    BY <1>1, <2>1, RequestTypes DEF Upsert
  <2>3. QED BY <1>3, <2>1, <2>2, InsertFacts
<1>8. ASSUME NEW c \in Table, EraseStmt(c)
      PROVE  QueueOK'
  <2> DEFINE req == DeletePoints(todo[c])
  <2>1. Request(c, req, TRUE) /\ req \in Requests
    BY <1>1, <1>8, RequestTypes DEF EraseStmt
  <2>2. req.kind # "upsert" /\ req.new = {}
    BY DEF DeletePoints
  <2> HIDE DEF req
  <2>3. QED BY <1>4, <2>1, <2>2
<1>9. CASE Reconstruct
  <2>1. \A c \in Table : points'[c] = {} /\ queue'[c] = <<>>
    BY <1>9 DEF Reconstruct, Recreate
  <2>2. \A c \in Table : DOMAIN queue'[c] = {}
    BY <2>1, EmptySeq
  <2>3. \A c \in Table : Copies(c)' = {}
    BY <2>1, <2>2 DEF Copies, Pending
  <2>4. QED BY <2>2, <2>3 DEF QueueOK, NoUpsertBehind, OneEach
<1>10. ASSUME NEW c \in Table, ServerApplies(c)
       PROVE  QueueOK'
  BY <1>10, AppliedQueue
<1>11. QED
  BY <1>2, <1>5, <1>6, <1>7, <1>8, <1>9, <1>10
  DEF Next, vars, Write, Supersede, Delete, Call, PopEntry, Successor, Return, Fail, Retry

\* The inductive invariant of the refinement.
THEOREM StoreInvariance ==
  ASSUME Retried \subseteq {"delete"}
  PROVE  Spec => []StoreInv
<1>1. Init => StoreInv
  <2> SUFFICES ASSUME Init PROVE StoreInv
    OBVIOUS
  <2>1. \A c \in Table : points[c] = {} /\ queue[c] = <<>>
    BY DEF Init, Empty
  <2>2. \A c \in Table : DOMAIN queue[c] = {}
    BY <2>1, EmptySeq
  <2>3. QueueOK
    BY <2>1, <2>2 DEF QueueOK, NoUpsertBehind, OneEach, Copies, Pending
  <2>4. QED BY <2>3, InitInv DEF StoreInv
<1>2. StoreInv /\ [Next]_vars => StoreInv'
  <2>1. IInv /\ [Next]_vars => IInv'
    BY InvStep
  <2>2. QED BY <2>1, QueueStep DEF StoreInv
<1>3. QED BY <1>1, <1>2, PTL DEF Spec

-----------------------------------------------------------------------------
(* A row is in the version store as the last epoch collection will have it.  *)

LastOK ==
  /\ LastCopies = [r \in Rid |-> LastCopies[r]]
  /\ \A r \in Rid :
       \/ LastCopies[r] = Absent /\ \A e \in Epochs : Kept[e][r] = Absent
       \/ \E e \in Epochs : /\ Kept[e][r] # Absent /\ LastCopies[r] = Kept[e][r]
                            /\ \A f \in Epochs : e < f => Kept[f][r] = Absent

LEMMA LastCopyOf == LastOK
<1> DEFINE holding(r) == {e \in Epochs : Kept[e][r] # Absent}
           last(r) == CHOOSE e \in holding(r) : \A f \in holding(r) : f <= e
<1>1. LastCopies = [r \in Rid |-> IF holding(r) = {} THEN Absent ELSE Kept[last(r)][r]]
  BY DEF LastCopies
<1>2. ASSUME NEW r \in Rid, holding(r) # {}
      PROVE  \E e \in Epochs : /\ Kept[e][r] # Absent /\ LastCopies[r] = Kept[e][r]
                               /\ \A f \in Epochs : e < f => Kept[f][r] = Absent
  <2>1. holding(r) \in SUBSET (0 .. MaxEpoch) /\ MaxEpoch \in Nat
    BY EpochAssumption DEF Epochs
  <2> HIDE DEF holding
  <2>2. \E e \in holding(r) : \A f \in holding(r) : f <= e
    BY <1>2, <2>1, LastOf
  <2>3. last(r) \in holding(r) /\ \A f \in holding(r) : f <= last(r)
    BY <2>2
  <2>4. LastCopies[r] = Kept[last(r)][r]
    BY <1>1, <1>2
  <2> HIDE DEF last
  <2>5. \A e, f \in Epochs : e < f => ~(f <= e)
    BY DEF Epochs
  <2>6. QED BY <2>3, <2>4, <2>5 DEF holding
<1>3. ASSUME NEW r \in Rid, holding(r) = {}
      PROVE  LastCopies[r] = Absent /\ \A e \in Epochs : Kept[e][r] = Absent
  BY <1>1, <1>3
<1>4. LastCopies = [r \in Rid |-> LastCopies[r]]
  BY <1>1
<1> HIDE DEF holding
<1>5. QED BY <1>2, <1>3, <1>4 DEF LastOK

\* A row that the same epochs have is told by the same one.
LEMMA SamePlaces ==
  ASSUME LastOK, LastOK', NEW r \in Rid,
         \A e \in Epochs : Kept'[e][r] = Absent <=> Kept[e][r] = Absent
  PROVE  \/ LastCopies[r] = Absent /\ LastCopies'[r] = Absent
         \/ \E e \in Epochs : /\ Kept[e][r] # Absent
                              /\ LastCopies[r] = Kept[e][r] /\ LastCopies'[r] = Kept'[e][r]
<1>1. CASE LastCopies[r] = Absent /\ \A e \in Epochs : Kept[e][r] = Absent
  BY <1>1 DEF LastOK
<1>2. ASSUME NEW e \in Epochs, Kept[e][r] # Absent, LastCopies[r] = Kept[e][r],
             \A f \in Epochs : e < f => Kept[f][r] = Absent
      PROVE  LastCopies'[r] = Kept'[e][r]
  <2>1. PICK f \in Epochs : /\ Kept'[f][r] # Absent /\ LastCopies'[r] = Kept'[f][r]
                            /\ \A g \in Epochs : f < g => Kept'[g][r] = Absent
    BY <1>2 DEF LastOK
  <2>2. ~(e < f) /\ ~(f < e)
    BY <1>2, <2>1
  <2>3. e = f
    BY <2>2 DEF Epochs
  <2>4. QED BY <2>1, <2>3
<1>3. QED BY <1>1, <1>2 DEF LastOK

LEMMA SameRow ==
  ASSUME LastOK, LastOK', NEW r \in Rid, \A e \in Epochs : Kept'[e][r] = Kept[e][r]
  PROVE  LastCopies'[r] = LastCopies[r]
  BY SamePlaces

\* What the collections and the store have of the rows is well typed.
StoreTyped ==
  /\ HeldFacts /\ LastOK
  /\ \A e \in Epochs, r \in Rid : Kept[e][r] \in Interval \cup {Absent}
  /\ LastCopies \in [Rid -> Interval \cup {Absent}]

LEMMA StoreTypes == StoreInv => StoreTyped
<1> SUFFICES ASSUME StoreInv PROVE StoreTyped
  OBVIOUS
<1>1. IInv /\ HeldFacts /\ LastOK
  BY RowsHeld, LastCopyOf DEF StoreInv
<1>2. ASSUME NEW e \in Epochs, NEW r \in Rid
      PROVE  Kept[e][r] \in Interval \cup {Absent}
  <2>1. CASE CopiesOf(e, r) = {} \/ (r \in call.rids /\ Deleting(e))
    BY <1>1, <2>1 DEF HeldFacts
  <2>2. CASE ~(r \in call.rids /\ Deleting(e)) /\ CopiesOf(e, r) # {}
    <3>1. PICK p \in CopiesOf(e, r) : TRUE
      BY <2>2
    <3>2. p \in Points /\ (Shutting(e) => call.at \in Instant)
      BY <1>1, <3>1, NamesRows DEF CopiesOf, Shutting
    <3>3. Kept[e][r] = [from |-> p.from,
                        until |-> IF r \in call.rids /\ Shutting(e) THEN call.at ELSE p.until]
      BY <1>1, <2>2, <3>1 DEF HeldFacts
    <3>4. QED BY <3>2, <3>3 DEF Points, Interval
  <2>3. QED BY <2>1, <2>2
<1>3. \A r \in Rid : LastCopies[r] \in Interval \cup {Absent}
  BY <1>1, <1>2 DEF LastOK
<1>4. QED BY <1>1, <1>2, <1>3 DEF LastOK, StoreTyped

\* A collection whose copies and requests stay will have the rows it would.
LEMMA SameKept ==
  ASSUME HeldFacts, HeldFacts', call' = call, NEW e \in Epochs, NEW r \in Rid,
         CopiesOf(e, r)' = CopiesOf(e, r),
         Deleting(e)' = Deleting(e), Shutting(e)' = Shutting(e)
  PROVE  Kept'[e][r] = Kept[e][r]
<1>1. CASE CopiesOf(e, r) = {} \/ (r \in call.rids /\ Deleting(e))
  BY <1>1 DEF HeldFacts
<1>2. CASE CopiesOf(e, r) # {} /\ ~(r \in call.rids /\ Deleting(e))
  <2>1. PICK p \in CopiesOf(e, r) : TRUE
    BY <1>2
  <2> DEFINE iv == [from |-> p.from,
                    until |-> IF r \in call.rids /\ Shutting(e) THEN call.at ELSE p.until]
  <2>2. Kept[e][r] = iv
    BY <1>2, <2>1 DEF HeldFacts
  <2>3. Kept'[e][r] = iv
    BY <1>2, <2>1 DEF HeldFacts
  <2>4. QED BY <2>2, <2>3
<1>3. QED BY <1>1, <1>2

LEMMA UntouchedKept ==
  ASSUME HeldFacts, HeldFacts', call' = call, NEW e \in Epochs,
         Copies(e)' = Copies(e), Pending(e)' = Pending(e), NEW r \in Rid
  PROVE  Kept'[e][r] = Kept[e][r]
<1>1. CopiesOf(e, r)' = CopiesOf(e, r)
  BY DEF CopiesOf
<1>2. Deleting(e)' = Deleting(e) /\ Shutting(e)' = Shutting(e)
  BY DEF Deleting, Shutting
<1>3. QED BY <1>1, <1>2, SameKept

\* Whoever else takes a step, the store stays as it is.
LEMMA SameServerStore ==
  ASSUME UNCHANGED <<points, queue>>
  PROVE  LastCopies' = LastCopies
<1>1. ASSUME NEW e \in Epochs
      PROVE  Held(e)' = Held(e)
  <2>1. Received(e)' = Received(e)
    BY DEF Received
  <2>2. \A p : Naming(e, "set_payload", p)' = Naming(e, "set_payload", p)
    BY <2>1 DEF Naming
  <2>3. \A p : Naming(e, "delete", p)' = Naming(e, "delete", p)
    BY <2>1 DEF Naming
  <2>4. QED BY <2>1, <2>2, <2>3 DEF Held
<1>2. Kept' = Kept
  BY <1>1 DEF Kept
<1>3. QED BY <1>2 DEF LastCopies

\* What a collection will have of a row is within one of its copies.
LEMMA WithinCopy ==
  ASSUME StoreInv, NEW e \in Epochs, NEW r \in Rid, Kept[e][r] # Absent
  PROVE  \E p \in CopiesOf(e, r) : /\ Kept[e][r].from = p.from
                                   /\ Kept[e][r].until <= p.until
<1>1. /\ IInv /\ HeldFacts /\ CopiesOf(e, r) # {} /\ ~(r \in call.rids /\ Deleting(e))
  BY RowsHeld DEF StoreInv, HeldFacts
<1>2. PICK p \in CopiesOf(e, r) : TRUE
  BY <1>1
<1>3. /\ Kept[e][r].from = p.from
      /\ Kept[e][r].until = IF r \in call.rids /\ Shutting(e) THEN call.at ELSE p.until
  <2>1. Kept[e][r] = [from |-> p.from,
                      until |-> IF r \in call.rids /\ Shutting(e) THEN call.at ELSE p.until]
    BY <1>1, <1>2 DEF HeldFacts
  <2>2. QED BY <2>1
<1>4. p.until \in Nat
  <2>1. p \in Points
    BY <1>1, <1>2, NamesRows DEF CopiesOf
  <2>2. QED BY <2>1, InstantAssumption DEF Points
<1>5. ASSUME r \in call.rids, Shutting(e)
      PROVE  call.at <= p.until
  <2>1. call.op = "supersede" /\ e \in Table
    BY <1>1, <1>5, NamesRows, Tables DEF Shutting
  <2>2. /\ Closing(r) /\ acked[r] \in Interval /\ IsOpen(acked[r]) /\ call.at \in Instant
    BY <1>1, <1>5, <2>1, SupersedeInHand
  <2>3. Says(p, acked[r]) \/ Says(p, Closed(acked[r], call.at))
    BY <1>2, <2>1, <2>2 DEF Closing
  <2>4. p.until = TOpen \/ p.until = call.at
    BY <2>2, <2>3, OpenIsSentinel, ClosedInterval DEF Says, Closed, Interval
  <2>5. call.at \in Nat /\ TOpen \in Nat /\ call.at <= TOpen
    <3>1. call.at \in Instant
      BY <2>2
    <3>2. call.at \in Nat /\ TOpen \in Nat /\ call.at < TOpen
      BY <3>1, InstantAssumption
    <3>3. QED BY <3>2
  <2>6. QED BY <2>4, <2>5
<1>6. QED BY <1>2, <1>3, <1>4, <1>5

\* The versions of one memory are apart in the store.
StoreApart ==
  \A r, s \in Rid : SameChain(r, s) /\ LastCopies[r] # Absent /\ LastCopies[s] # Absent
    => Apart(LastCopies[r], LastCopies[s])

LEMMA StoreIsApart == StoreInv => StoreApart
<1>1. ASSUME StoreInv, NEW r \in Rid, NEW s \in Rid, SameChain(r, s),
             LastCopies[r] # Absent, LastCopies[s] # Absent
      PROVE  Apart(LastCopies[r], LastCopies[s])
  <2>1. StoreTyped /\ IInv
    BY <1>1, StoreTypes DEF StoreInv
  <2>2. PICK e \in Epochs : Kept[e][r] # Absent /\ LastCopies[r] = Kept[e][r]
    BY <1>1, <2>1 DEF StoreTyped, LastOK
  <2>3. PICK f \in Epochs : Kept[f][s] # Absent /\ LastCopies[s] = Kept[f][s]
    BY <1>1, <2>1 DEF StoreTyped, LastOK
  <2>4. PICK p \in CopiesOf(e, r) : /\ LastCopies[r].from = p.from
                                    /\ LastCopies[r].until <= p.until
    BY <1>1, <2>2, WithinCopy
  <2>5. PICK q \in CopiesOf(f, s) : /\ LastCopies[s].from = q.from
                                    /\ LastCopies[s].until <= q.until
    BY <1>1, <2>3, WithinCopy
  <2>6. Apart(p, q)
    BY <1>1, <2>1, <2>4, <2>5, CopiesApart, Tables DEF CopiesOf
  <2>7. p \in Points /\ q \in Points
    BY <2>1, <2>4, <2>5, NamesRows DEF CopiesOf
  <2>8. /\ p.from \in Nat /\ p.until \in Nat /\ q.from \in Nat /\ q.until \in Nat
    BY <2>7, InstantAssumption DEF Points
  <2>9. LastCopies[r].until \in Nat /\ LastCopies[s].until \in Nat
    BY <1>1, <2>1, InstantAssumption DEF StoreTyped, Interval
  <2>10. QED BY <2>4, <2>5, <2>6, <2>8, <2>9 DEF Apart
<1>2. QED BY <1>1 DEF StoreApart

\* The server's steps change nothing in the store: what they do was taken for
\* done when the request was received.
LEMMA ApplyStutters ==
  ASSUME StoreInv, StoreTyped', NEW c \in Table, ServerApplies(c)
  PROVE  LastCopies' = LastCopies
<1>1. StoreTyped /\ HeldFacts /\ LastOK /\ IInv
  BY StoreTypes DEF StoreTyped, StoreInv
<1>2. HeldFacts' /\ LastOK'
  BY DEF StoreTyped
<1>3. call' = call /\ \A d \in Table : d # c => Pending(d)' = Pending(d) /\ Copies(d)' = Copies(d)
  BY AppliedQueue
<1>4. SUFFICES ASSUME NEW r \in Rid, NEW e \in Epochs PROVE Kept'[e][r] = Kept[e][r]
  BY <1>1, <1>2, SameRow DEF LastOK
<1>5. CASE e # c
  BY <1>1, <1>2, <1>3, <1>5, UntouchedKept, Tables
<1>6. CASE e = c /\ Copies(e)' = Copies(e) /\ Deleting(e)' = Deleting(e)
                 /\ Shutting(e)' = Shutting(e)
  <2>1. CopiesOf(e, r)' = CopiesOf(e, r)
    BY <1>6 DEF CopiesOf
  <2>2. QED BY <1>1, <1>2, <1>3, <1>6, <2>1, SameKept
<1>7. CASE /\ Shutting(e) /\ ~Deleting(e) /\ ~Deleting(e)'
           /\ Copies(e)' = {IF p.rid \in call.rids THEN [p EXCEPT !.until = call.at] ELSE p :
                              p \in Copies(e)}
  <2> DEFINE Shut(p) == IF p.rid \in call.rids THEN [p EXCEPT !.until = call.at] ELSE p
  <2>1. \A p \in Copies(e) :
          /\ Shut(p).rid = p.rid /\ Shut(p).from = p.from
          /\ Shut(p).until = IF p.rid \in call.rids THEN call.at ELSE p.until
    BY <1>1, NamesRows DEF Points
  <2>2. Copies(e)' = {Shut(p) : p \in Copies(e)}
    BY <1>7
  <2> HIDE DEF Shut
  <2>3. CopiesOf(e, r)' = {Shut(p) : p \in CopiesOf(e, r)}
    BY <2>1, <2>2 DEF CopiesOf
  <2>4. CASE CopiesOf(e, r) = {}
    BY <1>1, <1>2, <2>3, <2>4 DEF HeldFacts
  <2>5. CASE CopiesOf(e, r) # {}
    <3>1. PICK p \in CopiesOf(e, r) : TRUE
      BY <2>5
    <3>2. Shut(p) \in CopiesOf(e, r)' /\ p \in Copies(e) /\ p.rid = r
      BY <2>3, <3>1 DEF CopiesOf
    <3>3. Kept[e][r] = [from |-> p.from,
                        until |-> IF r \in call.rids THEN call.at ELSE p.until]
      BY <1>1, <1>7, <3>1 DEF HeldFacts
    <3>4. Kept'[e][r] = [from |-> Shut(p).from,
                         until |-> IF r \in call.rids /\ Shutting(e)' THEN call.at
                                   ELSE Shut(p).until]
      BY <1>2, <1>3, <1>7, <3>2 DEF HeldFacts
    <3>5. QED BY <2>1, <3>2, <3>3, <3>4
  <2>6. QED BY <2>4, <2>5
<1>8. CASE /\ Deleting(e) /\ ~Shutting(e) /\ ~Shutting(e)'
           /\ Copies(e)' = {p \in Copies(e) : p.rid \notin call.rids}
  <2>1. CASE r \in call.rids
    <3>1. CopiesOf(e, r)' = {}
      BY <1>8, <2>1 DEF CopiesOf
    <3>2. QED BY <1>1, <1>2, <1>8, <2>1, <3>1 DEF HeldFacts
  <2>2. CASE r \notin call.rids
    <3>1. CopiesOf(e, r)' = CopiesOf(e, r)
      BY <1>8, <2>2 DEF CopiesOf
    <3>2. CASE CopiesOf(e, r) = {}
      BY <1>1, <1>2, <3>1, <3>2 DEF HeldFacts
    <3>3. CASE CopiesOf(e, r) # {}
      <4>1. PICK p \in CopiesOf(e, r) : TRUE
        BY <3>3
      <4>2. Kept[e][r] = [from |-> p.from, until |-> p.until]
        BY <1>1, <2>2, <4>1 DEF HeldFacts
      <4>3. Kept'[e][r] = [from |-> p.from, until |-> p.until]
        BY <1>2, <1>3, <2>2, <3>1, <4>1 DEF HeldFacts
      <4>4. QED BY <4>2, <4>3
    <3>4. QED BY <3>2, <3>3
  <2>3. QED BY <2>1, <2>2
<1>9. QED BY <1>5, <1>6, <1>7, <1>8, AppliedQueue

\* A request to one collection leaves the others what they will have.
LEMMA OtherCollections ==
  ASSUME StoreInv, HeldFacts, HeldFacts', call' = call, NEW c \in Table,
         NEW req \in Requests, NEW wait, Request(c, req, wait)
  PROVE  \A e \in Epochs, r \in Rid : e # c => Kept'[e][r] = Kept[e][r]
<1>1. ServerOK
  BY DEF StoreInv, IInv, ServerOK
<1>2. \A d \in Table : d # c => Pending(d)' = Pending(d) /\ Copies(d)' = Copies(d)
  BY <1>1, SentCopies
<1>3. QED BY <1>2, UntouchedKept, Tables

\* The request that closes a row is a Close of the store when it is made to the
\* last collection that has the row, and changes nothing at any other.
LEMMA CloseRefines ==
  ASSUME StoreInv, StoreInv', NEW c \in Table, CloseStmt(c), StoreTyped',
         LastCopies' # LastCopies
  PROVE  \E r \in Rid, at \in Instant : Store!Close(r, at)
<1> DEFINE req == SetUntil(todo[c], call.at)
<1>1. StoreTyped /\ HeldFacts /\ LastOK /\ IInv /\ ServerOK
  BY StoreTypes DEF StoreTyped, StoreInv, IInv, ServerOK
<1>2. HeldFacts' /\ LastOK'
  BY DEF StoreTyped
<1>3. /\ pc = "close" /\ call' = call /\ Request(c, req, TRUE) /\ call.op = "supersede"
      /\ req \in Requests
  BY <1>1, LoopOf, RequestTypes DEF CloseStmt
<1>4. req.kind = "set_payload" /\ req.new = {}
  BY DEF SetUntil
<1> HIDE DEF req
<1>5. /\ Pending(c)' = Pending(c) \cup {req} /\ Copies(c)' = Copies(c)
      /\ \A e \in Epochs, r \in Rid : e # c => Kept'[e][r] = Kept[e][r]
  BY <1>1, <1>2, <1>3, <1>4, SentCopies, OtherCollections
<1>6. PICK rid \in Rid, new \in Rid :
        /\ call.rids = {rid} /\ call.at \in Instant /\ acked[rid] \in Interval
        /\ IsOpen(acked[rid]) /\ acked[rid].from <= call.at /\ Closing(rid)
  BY <1>1, <1>3, SupersedeInHand
<1> DEFINE shut == Closed(acked[rid], call.at)
<1>7. /\ shut \in Interval /\ shut # Absent
      /\ shut = [from |-> acked[rid].from, until |-> call.at]
      /\ acked[rid].until = TOpen /\ acked[rid] # Absent
      /\ acked[rid] = [from |-> acked[rid].from, until |-> acked[rid].until]
  <2> DEFINE iv == acked[rid]
  <2>1. iv \in Interval /\ IsOpen(iv) /\ call.at \in Instant
    BY <1>6
  <2> HIDE DEF iv
  <2>2. shut \in Interval /\ shut # Absent /\ iv.until = TOpen /\ iv # Absent
    BY <2>1, ClosedInterval, OpenIsSentinel, AbsentAssumption DEF iv
  <2>3. Closed(iv, call.at) = [from |-> iv.from, until |-> call.at]
        /\ iv = [from |-> iv.from, until |-> iv.until]
    BY <2>1 DEF Closed, Interval
  <2>4. QED BY <2>2, <2>3 DEF iv
<1>8. \A e \in Epochs : ~Deleting(e)
  BY <1>1, <1>3, NamesRows DEF Deleting
<1>9. ASSUME NEW e \in Epochs, NEW p \in CopiesOf(e, rid)
      PROVE  Kept[e][rid] \in {acked[rid], shut} /\ shut = [from |-> p.from, until |-> call.at]
  <2>1. p.from = acked[rid].from /\ p.until \in {acked[rid].until, call.at}
    BY <1>6, <1>7, <1>9, Tables DEF Closing, Says
  <2>2. Kept[e][rid] = [from |-> p.from,
                        until |-> IF rid \in call.rids /\ Shutting(e) THEN call.at ELSE p.until]
    BY <1>1, <1>8, <1>9 DEF HeldFacts
  <2> HIDE DEF shut
  <2>3. QED BY <1>7, <2>1, <2>2
<1> HIDE DEF shut
<1>10. \A e \in Epochs : Kept[e][rid] \in {Absent, acked[rid], shut}
  <2>1. \A e \in Epochs : CopiesOf(e, rid) = {} => Kept[e][rid] = Absent
    BY <1>1 DEF HeldFacts
  <2>2. QED BY <1>9, <2>1
<1>11. ASSUME NEW e \in Epochs, e = c
       PROVE  Kept'[e][rid] = IF Kept[e][rid] = Absent THEN Absent ELSE shut
  <2>1. CopiesOf(e, rid)' = CopiesOf(e, rid)
    BY <1>5, <1>11 DEF CopiesOf
  <2>2. CASE CopiesOf(e, rid) = {}
    BY <1>1, <1>2, <2>1, <2>2 DEF HeldFacts
  <2>3. CASE CopiesOf(e, rid) # {}
    <3>1. PICK p \in CopiesOf(e, rid) : TRUE
      BY <2>3
    <3>2. ~Deleting(e)' /\ Shutting(e)'
      BY <1>4, <1>5, <1>8, <1>11 DEF Deleting, Shutting
    <3>3. Kept'[e][rid] = [from |-> p.from, until |-> call.at]
      BY <1>2, <1>3, <1>6, <2>1, <3>1, <3>2 DEF HeldFacts
    <3>4. QED BY <1>7, <1>9, <3>1, <3>3
  <2>4. QED BY <2>2, <2>3
<1>12. ASSUME NEW e \in Epochs, NEW r \in Rid, r # rid
       PROVE  Kept'[e][r] = Kept[e][r]
  <2>1. CASE e = c
    <3>1. CopiesOf(e, r)' = CopiesOf(e, r)
      BY <1>5, <2>1 DEF CopiesOf
    <3>2. CASE CopiesOf(e, r) = {}
      BY <1>1, <1>2, <3>1, <3>2 DEF HeldFacts
    <3>3. CASE CopiesOf(e, r) # {}
      <4>1. PICK p \in CopiesOf(e, r) : TRUE
        BY <3>3
      <4>2. Kept[e][r] = [from |-> p.from, until |-> p.until]
        BY <1>1, <1>6, <1>12, <4>1 DEF HeldFacts
      <4>3. Kept'[e][r] = [from |-> p.from, until |-> p.until]
        BY <1>2, <1>3, <1>6, <1>12, <3>1, <4>1 DEF HeldFacts
      <4>4. QED BY <4>2, <4>3
    <3>4. QED BY <3>2, <3>3
  <2>2. QED BY <1>5, <2>1
<1>13. \A r \in Rid : r # rid => LastCopies'[r] = LastCopies[r]
  BY <1>1, <1>2, <1>12, SameRow
<1>14. LastCopies'[rid] # LastCopies[rid]
  BY <1>1, <1>2, <1>13 DEF LastOK
<1>15. \A e \in Epochs : Kept'[e][rid] = Absent <=> Kept[e][rid] = Absent
  BY <1>5, <1>7, <1>11
<1>16. PICK e \in Epochs : /\ Kept[e][rid] # Absent
                           /\ LastCopies[rid] = Kept[e][rid] /\ LastCopies'[rid] = Kept'[e][rid]
  BY <1>1, <1>2, <1>14, <1>15, SamePlaces
<1>17. LastCopies[rid] = acked[rid] /\ LastCopies'[rid] = shut
  BY <1>5, <1>10, <1>11, <1>14, <1>16
<1>18. LastCopies' = [LastCopies EXCEPT ![rid] = shut]
  BY <1>1, <1>2, <1>13, <1>17 DEF LastOK
<1>19. shut = [acked[rid] EXCEPT !.until = call.at]
  BY DEF shut, Closed
<1>20. LastCopies' = [LastCopies EXCEPT ![rid].until = call.at]
  BY <1>1, <1>17, <1>18, <1>19 DEF StoreTyped
<1>21. Store!Close(rid, call.at)
  BY <1>6, <1>7, <1>17, <1>20 DEF Store!Close
<1>22. QED BY <1>6, <1>21

\* An upsert is a Load of the rows it brings a first copy of.
LEMMA InsertRefines ==
  ASSUME StoreInv, NEW c \in Table, NEW chunk \in SUBSET todo[c],
         UpsertStmt(c, chunk), StoreTyped', StoreApart', LastCopies' # LastCopies
  PROVE  \E S \in (SUBSET Rid) \ {{}} : Store!Load(S)
<1> DEFINE req == Upsert(chunk)
           wait == ~Many(c)
           S == {r \in Rid : LastCopies[r] = Absent /\ LastCopies'[r] # Absent}
<1>1. StoreTyped /\ HeldFacts /\ LastOK /\ IInv /\ ServerOK
  BY StoreTypes DEF StoreTyped, StoreInv, IInv, ServerOK
<1>2. HeldFacts' /\ LastOK'
  BY DEF StoreTyped
<1>3. pc = "insert" /\ call' = call /\ Request(c, req, wait) /\ req \in Requests
  BY <1>1, RequestTypes DEF UpsertStmt
<1>4. req.kind = "upsert" /\ req.new = chunk
  BY DEF Upsert
<1> HIDE DEF req, wait
<1>5. /\ Pending(c)' = Pending(c) \cup {req} /\ Copies(c)' = Copies(c) \cup chunk
      /\ \A e \in Epochs, r \in Rid : e # c => Kept'[e][r] = Kept[e][r]
  BY <1>1, <1>2, <1>3, <1>4, SentCopies, OtherCollections
<1>6. /\ \A x \in Pending(c) : x.kind = "upsert"
      /\ \A p \in chunk : /\ p.rid \in Rid /\ p.rid \in DOMAIN call.recs
                          /\ Says(p, call.recs[p.rid])
  BY <1>3, InsertFacts
<1>7. ~Deleting(c) /\ ~Shutting(c) /\ ~Deleting(c)' /\ ~Shutting(c)'
  BY <1>4, <1>5, <1>6 DEF Deleting, Shutting
<1>8. ASSUME NEW e \in Epochs, NEW r \in Rid, Kept[e][r] # Absent
      PROVE  Kept'[e][r] = Kept[e][r]
  <2>1. CASE e = c
    <3>1. PICK p \in CopiesOf(e, r) : TRUE
      BY <1>1, <1>8 DEF HeldFacts
    <3>2. p \in CopiesOf(e, r)'
      BY <1>5, <2>1, <3>1 DEF CopiesOf
    <3>3. Kept[e][r] = [from |-> p.from, until |-> p.until]
      BY <1>1, <1>7, <2>1, <3>1 DEF HeldFacts
    <3>4. Kept'[e][r] = [from |-> p.from, until |-> p.until]
      BY <1>2, <1>7, <2>1, <3>2 DEF HeldFacts
    <3>5. QED BY <3>3, <3>4
  <2>2. QED BY <1>5, <2>1
<1>9. ASSUME NEW r \in Rid, r \notin DOMAIN call.recs
      PROVE  LastCopies'[r] = LastCopies[r]
  <2>1. ASSUME NEW e \in Epochs, Kept[e][r] = Absent
        PROVE  Kept'[e][r] = Absent
    <3>1. CASE e = c
      <4>1. CopiesOf(e, r) = {}
        <5>1. SUFFICES ASSUME NEW p \in CopiesOf(e, r) PROVE FALSE
          OBVIOUS
        <5>2. Kept[e][r] = [from |-> p.from, until |-> p.until]
          BY <1>1, <1>7, <3>1, <5>1 DEF HeldFacts
        <5>3. p \in Points
          BY <1>1, <5>1, NamesRows DEF CopiesOf
        <5>4. Kept[e][r] \in Interval
          BY <5>2, <5>3 DEF Points, Interval
        <5>5. QED BY <2>1, <5>4, AbsentAssumption
      <4>2. CopiesOf(e, r)' = {}
        BY <1>5, <1>6, <1>9, <3>1, <4>1 DEF CopiesOf
      <4>3. QED BY <1>2, <4>2 DEF HeldFacts
    <3>2. QED BY <1>5, <2>1, <3>1
  <2>2. QED BY <1>1, <1>2, <1>8, <2>1, SameRow
<1>10. ASSUME NEW r \in Rid, r \in DOMAIN call.recs, LastCopies[r] # Absent
       PROVE  LastCopies'[r] = LastCopies[r]
  <2>1. Inserting(r) /\ call.recs[r] \in Interval
    BY <1>1, <1>10 DEF IInv, RowOK, TypeOK, IsBatch
  <2>2. \A e \in Epochs : \A p \in CopiesOf(e, r) : Says(p, call.recs[r])
    BY <2>1, Tables DEF Inserting
  <2>3. r \notin call.rids
    <3>1. CASE call.op = "supersede"
      <4>1. PICK rid \in Rid, new \in Rid :
              rid # new /\ call.rids = {rid} /\ DOMAIN call.recs = {new}
        BY <1>1, <3>1, SupersedeInHand
      <4>2. QED BY <1>10, <4>1
    <3>2. CASE call.op = "write"
      BY <1>1, <3>2, LoopOf
    <3>3. QED BY <1>1, <1>3, <3>1, <3>2, LoopOf
  <2>4. ASSUME NEW e \in Epochs, NEW p \in CopiesOf(e, r)
        PROVE  [from |-> p.from, until |-> p.until] = call.recs[r]
    BY <2>1, <2>2, <2>4 DEF Says, Interval
  <2>5. \A e \in Epochs : Kept[e][r] \in {Absent, call.recs[r]}
    <3>1. ASSUME NEW e \in Epochs PROVE Kept[e][r] \in {Absent, call.recs[r]}
      <4>1. CASE CopiesOf(e, r) = {}
        BY <1>1, <4>1 DEF HeldFacts
      <4>2. CASE CopiesOf(e, r) # {}
        <5>1. PICK p \in CopiesOf(e, r) : TRUE
          BY <4>2
        <5>2. Kept[e][r] = [from |-> p.from, until |-> p.until]
          BY <1>1, <2>3, <5>1 DEF HeldFacts
        <5>3. QED BY <2>4, <5>1, <5>2
      <4>3. QED BY <4>1, <4>2
    <3>2. QED BY <3>1
  <2>6. \A e \in Epochs : Kept'[e][r] \in {Absent, call.recs[r]}
    <3>1. ASSUME NEW e \in Epochs PROVE Kept'[e][r] \in {Absent, call.recs[r]}
      <4>1. CASE CopiesOf(e, r)' = {}
        BY <1>2, <4>1 DEF HeldFacts
      <4>2. CASE CopiesOf(e, r)' # {}
        <5>1. PICK p \in CopiesOf(e, r)' : TRUE
          BY <4>2
        <5>2. p \in CopiesOf(e, r) \/ (p \in chunk /\ p.rid = r)
          <6>1. CASE e = c
            BY <1>5, <5>1, <6>1 DEF CopiesOf
          <6>2. CASE e # c
            BY <1>1, <1>3, <5>1, <6>2, SentCopies, Tables DEF CopiesOf
          <6>3. QED BY <6>1, <6>2
        <5>3. [from |-> p.from, until |-> p.until] = call.recs[r]
          BY <1>6, <2>1, <2>2, <5>2 DEF Says, Interval
        <5>4. Kept'[e][r] = [from |-> p.from, until |-> p.until]
          BY <1>2, <1>3, <2>3, <5>1 DEF HeldFacts
        <5>5. QED BY <5>3, <5>4
      <4>3. QED BY <4>1, <4>2
    <3>2. QED BY <3>1
  <2>7. LastCopies[r] = call.recs[r] /\ LastCopies'[r] \in {Absent, call.recs[r]}
    BY <1>1, <1>2, <1>10, <2>5, <2>6 DEF LastOK
  <2>8. LastCopies'[r] # Absent
    BY <1>1, <1>2, <1>8, <1>10 DEF LastOK
  <2>9. QED BY <2>7, <2>8
<1>11. \A r \in Rid : IF r \in S THEN LastCopies'[r] # Absent ELSE LastCopies'[r] = LastCopies[r]
  BY <1>9, <1>10
<1>12. S # {}
  <2>1. SUFFICES ASSUME S = {} PROVE LastCopies' = LastCopies
    OBVIOUS
  <2>2. \A r \in Rid : LastCopies'[r] = LastCopies[r]
    BY <1>11, <2>1
  <2>3. QED BY <1>1, <1>2, <2>2 DEF LastOK
<1>13. ASSUME NEW r \in S, NEW s \in Rid, s # r, ChainOf[s] = ChainOf[r], LastCopies'[s] # Absent
       PROVE  Store!Apart(LastCopies'[r], LastCopies'[s])
  BY <1>13 DEF StoreApart, SameChain, Apart, Store!Apart
<1>14. LastCopies' \in [Rid -> Interval \cup {Absent}]
  BY DEF StoreTyped
<1>15. Store!Load(S)
  BY <1>11, <1>13, <1>14 DEF Store!Load, Store!Versions, Store!Interval, Interval
<1>16. QED BY <1>12, <1>15

\* A delete is a Forget of the rows whose last collection it reaches: those
\* before it have answered.
LEMMA EraseRefines ==
  ASSUME StoreInv, StoreInv', NEW c \in Table, EraseStmt(c), StoreTyped',
         LastCopies' # LastCopies
  PROVE  \E S \in (SUBSET Rid) \ {{}} : Store!Forget(S)
<1> DEFINE req == DeletePoints(todo[c])
           S == {r \in Rid : LastCopies'[r] # LastCopies[r]}
<1>1. StoreTyped /\ HeldFacts /\ LastOK /\ IInv /\ ServerOK
  BY StoreTypes DEF StoreTyped, StoreInv, IInv, ServerOK
<1>2. HeldFacts' /\ LastOK'
  BY DEF StoreTyped
<1>3. /\ pc = "erase" /\ call' = call /\ Request(c, req, TRUE) /\ call.op = "delete"
      /\ req \in Requests /\ DOMAIN call.recs = {}
  BY <1>1, LoopOf, RequestTypes DEF EraseStmt, NoRecs
<1>4. req.kind = "delete" /\ req.new = {}
  BY DEF DeletePoints
<1> HIDE DEF req
<1>5. /\ Pending(c)' = Pending(c) \cup {req} /\ Copies(c)' = Copies(c)
      /\ \A e \in Epochs, r \in Rid : e # c => Kept'[e][r] = Kept[e][r]
  BY <1>1, <1>2, <1>3, <1>4, SentCopies, OtherCollections
<1>6. ASSUME NEW e \in Epochs, e = c, NEW r \in Rid
      PROVE  Kept'[e][r] = IF r \in call.rids THEN Absent ELSE Kept[e][r]
  <2>1. CopiesOf(e, r)' = CopiesOf(e, r) /\ Deleting(e)'
    BY <1>4, <1>5, <1>6 DEF CopiesOf, Deleting
  <2>2. CASE r \in call.rids
    BY <1>2, <1>3, <2>1, <2>2 DEF HeldFacts
  <2>3. CASE r \notin call.rids /\ CopiesOf(e, r) = {}
    BY <1>1, <1>2, <2>1, <2>3 DEF HeldFacts
  <2>4. CASE r \notin call.rids /\ CopiesOf(e, r) # {}
    <3>1. PICK p \in CopiesOf(e, r) : TRUE
      BY <2>4
    <3>2. Kept[e][r] = [from |-> p.from, until |-> p.until]
      BY <1>1, <2>4, <3>1 DEF HeldFacts
    <3>3. Kept'[e][r] = [from |-> p.from, until |-> p.until]
      BY <1>2, <1>3, <2>1, <2>4, <3>1 DEF HeldFacts
    <3>4. QED BY <2>4, <3>2, <3>3
  <2>5. QED BY <2>2, <2>3, <2>4
<1>7. ASSUME NEW r \in Rid, r \notin call.rids
      PROVE  LastCopies'[r] = LastCopies[r]
  BY <1>1, <1>2, <1>5, <1>6, <1>7, SameRow
<1>8. ASSUME NEW r \in Rid, r \in call.rids, LastCopies'[r] # LastCopies[r]
      PROVE  LastCopies[r] # Absent /\ LastCopies'[r] = Absent
  <2>1. \A e \in Epochs : e < c => Kept[e][r] = Absent
    <3>1. ASSUME NEW e \in Epochs, e < c
          PROVE  Kept[e][r] = Absent
      <4>1. e \in Table /\ Done(e)
        <5>1. todo[e] = {} \/ e \in Others(c)
          BY <3>1, Tables DEF Others
        <5>2. e \in Others(c) => c < e
          BY DEF EraseStmt, IsNext
        <5>3. ~(c < e /\ e < c)
          BY <3>1 DEF Table, Epochs, Cur
        <5>4. QED BY <3>1, <5>1, <5>2, <5>3, Tables DEF Done, EraseStmt, Ready
      <4>2. Erasing(r)
        BY <1>1, <1>3, <1>8 DEF IInv, RowOK
      <4>3. CopiesOf(e, r) = {}
        BY <1>3, <4>1, <4>2 DEF Erasing
      <4>4. QED BY <1>1, <4>3 DEF HeldFacts
    <3>2. QED BY <3>1
  <2>2. PICK e \in Epochs : /\ Kept[e][r] # Absent /\ LastCopies[r] = Kept[e][r]
                            /\ \A f \in Epochs : e < f => Kept[f][r] = Absent
    <3>1. SUFFICES ASSUME LastCopies[r] = Absent, \A e \in Epochs : Kept[e][r] = Absent
                   PROVE  FALSE
      BY <1>1 DEF LastOK
    <3>2. \A e \in Epochs : Kept'[e][r] = Kept[e][r]
      BY <1>5, <1>6, <3>1
    <3>3. QED BY <1>1, <1>2, <1>8, <3>2, SameRow
  <2>3. e = c
    <3>1. SUFFICES ASSUME e # c PROVE FALSE
      OBVIOUS
    <3>2. Kept'[e][r] = Kept[e][r] /\ \A f \in Epochs : e < f => Kept'[f][r] = Absent
      BY <1>5, <1>6, <2>2, <3>1
    <3>3. PICK f \in Epochs : /\ Kept'[f][r] # Absent /\ LastCopies'[r] = Kept'[f][r]
                              /\ \A g \in Epochs : f < g => Kept'[g][r] = Absent
      BY <1>2, <2>2, <3>2 DEF LastOK
    <3>4. ~(e < f) /\ ~(f < e)
      BY <2>2, <3>2, <3>3
    <3>5. e = f
      BY <3>4 DEF Epochs
    <3>6. QED BY <1>8, <2>2, <3>2, <3>3, <3>5
  <2>4. \A f \in Epochs : Kept'[f][r] = Absent
    <3>1. \A f \in Epochs : f < c \/ f = c \/ c < f
      BY <2>3 DEF Epochs
    <3>2. \A f \in Epochs : f # c => Kept[f][r] = Absent
      BY <2>1, <2>2, <2>3, <3>1
    <3>3. QED BY <1>5, <1>6, <1>8, <3>2
  <2>5. LastCopies'[r] = Absent
    BY <1>2, <2>4 DEF LastOK
  <2>6. QED BY <2>2, <2>5
<1>9. \A r \in Rid : LastCopies'[r] = IF r \in S THEN Absent ELSE LastCopies[r]
  BY <1>7, <1>8
<1>10. \A r \in S : LastCopies[r] # Absent
  BY <1>7, <1>8
<1>11. S # {}
  <2>1. SUFFICES ASSUME S = {} PROVE LastCopies' = LastCopies
    OBVIOUS
  <2>2. \A r \in Rid : LastCopies'[r] = LastCopies[r]
    BY <1>9, <2>1
  <2>3. QED BY <1>1, <1>2, <2>2 DEF LastOK
<1>12. S \subseteq Rid
  OBVIOUS
<1> HIDE DEF S
<1>13. LastCopies' = [r \in Rid |-> IF r \in S THEN Absent ELSE LastCopies[r]]
  BY <1>2, <1>9 DEF LastOK
<1>14. Store!Forget(S)
  BY <1>10, <1>13 DEF Store!Forget
<1>15. QED BY <1>11, <1>12, <1>14

\* Dropping a row from cur is no step of the store.
LEMMA UncurStutters ==
  ASSUME StoreInv, UncurStmt, StoreTyped'
  PROVE  LastCopies' = LastCopies
<1> DEFINE req == DeletePoints(todo[Cur])
<1>1. StoreTyped /\ HeldFacts /\ LastOK /\ IInv
  BY StoreTypes DEF StoreTyped, StoreInv
<1>2. HeldFacts' /\ LastOK'
  BY DEF StoreTyped
<1>3. call' = call /\ req \in Requests /\ Request(Cur, req, TRUE)
  BY <1>1, RequestTypes, Tables DEF UncurStmt
<1> HIDE DEF req
<1>4. \A e \in Epochs, r \in Rid : Kept'[e][r] = Kept[e][r]
  BY <1>1, <1>2, <1>3, OtherCollections, Tables
<1>5. \A r \in Rid : LastCopies'[r] = LastCopies[r]
  BY <1>1, <1>2, <1>4, SameRow
<1>6. QED BY <1>1, <1>2, <1>5 DEF LastOK

\* The constructor is a Forget of all rows.
LEMMA ReconstructRefines ==
  ASSUME StoreInv, Reconstruct, StoreTyped', LastCopies' # LastCopies
  PROVE  \E S \in (SUBSET Rid) \ {{}} : Store!Forget(S)
<1> DEFINE S == {r \in Rid : LastCopies[r] # Absent}
<1>1. LastOK
  BY LastCopyOf
<1>2. HeldFacts' /\ LastOK'
  BY DEF StoreTyped
<1>3. \A e \in Epochs : Copies(e)' = {}
  <2>1. \A c \in Table : points'[c] = {} /\ queue'[c] = <<>>
    BY DEF Reconstruct, Recreate
  <2>2. \A c \in Table : DOMAIN queue'[c] = {}
    BY <2>1, EmptySeq
  <2>3. QED BY <2>1, <2>2, Tables DEF Copies, Pending
<1>4. \A e \in Epochs, r \in Rid : Kept'[e][r] = Absent
  BY <1>2, <1>3 DEF HeldFacts, CopiesOf
<1>5. \A r \in Rid : LastCopies'[r] = Absent
  BY <1>2, <1>4 DEF LastOK
<1>6. LastCopies' = [r \in Rid |-> IF r \in S THEN Absent ELSE LastCopies[r]]
  BY <1>2, <1>5 DEF LastOK
<1>7. S # {}
  <2>1. SUFFICES ASSUME \A r \in Rid : LastCopies[r] = Absent PROVE LastCopies' = LastCopies
    OBVIOUS
  <2>2. QED BY <1>1, <1>2, <1>5, <2>1 DEF LastOK
<1>8. Store!Forget(S)
  BY <1>6 DEF Store!Forget
<1>9. QED BY <1>7, <1>8

\* Every step of the adapter or its server is a step of the version store or
\* leaves it alone.
LEMMA StepRefines ==
  ASSUME StoreInv, StoreInv', [Next]_vars, StoreTyped', StoreApart'
  PROVE  [Store!Next]_LastCopies
<1> SUFFICES ASSUME LastCopies' # LastCopies
             PROVE  Store!Next
  OBVIOUS
<1>1. CASE UNCHANGED <<points, queue>>
  BY <1>1, SameServerStore
<1>2. CASE \E c \in Table : CloseStmt(c)
  BY <1>2, CloseRefines DEF Store!Next
<1>3. CASE \E c \in Table : \E chunk \in SUBSET todo[c] : UpsertStmt(c, chunk)
  BY <1>3, InsertRefines DEF Store!Next
<1>4. CASE \E c \in Table : EraseStmt(c)
  BY <1>4, EraseRefines DEF Store!Next
<1>5. CASE UncurStmt
  BY <1>5, UncurStutters
<1>6. CASE Reconstruct
  BY <1>6, ReconstructRefines DEF Store!Next
<1>7. CASE \E c \in Table : ServerApplies(c)
  BY <1>7, ApplyStutters
<1>8. QED
  BY <1>1, <1>2, <1>3, <1>4, <1>5, <1>6, <1>7
  DEF Next, vars, Write, Supersede, Delete, Call, PopEntry, Successor, Return, Fail, Retry

\* If only deletes are repeated, the adapter's loops of requests implement the
\* version store, each request at the moment it is received: rows appear clear
\* of the other versions of their memory, are closed once and only while open,
\* and never change again, whatever the collections have still to apply.
THEOREM ImplementsStore ==
  ASSUME Retried \subseteq {"delete"}
  PROVE  Spec => StoreSpec
<1>1. Init => Store!Init
  <2> SUFFICES ASSUME Init PROVE Store!Init
    OBVIOUS
  <2>1. \A c \in Table : points[c] = {} /\ queue[c] = <<>>
    BY DEF Init, Empty
  <2>2. \A c \in Table : DOMAIN queue[c] = {}
    BY <2>1, EmptySeq
  <2>3. \A e \in Epochs : Held(e) = {}
    BY <2>1, <2>2, Tables DEF Held, Received
  <2>4. \A e \in Epochs, r \in Rid : Kept[e][r] = Absent
    BY <2>3 DEF Kept
  <2>5. \A r \in Rid : LastCopies[r] = Absent
    BY <2>4, LastCopyOf DEF LastOK
  <2>6. QED BY <2>5, LastCopyOf DEF LastOK, Store!Init
<1>2. StoreInv /\ StoreInv' /\ [Next]_vars => [Store!Next]_LastCopies
  <2>1. StoreInv' => StoreTyped' /\ StoreApart'
    BY StoreTypes, StoreIsApart, PTL
  <2>2. QED BY <2>1, StepRefines
<1>3. QED BY <1>1, <1>2, StoreInvariance, PTL DEF Spec, StoreSpec, Store!Spec
=============================================================================
