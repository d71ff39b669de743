-------------------------- MODULE ChainCorpusProofs -------------------------
(* Proofs about the chain corpus, for every number of chains and versions    *)
(* and every epoch length.                                                   *)
EXTENDS ChainCorpus, TLAPS

\* Division with remainder.
LEMMA Division ==
  ASSUME NEW a \in Nat, NEW n \in Nat, NEW r \in Nat, r < n
  PROVE  (a * n + r) \div n = a
  OBVIOUS

LEMMA Remainder ==
  ASSUME NEW i \in Nat, NEW n \in Nat, 0 < n
  PROVE  /\ i \div n \in Nat /\ i % n \in Nat /\ i % n < n
         /\ (i \div n) * n + (i % n) = i
<1>1. i \div n \in Nat /\ i % n \in Nat /\ i % n < n
  OBVIOUS
<1>2. QED BY <1>1

\* A version number is an epoch number, and epochs do not overlap.
LEMMA EpochOfVersion ==
  ASSUME NEW v \in Version
  PROVE  /\ v \in Nat /\ Depth \in Nat /\ v <= MaxEpoch /\ v \in Epochs
         /\ Epoch \in Nat /\ Epoch > 0 /\ Depth = MaxEpoch + 1
         /\ v * Epoch \in Nat /\ (v + 1) * Epoch \in Nat
         /\ (v + 1) * Epoch = v * Epoch + Epoch
         /\ (v + 1) * Epoch <= Depth * Epoch
         /\ (v + 1) * Epoch < TOpen
<1>1. /\ v \in Nat /\ Depth \in Nat /\ MaxEpoch \in Nat /\ v <= MaxEpoch /\ v \in Epochs
      /\ Epoch \in Nat /\ Epoch > 0 /\ Depth = MaxEpoch + 1 /\ TOpen \in Nat
  BY EpochAssumption, InstantAssumption DEF Version, Depth, Epochs
<1>2. v * Epoch \in Nat /\ (v + 1) * Epoch \in Nat /\ (v + 1) * Epoch = v * Epoch + Epoch
  BY <1>1
<1>3. (v + 1) * Epoch <= Depth * Epoch
  <2>1. v + 1 <= Depth /\ v + 1 \in Nat
    BY <1>1
  <2> HIDE DEF Depth
  <2>2. QED BY <1>1, <2>1
<1>4. Depth * Epoch \in Nat /\ Depth * Epoch < TOpen
  BY <1>1, CorpusAssumption
<1>5. QED BY <1>1, <1>2, <1>3, <1>4

\* A product with the epoch length grows with the other factor.
LEMMA EpochsAscend ==
  ASSUME NEW a \in Nat, NEW b \in Nat, a < b
  PROVE  (a + 1) * Epoch <= b * Epoch
<1>1. Epoch \in Nat /\ a + 1 <= b
  BY EpochAssumption
<1>2. QED BY <1>1

\* The versions of a chain tile the time line: at every instant one of them is
\* valid, and only one.  A read as of t that returns a row per chain is then
\* neither stale nor short.
THEOREM OneVersionAtATime ==
  \A t \in Nat : t < TOpen =>
    \E v \in Version :
      /\ ValidAt(VersionInterval(v), t)
      /\ \A w \in Version : ValidAt(VersionInterval(w), t) => w = v
<1> SUFFICES ASSUME NEW t \in Nat, t < TOpen
             PROVE  \E v \in Version :
                      /\ ValidAt(VersionInterval(v), t)
                      /\ \A w \in Version : ValidAt(VersionInterval(w), t) => w = v
  OBVIOUS
<1> DEFINE v == IF t \div Epoch < MaxEpoch THEN t \div Epoch ELSE MaxEpoch
<1>1. /\ t \div Epoch \in Nat /\ (t \div Epoch) * Epoch <= t
      /\ t < (t \div Epoch) * Epoch + Epoch
      /\ Epoch \in Nat /\ Epoch > 0 /\ MaxEpoch \in Nat /\ Depth = MaxEpoch + 1
  BY EpochAssumption DEF Depth
<1>2. v \in Version
  BY <1>1 DEF Version
<1>3. v * Epoch <= t
  <2>1. CASE t \div Epoch < MaxEpoch
    BY <1>1, <2>1
  <2>2. CASE ~(t \div Epoch < MaxEpoch)
    <3>1. v = MaxEpoch /\ MaxEpoch <= t \div Epoch
      BY <1>1, <2>2
    <3>2. MaxEpoch * Epoch <= (t \div Epoch) * Epoch
      BY <1>1, <3>1
    <3>3. QED BY <1>1, <3>1, <3>2
  <2>3. QED BY <2>1, <2>2
<1>4. v # MaxEpoch => t < (v + 1) * Epoch
  <2>1. v # MaxEpoch => v = t \div Epoch
    BY <1>1
  <2>2. (t \div Epoch + 1) * Epoch = (t \div Epoch) * Epoch + Epoch
    BY <1>1
  <2>3. QED BY <1>1, <2>1, <2>2
<1>5. ValidAt(VersionInterval(v), t)
  <2>1. CASE v = MaxEpoch
    BY <1>1, <1>3, <2>1 DEF ValidAt, VersionInterval
  <2>2. CASE v # MaxEpoch
    <3>1. v # Depth - 1
      BY <1>1, <2>2
    <3>2. QED BY <1>3, <1>4, <2>2, <3>1 DEF ValidAt, VersionInterval
  <2>3. QED BY <2>1, <2>2
<1>6. ASSUME NEW w \in Version, ValidAt(VersionInterval(w), t)
      PROVE  w = v
  <2> HIDE DEF v
  <2>1. w \in Nat /\ v \in Nat /\ w <= MaxEpoch /\ v <= MaxEpoch
    BY <1>1, <1>2 DEF Version
  <2>2. w * Epoch <= t /\ w * Epoch \in Nat /\ v * Epoch \in Nat
    BY <1>1, <1>6, <2>1 DEF ValidAt, VersionInterval
  <2>3. ~(v < w)
    <3> SUFFICES ASSUME v < w PROVE FALSE
      OBVIOUS
    <3>1. v # MaxEpoch /\ (v + 1) * Epoch <= w * Epoch
      BY <2>1, <1>1, EpochsAscend
    <3>2. (v + 1) * Epoch \in Nat
      BY <1>1, <2>1
    <3>3. QED BY <1>4, <2>2, <3>1, <3>2
  <2>4. ~(w < v)
    <3> SUFFICES ASSUME w < v PROVE FALSE
      OBVIOUS
    <3>1. w # Depth - 1 /\ (w + 1) * Epoch <= v * Epoch /\ (w + 1) * Epoch \in Nat
      BY <2>1, <1>1, EpochsAscend
    <3>2. t < (w + 1) * Epoch
      BY <1>6, <3>1 DEF ValidAt, VersionInterval
    <3>3. QED BY <1>3, <2>2, <3>1, <3>2
  <2>5. QED BY <2>1, <2>3, <2>4
<1>7. QED BY <1>2, <1>5, <1>6

\* "On the epoch-aligned H4 corpus each closed version lands in exactly one
\* epoch; the tax is the cur duplication": version v is placed in the table of
\* epoch v and in no other, the last one in cur as well.
THEOREM EachVersionInItsEpoch ==
  \A v \in Version :
    /\ EpochsFor(VersionInterval(v)) = {v}
    /\ Cur \in TablesOf(VersionInterval(v)) <=> v = Depth - 1
<1> SUFFICES ASSUME NEW v \in Version
             PROVE  /\ EpochsFor(VersionInterval(v)) = {v}
                    /\ Cur \in TablesOf(VersionInterval(v)) <=> v = Depth - 1
  OBVIOUS
<1> DEFINE iv == VersionInterval(v)
<1>1. /\ v \in Nat /\ v <= MaxEpoch /\ v \in Epochs /\ MaxEpoch \in Nat
      /\ Epoch \in Nat /\ Epoch > 0 /\ Depth = MaxEpoch + 1 /\ TOpen \in Nat
      /\ v * Epoch \in Nat /\ (v + 1) * Epoch \in Nat
      /\ (v + 1) * Epoch = v * Epoch + Epoch /\ (v + 1) * Epoch < TOpen
  BY EpochOfVersion, EpochAssumption, InstantAssumption
<1>2. iv.from = v * Epoch /\ FirstEpoch(iv.from) = v
  <2>1. (v * Epoch) \div Epoch = v
    BY <1>1
  <2>2. QED BY <1>1, <2>1 DEF VersionInterval, FirstEpoch
<1>3. IsOpen(iv) <=> v = Depth - 1
  BY <1>1 DEF IsOpen, VersionInterval
<1>4. v # Depth - 1 => (iv.until - 1) \div Epoch = v
  <2>1. (v * Epoch + (Epoch - 1)) \div Epoch = v
    BY <1>1
  <2>2. QED BY <1>1, <2>1 DEF VersionInterval
<1>5. EpochsFor(iv) = {v}
  <2> HIDE DEF iv
  <2>1. CASE v = Depth - 1
    BY <1>1, <1>2, <1>3, <2>1 DEF EpochsFor, Epochs
  <2>2. CASE v # Depth - 1
    BY <1>1, <1>2, <1>3, <1>4, <2>2 DEF EpochsFor, Epochs
  <2>3. QED BY <2>1, <2>2
<1>6. Cur \in TablesOf(iv) <=> IsOpen(iv)
  BY EpochAssumption DEF TablesOf, EpochsFor, Epochs, Cur
<1>7. QED BY <1>3, <1>5, <1>6

\* The two instants the drivers measure at lie inside the horizon, in the
\* epoch of the middle version and of the last: each read is routed to an
\* epoch table, where the reads of the partitioned adapters are exact.
THEOREM ProbesInsideHorizon ==
  ASSUME Epoch > 1
  PROVE  /\ TMid \in Nat /\ TNow \in Nat
         /\ TMid < Horizon /\ TNow < Horizon
         /\ Route(TNow) = MaxEpoch
<1>1. /\ Epoch \in Nat /\ Epoch > 0 /\ MaxEpoch \in Nat /\ Depth = MaxEpoch + 1
      /\ Half(Epoch) \in Nat /\ 0 < Half(Epoch) /\ Half(Epoch) < Epoch
  BY EpochAssumption DEF Depth, Half
<1> DEFINE mid == IF Half(Depth) > 1 THEN Half(Depth) ELSE 1
<1>2. mid \in Nat /\ mid >= 1 /\ mid <= Depth
  BY <1>1 DEF Half
<1>3. TMid \in Nat /\ TMid < Horizon
  <2>1. TMid = mid * Epoch - Half(Epoch)
    BY DEF TMid
  <2> HIDE DEF mid
  <2>2. mid * Epoch >= Epoch /\ mid * Epoch <= Depth * Epoch
    BY <1>1, <1>2
  <2>3. mid * Epoch \in Nat /\ Horizon = Depth * Epoch /\ Depth * Epoch \in Nat
    BY <1>1, <1>2 DEF Horizon
  <2>4. QED BY <1>1, <2>1, <2>2, <2>3
<1>4. /\ TNow \in Nat /\ TNow < Horizon /\ Route(TNow) = MaxEpoch
  <2>1. TNow = MaxEpoch * Epoch + Half(Epoch) /\ MaxEpoch * Epoch \in Nat
    BY <1>1 DEF TNow
  <2>2. Horizon = MaxEpoch * Epoch + Epoch
    BY <1>1 DEF Horizon
  <2>3. (MaxEpoch * Epoch + Half(Epoch)) \div Epoch = MaxEpoch
    BY <1>1, Division
  <2>4. QED BY <1>1, <2>1, <2>2, <2>3 DEF Route
<1>5. QED BY <1>3, <1>4

\* With at most a hundred versions and a million chains, the row whose interval
\* a hit is judged by is the row the hit came from.
THEOREM JudgedByItsRow ==
  ASSUME Depth <= VersionLimit, NLogical <= ChainLimit
  PROVE  \A i \in Row : JudgedRow(i) = i
<1> SUFFICES ASSUME NEW i \in Row
             PROVE  JudgedRow(i) = i
  OBVIOUS
<1>1. /\ i \in Nat /\ Depth \in Nat /\ Depth > 0 /\ NLogical \in Nat
      /\ i < NLogical * Depth
  BY EpochAssumption, CorpusAssumption DEF Row, Depth
<1>2. /\ i \div Depth \in Nat /\ i % Depth \in Nat /\ i % Depth < Depth
      /\ (i \div Depth) * Depth + (i % Depth) = i
  BY <1>1, Remainder
<1>3. i \div Depth < NLogical
  BY <1>1, <1>2
<1>4. ParsedRid(ChainOfRow(i), VersionOfRow(i)) = <<i \div Depth, i % Depth>>
  BY <1>1, <1>2, <1>3 DEF ParsedRid, ChainOfRow, VersionOfRow, ChainLimit, VersionLimit
<1>5. QED BY <1>2, <1>4 DEF JudgedRow
=============================================================================
