--------------------------- MODULE ValidTimeProofs --------------------------
(* Lemmas about valid-time intervals, for the proofs about the adapters.     *)
EXTENDS ValidTime, WellFoundedInduction, TLAPS

\* No instant reaches the sentinel, so it alone marks an open interval.
LEMMA OpenIsSentinel ==
  ASSUME NEW iv \in Interval
  PROVE  IsOpen(iv) <=> iv.until = TOpen
<1>1. iv.until \in Instant \cup {TOpen}
  BY DEF Interval
<1>2. CASE iv.until \in Instant
  <2>1. iv.until \in Nat /\ TOpen \in Nat /\ iv.until < TOpen
    BY <1>2, InstantAssumption
  <2>2. QED BY <2>1 DEF IsOpen
<1>3. CASE iv.until = TOpen
  BY <1>3, InstantAssumption DEF IsOpen
<1>4. QED BY <1>1, <1>2, <1>3

\* Closing an interval gives an interval that ends at the given instant and is
\* not open; closing it again at the same instant changes nothing.
LEMMA ClosedInterval ==
  ASSUME NEW iv \in Interval, NEW at \in Instant
  PROVE  /\ Closed(iv, at) \in Interval
         /\ Closed(iv, at).from = iv.from /\ Closed(iv, at).until = at
         /\ Closed(Closed(iv, at), at) = Closed(iv, at)
         /\ ~IsOpen(Closed(iv, at))
<1>1. /\ Closed(iv, at) \in Interval
      /\ Closed(iv, at).from = iv.from /\ Closed(iv, at).until = at
      /\ Closed(Closed(iv, at), at) = Closed(iv, at)
  BY DEF Closed, Interval
<1>2. QED BY <1>1, InstantAssumption DEF IsOpen

\* A row that ends at `at' instead of staying open is still apart from every
\* row it was apart from, all of which ended before it began; so is the
\* version that follows it, which is also apart from the row itself.
LEMMA ClosedStaysApart ==
  ASSUME NEW iv \in Interval, IsOpen(iv), NEW at \in Instant, iv.from <= at,
         NEW other \in Interval, Apart(iv, other) \/ Apart(other, iv)
  PROVE  /\ Apart(Closed(iv, at), other)
         /\ Apart([from |-> at, until |-> TOpen], other)
<1>1. /\ iv.from \in Nat /\ at \in Nat /\ other.from \in Nat /\ other.until \in Nat
      /\ iv.until = TOpen /\ other.from < TOpen
  <2>1. /\ iv.from \in Instant /\ other.from \in Instant
        /\ iv.until \in Instant \cup {TOpen} /\ other.until \in Instant \cup {TOpen}
    BY DEF Interval
  <2>2. iv.until = TOpen
    BY OpenIsSentinel
  <2>3. QED BY <2>1, <2>2, InstantAssumption
<1>2. other.until <= iv.from
  BY <1>1, InstantAssumption DEF Apart
<1>3. Closed(iv, at).from = iv.from
  BY ClosedInterval
<1>4. QED BY <1>1, <1>2, <1>3 DEF Apart

\* A version that was closed and its successor are apart.
LEMMA SuccessorApart ==
  ASSUME NEW iv \in Interval, NEW at \in Instant
  PROVE  Apart(Closed(iv, at), [from |-> at, until |-> TOpen])
<1>1. Closed(iv, at).until = at /\ at \in Nat
  BY ClosedInterval, InstantAssumption
<1>2. QED BY <1>1 DEF Apart

\* Two intervals that are apart are never valid at the same instant, nor open
\* together.
LEMMA ApartNotTogether ==
  ASSUME NEW a \in Interval, NEW b \in Interval, Apart(a, b)
  PROVE  /\ \A t \in Instant : ~(ValidAt(a, t) /\ ValidAt(b, t))
         /\ ~(a.until = TOpen /\ b.until = TOpen)
<1>1. /\ a.from \in Nat /\ b.from \in Nat /\ a.until \in Nat /\ b.until \in Nat
      /\ TOpen \in Nat /\ a.from < TOpen /\ b.from < TOpen /\ Instant \subseteq Nat
  BY InstantAssumption DEF Interval
<1>2. QED BY <1>1 DEF Apart, ValidAt

\* A non-empty set of epochs has a last one.
LEMMA LastOf ==
  ASSUME NEW n \in Nat, NEW S \in SUBSET (0 .. n), S # {}
  PROVE  \E e \in S : \A f \in S : f <= e
<1> DEFINE Below == OpToRel(<, Nat)
           T == {m \in Nat : n - m \in S}
<1>1. IsWellFoundedOn(Below, Nat)
  BY NatLessThanWellFounded
<1>2. \A x, y \in Nat : y < x => <<y, x>> \in Below
  BY DEF OpToRel
<1> HIDE DEF Below
<1>3. ASSUME NEW e \in S
      PROVE  e \in Nat /\ e <= n /\ n - e \in T
  <2>1. e \in Nat /\ e <= n /\ n - e \in Nat
    OBVIOUS
  <2>2. n - (n - e) = e
    BY <2>1
  <2>3. QED BY <2>1, <2>2
<1>4. T \subseteq Nat
  OBVIOUS
<1>5. T # {}
  BY <1>3
<1>6. PICK x \in T : \A y \in T : ~ (<<y, x>> \in Below)
  <2> HIDE DEF T
  <2> QED BY <1>1, <1>4, <1>5, WFMin
<1>7. \A y \in T : ~(y < x)
  BY <1>2, <1>4, <1>6
<1>8. n - x \in S /\ x \in Nat
  OBVIOUS
<1>9. ASSUME NEW f \in S
      PROVE  f <= n - x
  <2>1. f \in Nat /\ x \in Nat /\ ~(n - f < x)
    BY <1>3, <1>7, <1>8
  <2>2. QED BY <2>1
<1>10. QED BY <1>8, <1>9
=============================================================================
