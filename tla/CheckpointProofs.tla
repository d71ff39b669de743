--------------------------- MODULE CheckpointProofs -------------------------
(* Proofs about the resumable drivers, for every plan of sizes and variants, *)
(* any number of runs, and appends that may reach the disk in part, and      *)
(* about the audit of the numbers they leave.                                *)
EXTENDS NumbersAudit, SequenceTheorems, WellFoundedInduction, TLAPS

-----------------------------------------------------------------------------
(* The plan.                                                                 *)

\* Division with remainder tells two numbers apart, and is monotonic.
LEMMA QuotientRemainder ==
  ASSUME NEW L \in Nat, 0 < L, NEW a \in Nat, NEW b \in Nat
  PROVE  /\ a \div L \in Nat /\ a % L \in 0 .. L - 1
         /\ a <= b => a \div L <= b \div L
         /\ a \div L = b \div L /\ a % L = b % L => a = b
<1>1. /\ a \div L \in Nat /\ b \div L \in Nat
      /\ a % L \in 0 .. L - 1 /\ b % L \in 0 .. L - 1
  OBVIOUS
<1>2. a = L * (a \div L) + (a % L) /\ b = L * (b \div L) + (b % L)
  BY <1>1
<1>3. a <= b => a \div L <= b \div L
  OBVIOUS
<1>4. QED BY <1>1, <1>2, <1>3

\* The quotient of a number below a multiple is below the factor.
LEMMA QuotientBound ==
  ASSUME NEW L \in Nat, 0 < L, NEW n \in Nat, NEW a \in Nat, a < n * L
  PROVE  a \div L < n
  OBVIOUS

\* The plan of a sweep is a sequence of units, names no unit twice, and visits
\* the variants of one size together.
LEMMA PlanFacts ==
  ASSUME NEW ns \in SizeLists
  PROVE  /\ PlanOf(ns) \in Seq(VariantUnits)
         /\ Len(PlanOf(ns)) \in Nat
         /\ DOMAIN PlanOf(ns) = 1 .. Len(PlanOf(ns))
         /\ \A i \in DOMAIN PlanOf(ns) : PlanOf(ns)[i] \in VariantUnits
         /\ \A i, j \in DOMAIN PlanOf(ns) : PlanOf(ns)[i] = PlanOf(ns)[j] => i = j
         /\ \A i, j, k \in DOMAIN PlanOf(ns) :
              i <= j /\ j <= k /\ PlanOf(ns)[i][2] = PlanOf(ns)[k][2]
                => PlanOf(ns)[j][2] = PlanOf(ns)[i][2]
<1> DEFINE L == Len(Variants)
           n == Len(ns)
           P == PlanOf(ns)
<1>1. /\ L \in Nat /\ DOMAIN Variants = 1 .. L
      /\ n \in Nat /\ DOMAIN ns = 1 .. n
      /\ \A i \in 1 .. n : ns[i] \in AllSizes
  <2>1. Variants \in Seq({Variants[i] : i \in DOMAIN Variants} \ {"oracle"})
    BY NamesAssumption
  <2>2. ns \in Seq(AllSizes)
    BY NamesAssumption
  <2>3. QED BY <2>1, <2>2, LenProperties, ElementOfSeq
<1>2. n * L \in Nat
  BY <1>1
<1>3. P = [i \in 1 .. n * L |-> <<Variants[((i - 1) % L) + 1], ns[((i - 1) \div L) + 1]>>]
  BY DEF PlanOf
<1> HIDE DEF L, n, P
<1>4. ASSUME NEW i \in 1 .. n * L
      PROVE  /\ L > 0 /\ i - 1 \in Nat
             /\ ((i - 1) % L) + 1 \in 1 .. L /\ ((i - 1) \div L) + 1 \in 1 .. n
  <2>1. i \in Nat /\ i - 1 \in Nat /\ i - 1 < n * L /\ L > 0
    BY <1>1, <1>2
  <2>2. (i - 1) \div L < n
    BY <1>1, <2>1, QuotientBound
  <2>3. (i - 1) % L \in 0 .. L - 1 /\ (i - 1) \div L \in Nat
    BY <1>1, <2>1, QuotientRemainder
  <2>4. QED BY <1>1, <2>1, <2>2, <2>3
<1>5. ASSUME NEW i \in 1 .. n * L PROVE P[i] \in VariantUnits
  BY <1>1, <1>3, <1>4, <1>5 DEF VariantUnits
<1>6. P \in Seq(VariantUnits)
  <2>1. P \in [1 .. n * L -> VariantUnits]
    BY <1>3, <1>5
  <2>2. QED BY <1>2, <2>1, SeqDef
<1>7. Len(P) = n * L /\ DOMAIN P = 1 .. n * L
  <2>1. DOMAIN P = 1 .. n * L
    BY <1>3
  <2>2. Len(P) \in Nat /\ DOMAIN P = 1 .. Len(P)
    BY <1>6, LenProperties
  <2>3. QED BY <1>2, <2>1, <2>2
<1>8. ASSUME NEW i \in 1 .. n * L, NEW j \in 1 .. n * L, P[i] = P[j]
      PROVE  i = j
  <2>1. /\ Variants[((i - 1) % L) + 1] = Variants[((j - 1) % L) + 1]
        /\ ns[((i - 1) \div L) + 1] = ns[((j - 1) \div L) + 1]
    BY <1>3, <1>8
  <2>2. ((i - 1) % L) + 1 = ((j - 1) % L) + 1
    BY <1>1, <1>4, <2>1, PlanAssumption
  <2>3. ((i - 1) \div L) + 1 = ((j - 1) \div L) + 1
    BY <1>1, <1>4, <2>1, PlanAssumption
  <2>4. /\ (i - 1) % L \in Nat /\ (j - 1) % L \in Nat
        /\ (i - 1) \div L \in Nat /\ (j - 1) \div L \in Nat
    BY <1>1, <1>4, QuotientRemainder
  <2>5. (i - 1) % L = (j - 1) % L /\ (i - 1) \div L = (j - 1) \div L
    BY <2>2, <2>3, <2>4
  <2>6. i - 1 = j - 1
    BY <1>1, <1>4, <2>5, QuotientRemainder
  <2>7. QED BY <2>6
<1>9. ASSUME NEW i \in 1 .. n * L, NEW j \in 1 .. n * L, NEW k \in 1 .. n * L,
             i <= j, j <= k, P[i][2] = P[k][2]
      PROVE  P[j][2] = P[i][2]
  <2>1. /\ P[i][2] = ns[((i - 1) \div L) + 1]
        /\ P[j][2] = ns[((j - 1) \div L) + 1]
        /\ P[k][2] = ns[((k - 1) \div L) + 1]
    BY <1>3
  <2>2. ((i - 1) \div L) + 1 = ((k - 1) \div L) + 1
    <3>1. ns[((i - 1) \div L) + 1] = ns[((k - 1) \div L) + 1]
      BY <1>9, <2>1
    <3>2. ((i - 1) \div L) + 1 \in DOMAIN ns /\ ((k - 1) \div L) + 1 \in DOMAIN ns
      BY <1>1, <1>4
    <3>3. QED BY <3>1, <3>2, PlanAssumption
  <2>3. i - 1 <= j - 1 /\ j - 1 <= k - 1
    BY <1>9
  <2>4. /\ (i - 1) \div L <= (j - 1) \div L /\ (j - 1) \div L <= (k - 1) \div L
        /\ (i - 1) \div L \in Nat /\ (j - 1) \div L \in Nat /\ (k - 1) \div L \in Nat
    BY <1>1, <1>4, <2>3, QuotientRemainder
  <2>5. (i - 1) \div L = (j - 1) \div L
    BY <2>2, <2>4
  <2>6. QED BY <2>1, <2>5
<1>10. QED BY <1>2, <1>5, <1>6, <1>7, <1>8, <1>9 DEF P

\* The state's own plan.
LEMMA ThePlan ==
  ASSUME sizes \in SizeLists
  PROVE  /\ Len(Plan) \in Nat /\ DOMAIN Plan = 1 .. Len(Plan)
         /\ \A i \in DOMAIN Plan : Plan[i] \in VariantUnits
         /\ \A i, j \in DOMAIN Plan : Plan[i] = Plan[j] => i = j
         /\ \A i, j, k \in DOMAIN Plan :
              i <= j /\ j <= k /\ Plan[i][2] = Plan[k][2] => Plan[j][2] = Plan[i][2]
  BY PlanFacts DEF Plan

\* Units, anchors and the lack of a unit are different things.
LEMMA Names ==
  /\ NoUnit \notin Units
  /\ \A u \in VariantUnits : u \notin Oracles /\ u[2] \in AllSizes /\ u[2] # NoSize /\ u \in Units
  /\ \A M, N \in AllSizes : Oracle(M) = Oracle(N) => M = N
  /\ \A N \in AllSizes : Oracle(N) \in Oracles /\ (Anchored => Oracle(N) \in Units)
<1>1. \A i \in DOMAIN Variants : Variants[i] # "oracle"
  <2>1. Variants \in Seq({Variants[i] : i \in DOMAIN Variants} \ {"oracle"})
    BY NamesAssumption
  <2>2. QED BY <2>1, LenProperties, ElementOfSeq
<1>2. \A u \in VariantUnits : u \notin Oracles /\ u[2] \in AllSizes
  BY <1>1 DEF VariantUnits, Oracles, Oracle
<1>3. \A u \in Units : u[2] \in AllSizes
  BY DEF Units, VariantUnits, Oracles, Oracle
<1>4. NoUnit[2] \notin AllSizes
  BY NamesAssumption DEF NoUnit
<1>5. \A M, N \in AllSizes : Oracle(M) = Oracle(N) => M = N
  BY DEF Oracle
<1>6. QED BY <1>2, <1>3, <1>4, <1>5, NamesAssumption DEF Units, Oracles

\* No variant is called like the anchor.
LEMMA VariantNames == "oracle" \notin {Variants[i] : i \in DOMAIN Variants}
<1>1. Variants \in Seq({Variants[i] : i \in DOMAIN Variants} \ {"oracle"})
  BY NamesAssumption
<1>2. QED BY <1>1, LenProperties, ElementOfSeq

-----------------------------------------------------------------------------
(* Appending.                                                                *)

\* What an append may leave of unit u: its rows in their places, or junk.
IsPartOf(new, u, e) ==
  /\ new \in Seq(Line)
  /\ \A k \in DOMAIN new : new[k] = Junk \/ new[k] = [unit |-> u, row |-> k, env |-> e]

LEMMA JunkIsALine ==
  /\ Junk \in Line
  /\ \A l \in Line : l # Junk => l.unit \in Units /\ l.unit # NoUnit /\ l.row \in 1 .. RowsOf(l.unit)
  /\ Junk.unit = NoUnit
<1>1. \A l \in Line : l # Junk => l.unit \in Units /\ l.row \in 1 .. RowsPerUnit /\ l.row <= RowsOf(l.unit)
  BY DEF Line
<1>2. \A u : RowsOf(u) \in Nat
  BY BoundAssumption DEF RowsOf
<1>3. QED BY <1>1, <1>2, Names, BoundAssumption DEF Line, Junk

\* The whole lines of a unit.
LEMMA WholeUnit ==
  ASSUME NEW u \in Units, NEW e \in Envs
  PROVE  /\ IsPartOf(UnitLines(u, e), u, e)
         /\ UnitLines(u, e) # <<>>
         /\ Len(UnitLines(u, e)) = RowsOf(u) /\ RowsOf(u) \in Nat /\ RowsOf(u) > 0
         /\ \A k \in 1 .. RowsOf(u) : UnitLines(u, e)[k] = [unit |-> u, row |-> k, env |-> e]
<1>1. RowsOf(u) \in Nat /\ RowsOf(u) > 0 /\ RowsOf(u) <= RowsPerUnit
  BY BoundAssumption DEF RowsOf
<1>2. \A k \in 1 .. RowsOf(u) : UnitLines(u, e)[k] = [unit |-> u, row |-> k, env |-> e]
  BY DEF UnitLines
<1>3. \A k \in 1 .. RowsOf(u) : [unit |-> u, row |-> k, env |-> e] \in Line
  BY <1>1, BoundAssumption DEF Line
<1>4. UnitLines(u, e) \in [1 .. RowsOf(u) -> Line]
  BY <1>3 DEF UnitLines
<1>5. UnitLines(u, e) \in Seq(Line)
  BY <1>1, <1>4, SeqDef
<1>6. DOMAIN UnitLines(u, e) = 1 .. RowsOf(u)
  BY DEF UnitLines
<1>7. Len(UnitLines(u, e)) = RowsOf(u)
  <2>1. Len(UnitLines(u, e)) \in Nat /\ DOMAIN UnitLines(u, e) = 1 .. Len(UnitLines(u, e))
    BY <1>5, LenProperties
  <2>2. QED BY <1>1, <1>6, <2>1
<1>8. UnitLines(u, e) # <<>>
  BY <1>1, <1>7, EmptySeq
<1>9. QED BY <1>1, <1>2, <1>5, <1>6, <1>7, <1>8 DEF IsPartOf

\* What is left of it when the machine goes down.
LEMMA TornUnit ==
  ASSUME NEW u \in Units, NEW e \in Envs, NEW t \in Torn(UnitLines(u, e))
  PROVE  IsPartOf(t.new, u, e) /\ t.cut \in BOOLEAN
<1> DEFINE full == UnitLines(u, e)
<1>1. /\ full \in Seq(Line) /\ Len(full) \in Nat
      /\ \A k \in 1 .. Len(full) : full[k] = [unit |-> u, row |-> k, env |-> e]
  BY WholeUnit DEF IsPartOf
<1> HIDE DEF full
<1>2. ASSUME NEW n \in 0 .. Len(full)
      PROVE  /\ SubSeq(full, 1, n) \in Seq(Line) /\ Len(SubSeq(full, 1, n)) = n
             /\ \A k \in 1 .. n : SubSeq(full, 1, n)[k] = full[k]
  <2>1. \A k \in 1 .. n : full[k] \in Line
    BY <1>1, ElementOfSeq
  <2>2. QED BY <2>1, <1>1, SubSeqProperties
<1>3. CASE \E n \in 0 .. Len(full), c \in BOOLEAN : t = [new |-> SubSeq(full, 1, n), cut |-> c]
  <2>1. PICK n \in 0 .. Len(full), c \in BOOLEAN : t = [new |-> SubSeq(full, 1, n), cut |-> c]
    BY <1>3
  <2>2. t.new = SubSeq(full, 1, n) /\ t.cut = c
    BY <2>1
  <2>3. DOMAIN t.new = 1 .. n
    BY <2>2, <1>2, LenProperties
  <2>4. QED BY <1>1, <1>2, <2>2, <2>3 DEF IsPartOf
<1>4. CASE \E n \in 0 .. Len(full) - 1 :
             t = [new |-> Append(SubSeq(full, 1, n), Junk), cut |-> TRUE]
  <2>1. PICK n \in 0 .. Len(full) - 1 :
              t = [new |-> Append(SubSeq(full, 1, n), Junk), cut |-> TRUE]
    BY <1>4
  <2>2. t.new = Append(SubSeq(full, 1, n), Junk) /\ t.cut = TRUE
    BY <2>1
  <2>3. /\ SubSeq(full, 1, n) \in Seq(Line) /\ Len(SubSeq(full, 1, n)) = n
        /\ \A k \in 1 .. n : SubSeq(full, 1, n)[k] = full[k]
    BY <1>1, <1>2
  <2> DEFINE s == SubSeq(full, 1, n)
  <2> HIDE DEF s
  <2>4. /\ Append(s, Junk) \in Seq(Line) /\ Len(Append(s, Junk)) = n + 1
        /\ \A k \in 1 .. n : Append(s, Junk)[k] = s[k]
        /\ Append(s, Junk)[n + 1] = Junk
    BY <2>3, JunkIsALine, AppendProperties DEF s
  <2>5. DOMAIN t.new = 1 .. n + 1
    BY <2>2, <2>4, LenProperties DEF s
  <2>6. ASSUME NEW k \in 1 .. n + 1
        PROVE  t.new[k] = Junk \/ t.new[k] = [unit |-> u, row |-> k, env |-> e]
    <3>1. k = n + 1 \/ k \in 1 .. n
      OBVIOUS
    <3>2. CASE k = n + 1
      BY <2>2, <2>4, <3>2 DEF s
    <3>3. CASE k \in 1 .. n
      BY <1>1, <2>2, <2>3, <2>4, <3>3 DEF s
    <3>4. QED BY <3>1, <3>2, <3>3
  <2>7. QED BY <2>2, <2>4, <2>5, <2>6 DEF IsPartOf, s
<1>5. QED BY <1>3, <1>4 DEF Torn, full

LEMMA NonEmptyFile ==
  ASSUME NEW s \in Seq(Line)
  PROVE  /\ Len(s) \in Nat /\ DOMAIN s = 1 .. Len(s)
         /\ s # <<>> <=> Len(s) > 0
<1>1. Len(s) \in Nat /\ DOMAIN s = 1 .. Len(s)
  BY LenProperties
<1>2. s # <<>> => Len(s) > 0
  BY EmptySeq
<1>3. Len(s) > 0 => s # <<>>
  BY EmptySeq
<1>4. QED BY <1>1, <1>2, <1>3

\* Two pieces of a file, one behind the other.
LEMMA FileConcat ==
  ASSUME NEW a \in Seq(Line), NEW b \in Seq(Line)
  PROVE  /\ a \o b \in Seq(Line)
         /\ a # <<>> \/ b # <<>> => a \o b # <<>>
         /\ \A i \in DOMAIN a : i \in DOMAIN (a \o b)
         /\ \A k \in DOMAIN b : Len(a) + k \in DOMAIN (a \o b) /\ (a \o b)[Len(a) + k] = b[k]
         /\ \A i \in DOMAIN (a \o b) :
              /\ i \in Nat
              /\ i \in DOMAIN a => (a \o b)[i] = a[i]
              /\ i \notin DOMAIN a => i - Len(a) \in DOMAIN b /\ (a \o b)[i] = b[i - Len(a)]
<1>1. PICK m \in Nat : m = Len(a) /\ DOMAIN a = 1 .. m /\ (a # <<>> <=> m > 0)
  BY NonEmptyFile
<1>2. PICK n \in Nat : n = Len(b) /\ DOMAIN b = 1 .. n /\ (b # <<>> <=> n > 0)
  BY NonEmptyFile
<1> DEFINE s == a \o b
<1>3. s \in Seq(Line) /\ Len(s) = Len(a) + Len(b)
  BY ConcatProperties
<1>4. \A i \in 1 .. Len(a) + Len(b) : s[i] = IF i <= Len(a) THEN a[i] ELSE b[i - Len(a)]
  BY ConcatProperties
<1> HIDE DEF s
<1>5. Len(s) = m + n
  BY <1>1, <1>2, <1>3
<1>6. DOMAIN s = 1 .. m + n /\ (s # <<>> <=> m + n > 0)
  BY <1>3, <1>5, NonEmptyFile
<1>7. \A i \in 1 .. m + n : s[i] = IF i <= m THEN a[i] ELSE b[i - m]
  BY <1>1, <1>2, <1>4
<1>8. a # <<>> \/ b # <<>> => s # <<>>
  BY <1>1, <1>2, <1>6
<1>9. ASSUME NEW i \in DOMAIN s
      PROVE  /\ i \in Nat
             /\ i \in DOMAIN a => s[i] = a[i]
             /\ i \notin DOMAIN a => i - m \in DOMAIN b /\ s[i] = b[i - m]
  <2>1. i \in Nat /\ i \in 1 .. m + n
    BY <1>6
  <2>2. (i \in DOMAIN a <=> i <= m) /\ (~(i <= m) => i - m \in DOMAIN b)
    BY <1>1, <1>2, <2>1
  <2>3. QED BY <1>7, <2>1, <2>2
<1>10. \A i \in DOMAIN a : i \in DOMAIN s
  BY <1>1, <1>2, <1>6
<1>11. ASSUME NEW k \in DOMAIN b PROVE m + k \in DOMAIN s /\ s[m + k] = b[k]
  <2>1. m + k \in 1 .. m + n /\ ~(m + k <= m) /\ (m + k) - m = k
    BY <1>1, <1>2
  <2>2. QED BY <1>6, <1>7, <2>1
<1>12. QED BY <1>1, <1>3, <1>8, <1>9, <1>10, <1>11 DEF s

\* The file after an append: the old lines where they were, except that one
\* without its newline is lost, and the new ones behind them.
LEMMA AppendedFile ==
  ASSUME lines \in Seq(Line), cut \in BOOLEAN, cut => lines # <<>>,
         NEW new \in Seq(Line), new # <<>>
  PROVE  /\ Appended(new) \in Seq(Line) /\ Appended(new) # <<>>
         /\ \E shift \in Nat : \A i \in DOMAIN Appended(new) :
              \/ Appended(new)[i] = Junk
              \/ i \in DOMAIN lines /\ Appended(new)[i] = lines[i]
              \/ /\ i \in Nat /\ i - shift \in DOMAIN new
                 /\ Appended(new)[i] = new[i - shift]
<1>1. PICK m \in Nat : m = Len(lines) /\ DOMAIN lines = 1 .. m /\ (lines # <<>> <=> m > 0)
  BY NonEmptyFile
<1>2. CASE ~cut
  <2>1. Appended(new) = lines \o new
    BY <1>2 DEF Appended
  <2> DEFINE after == lines \o new
  <2>2. /\ after \in Seq(Line) /\ after # <<>>
        /\ \A i \in DOMAIN after :
             /\ i \in Nat
             /\ i \in DOMAIN lines => after[i] = lines[i]
             /\ i \notin DOMAIN lines => i - m \in DOMAIN new /\ after[i] = new[i - m]
    BY <1>1, FileConcat
  <2> HIDE DEF after
  <2>3. \A i \in DOMAIN after :
          \/ after[i] = Junk
          \/ i \in DOMAIN lines /\ after[i] = lines[i]
          \/ i \in Nat /\ i - m \in DOMAIN new /\ after[i] = new[i - m]
    BY <2>2
  <2>4. QED BY <1>1, <2>1, <2>2, <2>3 DEF after
<1>3. CASE cut
  <2> DEFINE lost == [lines EXCEPT ![m] = Junk]
             rest == Tail(new)
             after == lost \o rest
  <2>1. Appended(new) = after
    BY <1>1, <1>3 DEF Appended
  <2>2. m > 0 /\ m \in 1 .. m
    BY <1>1, <1>3
  <2>3. /\ lost \in Seq(Line) /\ Len(lost) = m /\ DOMAIN lost = 1 .. m
        /\ \A j \in 1 .. m : lost[j] = IF j = m THEN Junk ELSE lines[j]
    <3>1. Junk \in Line
      BY JunkIsALine
    <3>2. QED BY <1>1, <2>2, <3>1, ExceptSeq
  <2>4. rest \in Seq(Line) /\ \A i \in DOMAIN rest : i \in Nat /\ i + 1 \in DOMAIN new /\ rest[i] = new[i + 1]
    <3>1. PICK n \in Nat : n = Len(new) /\ DOMAIN new = 1 .. n
      BY NonEmptyFile
    <3>2. /\ rest \in Seq(Line) /\ Len(rest) = n - 1
          /\ \A i \in 1 .. Len(rest) : rest[i] = new[i + 1]
      BY <3>1, HeadTailProperties
    <3> HIDE DEF rest
    <3>3. DOMAIN rest = 1 .. n - 1
      BY <3>2, NonEmptyFile
    <3>4. QED BY <3>1, <3>2, <3>3
  <2> HIDE DEF lost, rest
  <2>5. /\ after \in Seq(Line) /\ after # <<>>
        /\ \A i \in DOMAIN after :
             /\ i \in Nat
             /\ i \in 1 .. m => after[i] = lost[i]
             /\ i \notin 1 .. m => i - m \in DOMAIN rest /\ after[i] = rest[i - m]
    <3>1. lost # <<>>
      BY <2>2, <2>3, NonEmptyFile
    <3>2. QED BY <2>3, <2>4, <3>1, FileConcat
  <2> HIDE DEF after
  <2>6. ASSUME NEW i \in DOMAIN after
        PROVE  \/ after[i] = Junk
               \/ i \in DOMAIN lines /\ after[i] = lines[i]
               \/ /\ i \in Nat /\ i - (m - 1) \in DOMAIN new /\ after[i] = new[i - (m - 1)]
    <3>1. CASE i \in 1 .. m
      BY <1>1, <2>3, <2>5, <3>1
    <3>2. CASE i \notin 1 .. m
      <4>1. i \in Nat /\ i - m \in DOMAIN rest /\ after[i] = rest[i - m]
        BY <2>5, <3>2
      <4>2. (i - m) + 1 = i - (m - 1)
        BY <4>1
      <4>3. QED BY <2>4, <4>1, <4>2
    <3>3. QED BY <3>1, <3>2
  <2>7. m - 1 \in Nat
    BY <2>2
  <2>8. QED BY <2>1, <2>5, <2>6, <2>7
<1>4. QED BY <1>2, <1>3

\* The checkpoint file of any run.
FileInv == lines \in Seq(Line) /\ cut \in BOOLEAN /\ (cut => lines # <<>>) /\ NoDoubleRow

\* Appending what a unit leaves, if the file names it nowhere, repeats no row
\* and names no other unit.
LEMMA AppendOnce ==
  ASSUME FileInv,
         NEW u \in Units, NEW e \in Envs, NEW new, new # <<>>, IsPartOf(new, u, e),
         u \notin DoneKeys, lines' = Appended(new)
  PROVE  /\ lines' \in Seq(Line) /\ lines' # <<>>
         /\ NoDoubleRow'
         /\ DoneKeys' \subseteq DoneKeys \cup {u}
<1>1. lines' \in Seq(Line) /\ lines' # <<>>
  BY AppendedFile DEF IsPartOf, FileInv
<1>2. PICK shift \in Nat : \A i \in DOMAIN lines' :
        \/ lines'[i] = Junk
        \/ i \in DOMAIN lines /\ lines'[i] = lines[i]
        \/ /\ i \in Nat /\ lines'[i] = [unit |-> u, row |-> i - shift, env |-> e]
  <2>1. new \in Seq(Line)
    BY DEF IsPartOf
  <2>2. PICK shift \in Nat : \A i \in DOMAIN lines' :
          \/ lines'[i] = Junk
          \/ i \in DOMAIN lines /\ lines'[i] = lines[i]
          \/ i \in Nat /\ i - shift \in DOMAIN new /\ lines'[i] = new[i - shift]
    BY <2>1, AppendedFile DEF FileInv
  <2>3. QED BY <2>2 DEF IsPartOf
<1>3. \A i \in DOMAIN lines : lines[i] # Junk => lines[i].unit \in DoneKeys
  <2>1. \A i \in DOMAIN lines : lines[i] \in Line
    BY LenProperties, ElementOfSeq DEF FileInv
  <2>2. QED BY <2>1, JunkIsALine DEF DoneKeys
<1>4. NoDoubleRow'
  <2> SUFFICES ASSUME NEW i \in DOMAIN lines', NEW j \in DOMAIN lines',
                      lines'[i] # Junk, lines'[i].unit = lines'[j].unit,
                      lines'[i].row = lines'[j].row
               PROVE  i = j
    BY DEF NoDoubleRow
  <2>1. lines'[j] # Junk
    <3>1. lines'[i] \in Line
      BY <1>1, LenProperties, ElementOfSeq
    <3>2. QED BY <3>1, JunkIsALine
  <2>2. CASE i \in DOMAIN lines /\ lines'[i] = lines[i] /\ j \in DOMAIN lines /\ lines'[j] = lines[j]
    BY <2>2 DEF NoDoubleRow, FileInv
  <2>3. CASE /\ i \in Nat /\ lines'[i] = [unit |-> u, row |-> i - shift, env |-> e]
             /\ j \in Nat /\ lines'[j] = [unit |-> u, row |-> j - shift, env |-> e]
    <3>1. i - shift = j - shift
      BY <2>3
    <3>2. QED BY <1>1, <2>3, <3>1
  <2>4. CASE /\ i \in DOMAIN lines /\ lines'[i] = lines[i]
             /\ lines'[j] = [unit |-> u, row |-> j - shift, env |-> e]
    BY <1>3, <2>4
  <2>5. CASE /\ j \in DOMAIN lines /\ lines'[j] = lines[j]
             /\ lines'[i] = [unit |-> u, row |-> i - shift, env |-> e]
    BY <1>3, <2>1, <2>5
  <2>6. QED BY <1>2, <2>1, <2>2, <2>3, <2>4, <2>5
<1>5. DoneKeys' \subseteq DoneKeys \cup {u}
  <2> SUFFICES ASSUME NEW i \in DOMAIN lines', lines'[i].unit # NoUnit
               PROVE  lines'[i].unit \in DoneKeys \cup {u}
    BY DEF DoneKeys
  <2>1. QED BY <1>2, JunkIsALine DEF DoneKeys
<1>6. QED BY <1>1, <1>4, <1>5

-----------------------------------------------------------------------------
(* The steps, for CoreInv.                                                   *)

\* What a file names is a unit.
LEMMA DoneAreUnits ==
  ASSUME lines \in Seq(Line)
  PROVE  DoneKeys \subseteq Units
<1>1. \A i \in DOMAIN lines : lines[i] \in Line
  BY LenProperties, ElementOfSeq
<1>2. QED BY <1>1, JunkIsALine DEF DoneKeys

LEMMA BeforeFacts ==
  ASSUME sizes \in SizeLists
  PROVE  /\ \A i : Before(i) \subseteq VariantUnits
         /\ \A i \in Nat : i \in DOMAIN Plan => Before(i + 1) = Before(i) \cup {Plan[i]}
                                                /\ Plan[i] \notin Before(i)
         /\ \A i \in Nat : i \notin DOMAIN Plan /\ i \in 1 .. Len(Plan) + 1 => Before(i) = PlanUnits
         /\ Before(1) = {}
<1>1. /\ Len(Plan) \in Nat /\ DOMAIN Plan = 1 .. Len(Plan)
      /\ \A i \in DOMAIN Plan : Plan[i] \in VariantUnits
      /\ \A i, j \in DOMAIN Plan : Plan[i] = Plan[j] => i = j
  BY ThePlan
<1>2. \A i : Before(i) \subseteq VariantUnits
  BY <1>1 DEF Before
<1>3. ASSUME NEW i \in Nat, i \in DOMAIN Plan
      PROVE  Before(i + 1) = Before(i) \cup {Plan[i]} /\ Plan[i] \notin Before(i)
  <2>1. \A k \in DOMAIN Plan : k < i + 1 <=> (k < i \/ k = i)
    BY <1>1
  <2>2. \A k \in DOMAIN Plan : k < i => k # i
    BY <1>1
  <2>3. QED BY <1>1, <1>3, <2>1, <2>2 DEF Before
<1>4. ASSUME NEW i \in Nat, i \notin DOMAIN Plan, i \in 1 .. Len(Plan) + 1
      PROVE  Before(i) = PlanUnits
  <2>1. \A k \in DOMAIN Plan : k < i
    BY <1>1, <1>4
  <2>2. QED BY <2>1 DEF Before, PlanUnits
<1>5. \A k \in DOMAIN Plan : ~(k < 1)
  BY <1>1
<1>6. QED BY <1>2, <1>3, <1>4, <1>5 DEF Before

LEMMA CoreInit == Init => CoreInv
<1> SUFFICES ASSUME Init PROVE CoreInv
  OBVIOUS
<1>1. sizes \in SizeLists /\ Len(Plan) \in Nat
  BY ThePlan DEF Init
<1>2. TypeOK
  <2>1. lines \in Seq(Line)
    BY EmptySeq DEF Init
  <2>2. pos \in 1 .. Len(Plan) + 1 /\ bad \in 0 .. MaxBad
    BY <1>1, BoundAssumption DEF Init
  <2>3. QED BY <2>1, <2>2 DEF Init, TypeOK
<1>3. DOMAIN lines = {}
  BY DEF Init
<1>4. NoDoubleRow
  BY <1>3 DEF NoDoubleRow
<1>5. QED BY <1>2, <1>4 DEF Init, CoreInv, Running, OutOK

LEMMA StartCore ==
  ASSUME CoreInv, NEW e \in Envs, NEW engines \in SUBSET Engines, NEW ns \in SizeLists,
         Start(e, engines, ns)
  PROVE  CoreInv'
<1>1. present' = present /\ lines' = lines /\ cut' = cut /\ sizes' \in SizeLists /\ TypeOK
  BY DEF Start, CoreInv, disk
<1>2. Len(Plan)' \in Nat
  BY <1>1, PlanFacts DEF Plan
<1>3. 1 \in 1 .. Len(Plan)' + 1
  BY <1>2
<1>4. bad' \in 0 .. MaxBad
  BY <1>1, BoundAssumption DEF Start, TypeOK
<1>5. TypeOK'
  BY <1>1, <1>3, <1>4, DoneAreUnits DEF Start, TypeOK
<1>6. NoDoubleRow' /\ DoneKeys' = DoneKeys
  BY <1>1 DEF NoDoubleRow, CoreInv, DoneKeys
<1>7. FileOK' /\ CorpusOK'
  BY <1>6 DEF Start, FileOK, CorpusOK
<1>8. QED BY <1>1, <1>5, <1>6, <1>7 DEF CoreInv, Start, OutOK, Running

\* While a run is in its loop or appends, what it sees of the file and the
\* plan does not change under it.
LEMMA SkipCore ==
  ASSUME CoreInv, Skip
  PROVE  CoreInv'
<1>1. /\ present' = present
      /\ lines' = lines /\ cut' = cut /\ sizes' = sizes /\ corpus' = corpus /\ done' = done
      /\ pc = "loop" /\ pc' = "loop" /\ pos' = pos + 1 /\ pos \in DOMAIN Plan /\ TypeOK
  BY DEF Skip, CoreInv, disk, InLoop
<1>2. /\ Len(Plan) \in Nat /\ DOMAIN Plan = 1 .. Len(Plan) /\ Plan' = Plan
      /\ pos \in Nat /\ pos' \in 1 .. Len(Plan) + 1
  <2>1. sizes \in SizeLists
    BY <1>1 DEF TypeOK
  <2>2. Plan' = Plan
    BY <1>1 DEF Plan
  <2>3. Len(Plan) \in Nat /\ DOMAIN Plan = 1 .. Len(Plan)
    BY <2>1, ThePlan
  <2>4. QED BY <1>1, <2>2, <2>3
<1>3. TypeOK'
  BY <1>1, <1>2 DEF Skip, TypeOK
<1>4. NoDoubleRow' /\ DoneKeys' = DoneKeys
  BY <1>1 DEF NoDoubleRow, CoreInv, DoneKeys
<1>5. FileOK'
  <2>1. FileOK
    BY <1>1 DEF CoreInv, Running
  <2>2. \A j \in DOMAIN Plan : (j < pos => j < pos') /\ (pos' <= j => pos <= j)
    BY <1>1, <1>2
  <2>3. \A N : PastAnchor(N) => PastAnchor(N)'
    BY <1>1, <1>2, <2>2 DEF PastAnchor
  <2>4. Before(pos) \subseteq Before(pos)'
    BY <1>2, <2>2 DEF Before
  <2>5. QED BY <1>1, <1>4, <2>1, <2>3, <2>4 DEF FileOK
<1>6. CorpusOK'
  <2>1. CorpusOK
    BY <1>1 DEF CoreInv, Running
  <2>2. \A j \in DOMAIN Plan : j <= pos => j <= pos'
    BY <1>1, <1>2
  <2>3. QED BY <1>1, <1>2, <2>1, <2>2 DEF CorpusOK
<1>7. QED BY <1>1, <1>3, <1>4, <1>5, <1>6 DEF CoreInv, OutOK

\* The anchor of a new size is not on file: the sweep has not been at it.
LEMMA GenerateCore ==
  ASSUME CoreInv, Generate
  PROVE  CoreInv'
<1>1. /\ present' = present
      /\ lines' = lines /\ cut' = cut /\ sizes' = sizes /\ done' = done /\ pos' = pos
      /\ pc = "loop" /\ pos \in DOMAIN Plan /\ TypeOK /\ sizes \in SizeLists
      /\ corpus # Unit[2] /\ corpus' = Unit[2] /\ pc' \in {"loop", "append"}
  BY DEF Generate, CoreInv, TypeOK, disk, Pending, InLoop
<1>2. /\ Len(Plan) \in Nat /\ DOMAIN Plan = 1 .. Len(Plan) /\ Plan' = Plan /\ pos \in Nat
      /\ Unit \in VariantUnits
      /\ \A i, j, k \in DOMAIN Plan :
           i <= j /\ j <= k /\ Plan[i][2] = Plan[k][2] => Plan[j][2] = Plan[i][2]
  BY <1>1, ThePlan DEF Plan, Unit
<1>3. FileOK /\ CorpusOK
  BY <1>1 DEF CoreInv, Running
<1>4. TypeOK'
  <2>1. Anchored => Oracle(Unit[2]) \in Units
    BY <1>2, Names
  <2>2. out' \in Units \cup {NoUnit}
    BY <1>1, <2>1 DEF Generate, TypeOK
  <2>3. QED BY <1>1, <1>2, <2>2 DEF Generate, TypeOK, disk
<1>5. NoDoubleRow' /\ DoneKeys' = DoneKeys
  BY <1>1 DEF NoDoubleRow, CoreInv, DoneKeys
<1>6. ASSUME NEW N, PastAnchor(N)
      PROVE  N # Unit[2] /\ PastAnchor(N)'
  <2>1. CASE corpus = N
    <3>1. N # Unit[2]
      BY <1>1, <2>1
    <3>2. CASE corpus = NoSize
      <4>1. \A j \in DOMAIN Plan : Plan[j][2] # N
        BY <1>1, <2>1, <3>2, ThePlan, Names
      <4>2. QED BY <1>2, <3>1, <4>1 DEF PastAnchor
    <3>3. CASE corpus # NoSize
      <4>1. PICK i \in DOMAIN Plan : i <= pos /\ Plan[i][2] = N
        BY <1>3, <2>1, <3>3 DEF CorpusOK
      <4>2. \A k \in DOMAIN Plan : pos <= k => Plan[k][2] # N
        BY <1>1, <1>2, <3>1, <4>1 DEF Unit
      <4>3. QED BY <1>1, <1>2, <3>1, <4>2 DEF PastAnchor
    <3>4. QED BY <3>2, <3>3
  <2>2. CASE \A j \in DOMAIN Plan : pos <= j => Plan[j][2] # N
    <3>1. N # Unit[2]
      BY <1>1, <1>2, <2>2 DEF Unit
    <3>2. QED BY <1>1, <1>2, <2>2, <3>1 DEF PastAnchor
  <2>3. QED BY <1>6, <2>1, <2>2 DEF PastAnchor
<1>7. FileOK'
  <2>1. Before(pos)' = Before(pos)
    BY <1>1, <1>2 DEF Before
  <2>2. QED BY <1>1, <1>3, <1>5, <1>6, <2>1 DEF FileOK
<1>8. CorpusOK'
  BY <1>1, <1>2 DEF CorpusOK, Unit
<1>9. OutOK'
  <2> SUFFICES ASSUME pc' = "append" PROVE OutOK'
    BY DEF OutOK
  <2>1. Anchored /\ Oracle(Unit[2]) \notin done /\ out' = Oracle(Unit[2])
    BY <1>1 DEF Generate
  <2>2. Oracle(Unit[2]) \notin DoneKeys
    <3>1. Oracle(Unit[2]) \notin Before(pos)
      BY <1>1, <1>2, BeforeFacts, Names
    <3>2. ASSUME NEW N \in AllSizes, Oracle(Unit[2]) = Oracle(N), PastAnchor(N)
          PROVE  FALSE
      BY <1>2, <1>6, <3>2, Names
    <3>3. QED BY <1>3, <2>1, <3>1, <3>2 DEF FileOK
  <2>3. Unit' = Unit
    BY <1>1, <1>2 DEF Unit
  <2>4. QED BY <1>1, <1>2, <1>5, <2>1, <2>2, <2>3 DEF OutOK
<1>10. QED BY <1>1, <1>4, <1>5, <1>7, <1>8, <1>9 DEF CoreInv

\* The unit the sweep is at is not on file.
LEMMA MeasureCore ==
  ASSUME CoreInv, Measure
  PROVE  CoreInv'
<1>1. /\ present' = present
      /\ lines' = lines /\ cut' = cut /\ sizes' = sizes /\ done' = done /\ pos' = pos
      /\ corpus' = corpus /\ corpus = Unit[2] /\ pc' = "append" /\ out' = Unit
      /\ pc = "loop" /\ pos \in DOMAIN Plan /\ TypeOK /\ sizes \in SizeLists /\ Unit \notin done
  BY DEF Measure, CoreInv, TypeOK, disk, Pending, InLoop
<1>2. /\ Plan' = Plan /\ Unit' = Unit /\ pos \in Nat /\ Unit \in VariantUnits
  BY <1>1, ThePlan DEF Plan, Unit
<1>3. FileOK /\ CorpusOK
  BY <1>1 DEF CoreInv, Running
<1>4. Unit \in Units /\ Unit \notin Oracles
  BY <1>2, Names
<1>5. TypeOK'
  BY <1>1, <1>2, <1>4 DEF Measure, TypeOK, disk
<1>6. NoDoubleRow' /\ DoneKeys' = DoneKeys
  BY <1>1 DEF NoDoubleRow, CoreInv, DoneKeys
<1>7. FileOK' /\ CorpusOK'
  <2>1. Before(pos)' = Before(pos) /\ \A N : PastAnchor(N)' <=> PastAnchor(N)
    BY <1>1, <1>2 DEF Before, PastAnchor
  <2>2. QED BY <1>1, <1>2, <1>3, <1>6, <2>1 DEF FileOK, CorpusOK
<1>8. Unit \notin DoneKeys
  <2>1. Unit \notin Before(pos)
    BY <1>1, <1>2, BeforeFacts DEF Unit
  <2>2. \A N \in AllSizes : Unit # Oracle(N)
    BY <1>4, Names
  <2>3. QED BY <1>1, <1>3, <2>1, <2>2 DEF FileOK
<1>9. OutOK'
  BY <1>1, <1>2, <1>6, <1>8 DEF OutOK
<1>10. QED BY <1>1, <1>5, <1>6, <1>7, <1>9 DEF CoreInv

\* What is being appended: a unit the file does not name.
LEMMA WhatIsAppended ==
  ASSUME CoreInv, pc = "append"
  PROVE  /\ out \in Units /\ out \notin DoneKeys /\ sizes \in SizeLists
         /\ pos \in DOMAIN Plan /\ Unit \in VariantUnits /\ corpus = Unit[2]
         /\ out = Unit \/ (Anchored /\ out = Oracle(corpus))
         /\ out \in Oracles => out = Oracle(corpus)
         /\ out \notin Oracles => out = Unit
<1>1. /\ out \notin DoneKeys /\ sizes \in SizeLists /\ pos \in DOMAIN Plan /\ corpus = Unit[2]
      /\ out = Unit \/ (Anchored /\ out = Oracle(corpus))
  BY DEF CoreInv, TypeOK, OutOK
<1>2. Unit \in VariantUnits
  BY <1>1, ThePlan DEF Unit
<1>3. QED BY <1>1, <1>2, Names

LEMMA AppendCore ==
  ASSUME CoreInv, AppendRows
  PROVE  CoreInv'
<1>1. /\ pc = "append" /\ pc' = "loop" /\ present' = TRUE /\ cut' = FALSE
      /\ corpus' = corpus /\ done' = done /\ sizes' = sizes /\ out' = NoUnit /\ TypeOK /\ lines' = Appended(UnitLines(out, env))
      /\ pos' = IF out \in Oracles THEN pos ELSE pos + 1
  BY DEF AppendRows, CoreInv
<1>2. /\ lines' \in Seq(Line) /\ NoDoubleRow' /\ DoneKeys' \subseteq DoneKeys \cup {out}
  <2>1. FileInv /\ env \in Envs
    BY DEF CoreInv, TypeOK, FileInv
  <2>2. out \in Units /\ out \notin DoneKeys
    BY <1>1, WhatIsAppended
  <2>3. UnitLines(out, env) # <<>> /\ IsPartOf(UnitLines(out, env), out, env)
    BY <2>1, <2>2, WholeUnit
  <2> DEFINE new == UnitLines(out, env)
  <2> HIDE DEF new
  <2>4. lines' = Appended(new) /\ new # <<>> /\ IsPartOf(new, out, env)
    BY <1>1, <2>3 DEF new
  <2>5. QED BY <2>1, <2>2, <2>4, AppendOnce
<1>3. /\ Len(Plan) \in Nat /\ DOMAIN Plan = 1 .. Len(Plan) /\ Plan' = Plan /\ pos \in Nat
      /\ pos \in DOMAIN Plan /\ pos <= pos' /\ pos' \in 1 .. Len(Plan) + 1
  BY <1>1, WhatIsAppended, ThePlan DEF Plan
<1>4. TypeOK'
  BY <1>1, <1>2, <1>3 DEF AppendRows, TypeOK
<1>5. FileOK /\ CorpusOK
  BY <1>1 DEF CoreInv, Running
<1>6. FileOK'
  <2>1. \A j \in DOMAIN Plan : (j < pos => j < pos') /\ (pos' <= j => pos <= j)
    BY <1>3
  <2>2. \A N : PastAnchor(N) => PastAnchor(N)'
    BY <1>1, <1>3, <2>1 DEF PastAnchor
  <2>3. Before(pos) \subseteq Before(pos)'
    BY <1>3, <2>1 DEF Before
  <2>4. CASE out \in Oracles
    <3>1. PastAnchor(corpus)' /\ corpus \in AllSizes /\ out = Oracle(corpus)
      BY <1>1, <2>4, WhatIsAppended, Names DEF PastAnchor
    <3>2. QED BY <1>1, <1>2, <1>5, <2>2, <2>3, <3>1 DEF FileOK
  <2>5. CASE out \notin Oracles
    <3>1. out = Plan[pos] /\ pos < pos'
      BY <1>1, <1>3, <2>5, WhatIsAppended DEF Unit
    <3>2. out \in Before(pos)'
      BY <1>3, <3>1 DEF Before
    <3>3. QED BY <1>1, <1>2, <1>5, <2>2, <2>3, <3>2 DEF FileOK
  <2>6. QED BY <2>4, <2>5
<1>7. CorpusOK'
  <2>1. \A j \in DOMAIN Plan : j <= pos => j <= pos'
    BY <1>3
  <2>2. QED BY <1>1, <1>3, <1>5, <2>1 DEF CorpusOK
<1>8. QED BY <1>1, <1>2, <1>4, <1>6, <1>7 DEF CoreInv, OutOK

LEMMA DieCore ==
  ASSUME CoreInv, Die
  PROVE  CoreInv'
<1>1. /\ pc' = "down" /\ sizes' = sizes /\ pos' = pos /\ done' = done /\ out' = out
      /\ env' = env /\ up' = up /\ TypeOK /\ bad < MaxBad /\ bad' = bad + 1
  BY DEF Die, CoreInv, run
<1>2. /\ lines' \in Seq(Line) /\ cut' \in BOOLEAN /\ present' \in BOOLEAN
      /\ lines' # <<>> => present'
      /\ cut' => lines' # <<>>
      /\ NoDoubleRow'
  <2>1. FileInv /\ env \in Envs
    BY DEF CoreInv, TypeOK, FileInv
  <2>2. CASE UNCHANGED <<lines, cut>> /\ (present' = present \/ present' = TRUE)
    <3>1. NoDoubleRow'
      BY <2>1, <2>2 DEF NoDoubleRow, FileInv
    <3>2. QED BY <2>1, <2>2, <3>1 DEF FileInv, CoreInv, TypeOK
  <2>3. CASE /\ pc = "append" /\ present' = TRUE
             /\ \E t \in Torn(UnitLines(out, env)) :
                  t.new # <<>> /\ lines' = Appended(t.new) /\ cut' = t.cut
    <3>1. PICK t \in Torn(UnitLines(out, env)) :
                 t.new # <<>> /\ lines' = Appended(t.new) /\ cut' = t.cut
      BY <2>3
    <3>2. out \in Units /\ out \notin DoneKeys
      BY <2>3, WhatIsAppended
    <3>3. IsPartOf(t.new, out, env) /\ t.cut \in BOOLEAN
      BY <2>1, <3>2, TornUnit
    <3> DEFINE new == t.new
    <3> HIDE DEF new
    <3>4. lines' = Appended(new) /\ new # <<>> /\ IsPartOf(new, out, env)
      BY <3>1, <3>3 DEF new
    <3>5. lines' \in Seq(Line) /\ lines' # <<>> /\ NoDoubleRow'
      BY <2>1, <3>2, <3>4, AppendOnce
    <3>6. QED BY <2>3, <3>1, <3>3, <3>5
  <2>4. QED BY <2>2, <2>3 DEF Die
<1>3. Plan' = Plan
  BY <1>1 DEF Plan
<1>4. bad' \in 0 .. MaxBad
  <2>1. bad \in 0 .. MaxBad
    BY <1>1 DEF TypeOK
  <2>2. QED BY <1>1, <2>1, BoundAssumption
<1>5. TypeOK'
  BY <1>1, <1>2, <1>3, <1>4 DEF TypeOK
<1>6. QED BY <1>1, <1>2, <1>5 DEF CoreInv, Running, OutOK

\* The end of a run, which only reads the file, and a step that does nothing.
LEMMA EndCore ==
  ASSUME CoreInv, OpenLedger \/ WriteJson \/ WriteCsv
  PROVE  CoreInv'
<1>1. /\ present' = present /\ lines' = lines /\ cut' = cut
      /\ sizes' = sizes /\ pos' = pos /\ done' = done /\ out' = out /\ env' = env /\ up' = up /\ bad' = bad /\ TypeOK
      /\ pc' \in {"down", "json", "csv", "finished"}
      /\ pc' \in {"csv", "finished"} => json'.rows = lines
      /\ pc' = "finished" => csv' = lines
  BY DEF OpenLedger, WriteJson, WriteCsv, CoreInv, run
<1>2. Plan' = Plan
  BY <1>1 DEF Plan
<1>3. TypeOK' /\ NoDoubleRow'
  BY <1>1, <1>2 DEF TypeOK, NoDoubleRow, CoreInv
<1>4. QED BY <1>1, <1>3 DEF CoreInv, Running, OutOK

LEMMA StutterCore ==
  ASSUME CoreInv, UNCHANGED vars
  PROVE  CoreInv'
<1>1. Plan' = Plan /\ Unit' = Unit /\ DoneKeys' = DoneKeys /\ (Running' <=> Running)
  BY DEF vars, disk, run, Plan, Unit, DoneKeys, Running
<1>2. TypeOK' /\ NoDoubleRow' /\ OutOK'
  BY <1>1 DEF CoreInv, TypeOK, NoDoubleRow, OutOK, vars, disk, run
<1>3. Running' => FileOK' /\ CorpusOK'
  <2>1. Before(pos)' = Before(pos) /\ \A N : PastAnchor(N)' <=> PastAnchor(N)
    BY <1>1 DEF Before, PastAnchor, vars, disk, run
  <2>2. QED BY <1>1, <2>1 DEF CoreInv, FileOK, CorpusOK, vars, disk, run
<1>4. QED BY <1>2, <1>3 DEF CoreInv, vars, disk, run

LEMMA CoreStep == CoreInv /\ [Next]_vars => CoreInv'
<1> SUFFICES ASSUME CoreInv, [Next]_vars PROVE CoreInv'
  OBVIOUS
<1>1. CASE UNCHANGED vars
  BY <1>1, StutterCore
<1>2. CASE AnyStart
  <2>1. PICK e \in Envs, engines \in SUBSET Engines, ns \in SizeLists : Start(e, engines, ns)
    BY <1>2 DEF AnyStart
  <2>2. QED BY <2>1, StartCore
<1>3. CASE Skip
  BY <1>3, SkipCore
<1>4. CASE Generate
  BY <1>4, GenerateCore
<1>5. CASE Measure
  BY <1>5, MeasureCore
<1>6. CASE AppendRows
  BY <1>6, AppendCore
<1>7. CASE OpenLedger \/ WriteJson \/ WriteCsv
  BY <1>7, EndCore
<1>8. CASE Die
  BY <1>8, DieCore
<1>9. QED BY <1>1, <1>2, <1>3, <1>4, <1>5, <1>6, <1>7, <1>8 DEF Next, Step

-----------------------------------------------------------------------------
(* The steps, for WholeFile and WholeRun, when every append reaches the disk *)
(* whole.                                                                    *)

Whole == WholeFile /\ WholeRun

\* The row k of unit u, measured in e.
RowOf(u, e, k) == [unit |-> u, row |-> k, env |-> e]

\* A whole append keeps every line and puts the unit's rows behind them.
LEMMA AppendedWhole ==
  ASSUME lines \in Seq(Line), ~cut, NEW u \in Units, NEW e \in Envs,
         lines' = Appended(UnitLines(u, e))
  PROVE  /\ \A i \in DOMAIN lines : i \in DOMAIN lines' /\ lines'[i] = lines[i]
         /\ \A k \in 1 .. RowsOf(u) : \E i \in DOMAIN lines' : lines'[i] = RowOf(u, e, k)
         /\ \A i \in DOMAIN lines' :
              \/ i \in DOMAIN lines
              \/ /\ \E k \in 1 .. RowsOf(u) : lines'[i] = RowOf(u, e, k)
                 /\ \A j \in DOMAIN lines : j \in 1 .. i
<1> DEFINE new == UnitLines(u, e)
           R == RowsOf(u)
<1>1. /\ new \in Seq(Line) /\ new # <<>> /\ R \in Nat /\ Len(new) = R
      /\ \A k \in 1 .. R : new[k] = RowOf(u, e, k)
  BY WholeUnit DEF IsPartOf, RowOf
<1>2. lines' = lines \o new
  BY <1>1 DEF Appended
<1> HIDE DEF new, R
<1>3. DOMAIN new = 1 .. R
  BY <1>1, NonEmptyFile
<1>4. PICK m \in Nat : m = Len(lines) /\ DOMAIN lines = 1 .. m
  BY NonEmptyFile
<1> DEFINE s == lines \o new
<1>5. /\ \A i \in DOMAIN lines : i \in DOMAIN s
      /\ \A k \in DOMAIN new : m + k \in DOMAIN s /\ s[m + k] = new[k]
      /\ \A i \in DOMAIN s :
           /\ i \in Nat
           /\ i \in DOMAIN lines => s[i] = lines[i]
           /\ i \notin DOMAIN lines => i - m \in DOMAIN new /\ s[i] = new[i - m]
  BY <1>1, <1>4, FileConcat
<1>6. lines' = s
  BY <1>2
<1> HIDE DEF s
<1>7. \A k \in 1 .. R : \E i \in DOMAIN s : s[i] = RowOf(u, e, k)
  BY <1>1, <1>3, <1>5
<1>8. ASSUME NEW i \in DOMAIN s, i \notin DOMAIN lines
      PROVE  /\ \E k \in 1 .. R : s[i] = RowOf(u, e, k)
             /\ \A j \in DOMAIN lines : j \in 1 .. i
  <2>1. i \in Nat /\ i - m \in 1 .. R /\ s[i] = new[i - m]
    BY <1>3, <1>5, <1>8
  <2>2. m < i
    BY <1>1, <2>1
  <2>3. QED BY <1>1, <1>4, <2>1, <2>2
<1>9. QED BY <1>5, <1>6, <1>7, <1>8 DEF R

\* A unit's rows behind a file that is whole leave a whole file.
LEMMA WholeAppend ==
  ASSUME FileInv, WholeFile, NEW u \in Units, NEW e \in Envs, u \notin DoneKeys,
         Anchored /\ u \in VariantUnits => Oracle(u[2]) \in DoneKeys,
         lines' = Appended(UnitLines(u, e))
  PROVE  /\ \A i \in DOMAIN lines' : lines'[i] # Junk
         /\ DoneKeys' = DoneKeys \cup {u}
         /\ \A v \in DoneKeys \cup {u} : Complete(v)'
         /\ AnchoredFirst'
<1> DEFINE K == 1 .. RowsOf(u)
<1>1. /\ \A i \in DOMAIN lines : i \in DOMAIN lines' /\ lines'[i] = lines[i]
      /\ \A k \in K : \E i \in DOMAIN lines' : lines'[i] = RowOf(u, e, k)
      /\ \A i \in DOMAIN lines' :
           \/ i \in DOMAIN lines
           \/ /\ \E k \in K : lines'[i] = RowOf(u, e, k)
              /\ \A j \in DOMAIN lines : j \in 1 .. i
  BY AppendedWhole DEF FileInv, WholeFile
<1>2. 1 \in K
  BY WholeUnit
<1> HIDE DEF K
<1>3. \A k : RowOf(u, e, k).unit = u /\ RowOf(u, e, k).row = k /\ RowOf(u, e, k) # Junk
  BY Names DEF RowOf, Junk
<1>4. \A i \in DOMAIN lines : lines[i] # Junk /\ lines[i].unit \in DoneKeys /\ lines[i].unit # u
  <2>1. \A i \in DOMAIN lines : lines[i] # Junk
    BY DEF WholeFile
  <2>2. \A i \in DOMAIN lines : lines[i] \in Line
    BY LenProperties, ElementOfSeq DEF FileInv
  <2>3. QED BY <2>1, <2>2, JunkIsALine DEF DoneKeys
<1>5. u # NoUnit
  BY Names
<1>6. \A i \in DOMAIN lines' : lines'[i] # Junk
  BY <1>1, <1>3, <1>4
<1>7. DoneKeys' = DoneKeys \cup {u}
  <2>1. u \in DoneKeys'
    BY <1>1, <1>2, <1>3, <1>5 DEF DoneKeys
  <2>2. DoneKeys \subseteq DoneKeys'
    BY <1>1 DEF DoneKeys
  <2>3. DoneKeys' \subseteq DoneKeys \cup {u}
    BY <1>1, <1>3 DEF DoneKeys
  <2>4. QED BY <2>1, <2>2, <2>3
<1>8. \A v \in DoneKeys \cup {u} : Complete(v)'
  <2>1. ASSUME NEW v \in DoneKeys PROVE Complete(v)'
    <3>1. v # u /\ Complete(v)
      BY DEF WholeFile
    <3>2. OnDisk(v) \subseteq OnDisk(v)'
      BY <1>1 DEF OnDisk
    <3>3. OnDisk(v)' \subseteq OnDisk(v)
      BY <1>1, <1>3, <3>1 DEF OnDisk
    <3>4. QED BY <3>1, <3>2, <3>3 DEF Complete
  <2>2. Complete(u)'
    <3>1. K \subseteq OnDisk(u)'
      BY <1>1, <1>3 DEF OnDisk
    <3>2. OnDisk(u)' \subseteq K
      BY <1>1, <1>3, <1>4 DEF OnDisk
    <3>3. QED BY <3>1, <3>2 DEF Complete, K
  <2>3. QED BY <2>1, <2>2
<1>9. AnchoredFirst'
  <2> SUFFICES ASSUME Anchored, NEW i \in DOMAIN lines', lines'[i].unit \in VariantUnits
               PROVE  \E j \in 1 .. i : lines'[j].unit = Oracle(lines'[i].unit[2])
    BY DEF AnchoredFirst
  <2>1. CASE i \in DOMAIN lines
    <3>1. PICK j \in 1 .. i : lines[j].unit = Oracle(lines[i].unit[2])
      BY <1>1, <2>1 DEF WholeFile, AnchoredFirst
    <3>2. j \in DOMAIN lines
      <4>1. DOMAIN lines = 1 .. Len(lines) /\ Len(lines) \in Nat
        BY NonEmptyFile DEF FileInv
      <4>2. QED BY <2>1, <3>1, <4>1
    <3>3. QED BY <1>1, <2>1, <3>1, <3>2
  <2>2. CASE i \notin DOMAIN lines
    <3>1. lines'[i].unit = u /\ \A j \in DOMAIN lines : j \in 1 .. i
      BY <1>1, <1>3, <2>2
    <3>2. PICK j \in DOMAIN lines : lines[j].unit = Oracle(u[2])
      BY <3>1 DEF DoneKeys
    <3>3. QED BY <1>1, <3>1, <3>2
  <2>3. QED BY <2>1, <2>2
<1>10. QED BY <1>6, <1>7, <1>8, <1>9

\* A step that leaves the file alone leaves it whole.
LEMMA SameFile ==
  ASSUME WholeFile, lines' = lines, cut' = cut, done' \subseteq DoneKeys
  PROVE  WholeFile' /\ DoneKeys' = DoneKeys /\ \A u : Complete(u)' <=> Complete(u)
<1>1. DoneKeys' = DoneKeys /\ (AnchoredFirst' <=> AnchoredFirst)
  BY DEF DoneKeys, AnchoredFirst
<1>2. \A u : Complete(u)' <=> Complete(u)
  BY DEF Complete, OnDisk
<1>3. QED BY <1>1, <1>2 DEF WholeFile

LEMMA StartWhole ==
  ASSUME CoreInv, Whole, NEW e \in Envs, NEW engines \in SUBSET Engines, NEW ns \in SizeLists,
         Start(e, engines, ns)
  PROVE  Whole'
<1>1. /\ lines' = lines /\ cut' = cut /\ done' = DoneKeys /\ pc' = "loop" /\ pos' = 1
      /\ corpus' = NoSize /\ sizes' \in SizeLists
  BY DEF Start, disk
<1>2. WholeFile'
  BY <1>1, SameFile DEF Whole
<1>3. Before(pos)' = {}
  <2>1. \A k \in DOMAIN Plan' : ~(k < 1)
    BY <1>1, PlanFacts DEF Plan
  <2>2. QED BY <1>1, <2>1 DEF Before
<1>4. QED BY <1>1, <1>2, <1>3 DEF Whole, WholeRun

LEMMA SkipWhole ==
  ASSUME CoreInv, Whole, Skip
  PROVE  Whole'
<1>1. /\ lines' = lines /\ cut' = cut /\ done' = done /\ sizes' = sizes /\ corpus' = corpus
      /\ out' = out /\ up' = up /\ pc = "loop" /\ pc' = "loop" /\ pos' = pos + 1
      /\ pos \in DOMAIN Plan /\ sizes \in SizeLists
      /\ EngineOf[Unit[1]] \notin up \/ Unit \in done
  BY DEF Skip, disk, InLoop, Pending, CoreInv, TypeOK
<1>2. WholeFile' /\ DoneKeys' = DoneKeys /\ done \subseteq DoneKeys
  BY <1>1, SameFile DEF Whole, WholeFile
<1>3. Plan' = Plan /\ pos \in Nat
  BY <1>1, ThePlan DEF Plan
<1>4. Before(pos)' = Before(pos) \cup {Unit}
  <2>1. Before(pos)' = Before(pos + 1)
    BY <1>1, <1>3 DEF Before
  <2>2. QED BY <1>1, <1>3, <2>1, BeforeFacts DEF Unit
<1>5. QED BY <1>1, <1>2, <1>4 DEF Whole, WholeRun, Running

LEMMA GenerateWhole ==
  ASSUME CoreInv, Whole, Generate
  PROVE  Whole'
<1>1. /\ lines' = lines /\ cut' = cut /\ done' = done /\ sizes' = sizes /\ pos' = pos
      /\ up' = up /\ pc = "loop" /\ corpus' = Unit[2] /\ pc' \in {"loop", "append"}
      /\ Anchored => \/ pc' = "append" /\ out' = Oracle(Unit[2])
                     \/ Oracle(Unit[2]) \in done
  BY DEF Generate, disk, Pending, InLoop
<1>2. WholeFile' /\ DoneKeys' = DoneKeys /\ done \subseteq DoneKeys
  BY <1>1, SameFile DEF Whole, WholeFile
<1>3. Before(pos)' = Before(pos)
  BY <1>1 DEF Before, Plan
<1>4. QED BY <1>1, <1>2, <1>3 DEF Whole, WholeRun, Running

LEMMA MeasureWhole ==
  ASSUME CoreInv, Whole, Measure
  PROVE  Whole'
<1>1. /\ lines' = lines /\ cut' = cut /\ done' = done /\ sizes' = sizes /\ pos' = pos
      /\ up' = up /\ pc = "loop" /\ corpus' = corpus /\ pc' = "append"
  BY DEF Measure, disk, Pending, InLoop
<1>2. WholeFile' /\ DoneKeys' = DoneKeys
  BY <1>1, SameFile DEF Whole, WholeFile
<1>3. Before(pos)' = Before(pos)
  BY <1>1 DEF Before, Plan
<1>4. QED BY <1>1, <1>2, <1>3 DEF Whole, WholeRun, Running

\* The anchor is on file before the rows of a variant are appended.
LEMMA AppendWhole ==
  ASSUME CoreInv, Whole, AppendRows
  PROVE  Whole'
<1>1. /\ pc = "append" /\ pc' = "loop" /\ cut' = FALSE /\ corpus' = corpus /\ done' = done
      /\ sizes' = sizes /\ up' = up /\ lines' = Appended(UnitLines(out, env))
      /\ pos' = IF out \in Oracles THEN pos ELSE pos + 1
      /\ FileInv /\ env \in Envs
  BY DEF AppendRows, CoreInv, TypeOK, FileInv
<1>2. /\ out \in Units /\ out \notin DoneKeys /\ sizes \in SizeLists
      /\ pos \in DOMAIN Plan /\ Unit \in VariantUnits /\ corpus = Unit[2]
      /\ out = Unit \/ (Anchored /\ out = Oracle(corpus))
      /\ out \in Oracles => out = Oracle(corpus)
      /\ out \notin Oracles => out = Unit
  BY <1>1, WhatIsAppended
<1>3. Anchored => Oracle(corpus) \in DoneKeys \/ out = Oracle(corpus)
  BY <1>1, <1>2, Names DEF Whole, WholeRun, Running
<1>4. Anchored /\ out \in VariantUnits => Oracle(out[2]) \in DoneKeys
  <2>1. Oracle(corpus) \in Oracles
    BY <1>2, Names
  <2>2. QED BY <1>2, <1>3, <2>1, Names
<1>5. /\ \A i \in DOMAIN lines' : lines'[i] # Junk
      /\ DoneKeys' = DoneKeys \cup {out}
      /\ \A v \in DoneKeys \cup {out} : Complete(v)'
      /\ AnchoredFirst'
  <2>1. WholeFile
    BY DEF Whole
  <2>2. QED BY <1>1, <1>2, <1>4, <2>1, WholeAppend
<1>6. WholeFile'
  BY <1>1, <1>5 DEF WholeFile, Whole
<1>7. Before(pos)' \subseteq Before(pos) \cup {out}
  <2>1. Plan' = Plan /\ pos \in Nat
    BY <1>1, <1>2, ThePlan DEF Plan
  <2>2. CASE out \in Oracles
    <3>1. pos' = pos
      BY <1>1, <2>2
    <3>2. QED BY <2>1, <3>1 DEF Before
  <2>3. CASE out \notin Oracles
    <3>1. pos' = pos + 1 /\ out = Plan[pos]
      BY <1>1, <1>2, <2>3 DEF Unit
    <3>2. Before(pos)' = Before(pos + 1)
      BY <2>1, <3>1 DEF Before
    <3>3. QED BY <1>2, <2>1, <3>1, <3>2, BeforeFacts
  <2>4. QED BY <2>2, <2>3
<1>8. WholeRun'
  BY <1>1, <1>3, <1>5, <1>7 DEF Whole, WholeRun, Running
<1>9. QED BY <1>6, <1>8 DEF Whole

\* The ledger is opened when every unit is behind the sweep.
LEMMA EndWhole ==
  ASSUME CoreInv, Whole, OpenLedger \/ WriteJson \/ WriteCsv
  PROVE  Whole'
<1>1. /\ lines' = lines /\ cut' = cut /\ sizes' = sizes /\ pos' = pos /\ done' = done
      /\ up' = up /\ pc' \in {"down", "json", "csv", "finished"} /\ sizes \in SizeLists
      /\ pos \in 1 .. Len(Plan) + 1
  BY DEF OpenLedger, WriteJson, WriteCsv, run, CoreInv, TypeOK
<1>2. WholeFile' /\ DoneKeys' = DoneKeys
  BY <1>1, SameFile DEF Whole, WholeFile
<1>3. PlanUnits' = PlanUnits
  BY <1>1 DEF PlanUnits, Plan
<1>4. CASE OpenLedger
  <2>1. pc = "loop" /\ pos \notin DOMAIN Plan /\ pos \in Nat
    BY <1>1, <1>4, ThePlan DEF OpenLedger, AtEnd
  <2>2. Before(pos) = PlanUnits
    BY <1>1, <2>1, BeforeFacts
  <2>3. QED BY <1>1, <1>2, <1>3, <2>1, <2>2 DEF Whole, WholeRun, Running
<1>5. CASE WriteJson \/ WriteCsv
  <2>1. pc \in {"json", "csv"}
    BY <1>5 DEF WriteJson, WriteCsv
  <2>2. QED BY <1>1, <1>2, <1>3, <2>1 DEF Whole, WholeRun, Running
<1>6. QED BY <1>4, <1>5

LEMMA DieWhole ==
  ASSUME CoreInv, Whole, Die, ~TornWrites
  PROVE  Whole'
<1>1. /\ lines' = lines /\ cut' = cut /\ done' = done /\ pc' = "down"
  BY DEF Die, run
<1>2. WholeFile'
  BY <1>1, SameFile DEF Whole, WholeFile
<1>3. QED BY <1>1, <1>2 DEF Whole, WholeRun, Running

LEMMA StutterWhole ==
  ASSUME CoreInv, Whole, UNCHANGED vars
  PROVE  Whole'
<1>1. lines' = lines /\ cut' = cut /\ done' = done
  BY DEF vars, disk, run
<1>2. WholeFile' /\ DoneKeys' = DoneKeys
  BY <1>1, SameFile DEF Whole, WholeFile
<1>3. Before(pos)' = Before(pos) /\ PlanUnits' = PlanUnits /\ (Running' <=> Running)
  BY DEF Before, PlanUnits, Plan, Running, vars, run
<1>4. WholeRun' <=> WholeRun
  BY <1>2, <1>3 DEF WholeRun, vars, run
<1>5. QED BY <1>2, <1>4 DEF Whole

LEMMA WholeStep == ~TornWrites /\ CoreInv /\ Whole /\ [Next]_vars => Whole'
<1> SUFFICES ASSUME ~TornWrites, CoreInv, Whole, [Next]_vars PROVE Whole'
  OBVIOUS
<1>1. CASE UNCHANGED vars
  BY <1>1, StutterWhole
<1>2. CASE AnyStart
  <2>1. PICK e \in Envs, engines \in SUBSET Engines, ns \in SizeLists : Start(e, engines, ns)
    BY <1>2 DEF AnyStart
  <2>2. QED BY <2>1, StartWhole
<1>3. CASE Skip
  BY <1>3, SkipWhole
<1>4. CASE Generate
  BY <1>4, GenerateWhole
<1>5. CASE Measure
  BY <1>5, MeasureWhole
<1>6. CASE AppendRows
  BY <1>6, AppendWhole
<1>7. CASE OpenLedger \/ WriteJson \/ WriteCsv
  BY <1>7, EndWhole
<1>8. CASE Die
  BY <1>8, DieWhole
<1>9. QED BY <1>1, <1>2, <1>3, <1>4, <1>5, <1>6, <1>7, <1>8 DEF Next, Step

-----------------------------------------------------------------------------
(* The theorems.                                                             *)

\* What the running sweep has put into the file, and what it still may, is an
\* inductive invariant, whatever a run that dies leaves behind an append.
THEOREM Invariance == Spec => []IInv
<1>1. Init => IInv
  <2> SUFFICES ASSUME Init PROVE IInv
    OBVIOUS
  <2>1. CoreInv
    BY CoreInit
  <2>2. DOMAIN lines = {} /\ DoneKeys = {} /\ ~cut /\ done = {} /\ pc = "down"
    BY DEF Init, DoneKeys
  <2>3. WholeFile /\ WholeRun
    BY <2>2 DEF WholeFile, WholeRun, AnchoredFirst, Running
  <2>4. QED BY <2>1, <2>3 DEF IInv
<1>2. IInv /\ [Next]_vars => IInv'
  BY CoreStep, WholeStep DEF IInv, Whole
<1>3. QED BY <1>1, <1>2, PTL DEF Spec

\* The variables keep their types: every line of the checkpoint is a row of a
\* unit of some plan, or junk.
THEOREM TypeCorrect == Spec => []TypeOK
<1>1. IInv => TypeOK
  BY DEF IInv, CoreInv
<1>2. QED BY <1>1, Invariance, PTL

\* NoDoubleRow holds of every run, with appends that reach the disk in part
\* too: done_keys() names whatever unit has a row on file, whole or not.
THEOREM NothingTwice == Spec => []NoDoubleRow
<1>1. IInv => NoDoubleRow
  BY DEF IInv, CoreInv
<1>2. QED BY <1>1, Invariance, PTL

\* If every append reaches the disk whole, what a run skips is complete.
THEOREM SkippingIsSafe == ASSUME ~TornWrites PROVE Spec => []SkippedIsComplete
<1>1. IInv => SkippedIsComplete
  BY DEF IInv, WholeFile, SkippedIsComplete
<1>2. QED BY <1>1, Invariance, PTL

\* And each size's exact anchor is in the ledger before its variants, however
\* often the sweep died between the two.
THEOREM AnchorComesFirst == ASSUME ~TornWrites PROVE Spec => []AnchoredFirst
<1>1. IInv => AnchoredFirst
  BY DEF IInv, WholeFile
<1>2. QED BY <1>1, Invariance, PTL

\* And a run that finishes leaves two ledgers of the same rows, with every row
\* of every unit whose engine it found up.
THEOREM FinishedRunIsWhole == ASSUME ~TornWrites PROVE Spec => []FinishedIsWhole
<1>1. IInv => FinishedIsWhole
  <2> SUFFICES ASSUME IInv, pc = "finished" PROVE FinishedIsWhole
    BY DEF FinishedIsWhole
  <2>1. json.rows = lines /\ csv = lines
    BY DEF IInv, CoreInv
  <2>2. \A u \in PlanUnits : EngineOf[u[1]] \in up => u \in DoneKeys
    BY DEF IInv, WholeRun
  <2>3. \A u \in DoneKeys : Complete(u)
    BY DEF IInv, WholeFile
  <2>4. QED BY <2>1, <2>2, <2>3 DEF FinishedIsWhole
<1>2. QED BY <1>1, Invariance, PTL

-----------------------------------------------------------------------------
(* The audit: the rows of a claim's own size come before any others that     *)
(* have its needles.                                                         *)

\* A product is monotonic in a factor, by whole steps.
LEMMA Multiples ==
  ASSUME NEW L \in Nat, NEW b \in Nat, NEW c \in Nat, c < b
  PROVE  L * c \in Nat /\ L * b \in Nat /\ L * c + L <= L * b
<1> DEFINE d == b - (c + 1)
<1>1. d \in Nat /\ b = (c + 1) + d
  OBVIOUS
<1> HIDE DEF d
<1>2. L * c \in Nat /\ L * d \in Nat /\ L * b \in Nat
  BY <1>1
<1>3. L * b = L * c + L + L * d
  BY <1>1
<1>4. QED BY <1>2, <1>3

\* Quotient and remainder are the only ones.
LEMMA QuotientIs ==
  ASSUME NEW L \in Nat, 0 < L, NEW a \in 0 .. L - 1, NEW c \in Nat
  PROVE  (L * c + a) % L = a /\ (L * c + a) \div L = c
<1> DEFINE n == L * c + a
           q == n \div L
           r == n % L
<1>1. n \in Nat
  OBVIOUS
<1> HIDE DEF n
<1>2. q \in Nat /\ r \in 0 .. L - 1 /\ n = L * q + r
  BY <1>1
<1> HIDE DEF q, r
<1>3. L * q + r = L * c + a /\ L * q \in Nat /\ L * c \in Nat
  BY <1>2 DEF n
<1>4. ~(q < c)
  <2> SUFFICES ASSUME q < c PROVE FALSE
    OBVIOUS
  <2>1. L * q + L <= L * c
    BY <1>2, Multiples
  <2>2. QED BY <1>2, <1>3, <2>1
<1>5. ~(c < q)
  <2> SUFFICES ASSUME c < q PROVE FALSE
    OBVIOUS
  <2>1. L * c + L <= L * q
    BY <1>2, Multiples
  <2>2. QED BY <1>2, <1>3, <2>1
<1>6. q = c
  BY <1>2, <1>4, <1>5
<1>7. r = a
  BY <1>2, <1>3, <1>6
<1>8. QED BY <1>6, <1>7 DEF n, q, r

\* The unit of the same variant and a smaller size comes earlier in a sweep
\* that passes through that size.
LEMMA SmallerIsEarlier ==
  ASSUME AscendingSweeps, NEW ns \in SizeLists, NEW p \in DOMAIN PlanOf(ns), NEW N \in AllSizes,
         N # PlanOf(ns)[p][2], <<PlanOf(ns)[p][2], N>> \in Contains
  PROVE  \E k \in DOMAIN PlanOf(ns) : k < p /\ PlanOf(ns)[k] = <<PlanOf(ns)[p][1], N>>
<1> DEFINE L == Len(Variants)
           P == PlanOf(ns)
           a == (p - 1) % L
           b == (p - 1) \div L
<1>1. L \in Nat /\ Len(ns) \in Nat /\ DOMAIN ns = 1 .. Len(ns)
  <2>1. Variants \in Seq({Variants[i] : i \in DOMAIN Variants} \ {"oracle"})
    BY NamesAssumption
  <2>2. ns \in Seq(AllSizes)
    BY NamesAssumption
  <2>3. QED BY <2>1, <2>2, LenProperties
<1>2. /\ DOMAIN P = 1 .. Len(ns) * L
      /\ \A k \in DOMAIN P : P[k] = <<Variants[((k - 1) % L) + 1], ns[((k - 1) \div L) + 1]>>
  BY DEF PlanOf
<1> HIDE DEF L, P
<1>3. p \in Nat /\ 1 <= p /\ p <= Len(ns) * L /\ p - 1 \in Nat /\ p - 1 < Len(ns) * L /\ 0 < L
  <2>1. Len(ns) * L \in Nat
    BY <1>1
  <2>2. p \in Nat /\ 1 <= p /\ p <= Len(ns) * L /\ p - 1 \in Nat /\ p - 1 < Len(ns) * L
    BY <1>2, <2>1 DEF P
  <2>3. L # 0
    BY <1>1, <2>2
  <2>4. QED BY <1>1, <2>2, <2>3
<1>4. a \in 0 .. L - 1 /\ b \in Nat /\ b < Len(ns) /\ p - 1 = L * b + a
  <2>1. a \in 0 .. L - 1 /\ b \in Nat /\ p - 1 = L * b + a
    BY <1>1, <1>3
  <2>2. b < Len(ns)
    BY <1>1, <1>3, QuotientBound
  <2>3. QED BY <2>1, <2>2
<1>5. P[p] = <<Variants[a + 1], ns[b + 1]>>
  BY <1>2 DEF P
<1> HIDE DEF a, b
<1>6. b + 1 \in DOMAIN ns /\ ns[b + 1] = P[p][2]
  BY <1>1, <1>4, <1>5
<1>7. PICK i \in DOMAIN ns : i < b + 1 /\ ns[i] = N
  BY <1>6 DEF AscendingSweeps, P
<1>8. PICK c \in Nat : c = i - 1 /\ c < b
  BY <1>1, <1>4, <1>7
<1> DEFINE k == L * c + a + 1
<1>9. L * c \in Nat /\ L * c + L <= L * b /\ L * b \in Nat
  BY <1>1, <1>4, <1>8, Multiples
<1>10. k \in Nat /\ 1 <= k /\ k < p /\ k - 1 = L * c + a /\ k \in DOMAIN P
  <2>1. k \in Nat /\ 1 <= k /\ k < p /\ k - 1 = L * c + a
    BY <1>1, <1>3, <1>4, <1>9
  <2>2. k <= Len(ns) * L /\ Len(ns) * L \in Nat
    BY <1>1, <1>3, <2>1
  <2>3. QED BY <1>2, <2>1, <2>2
<1>11. (k - 1) % L = a /\ (k - 1) \div L = c
  <2> HIDE DEF k
  <2>1. (L * c + a) % L = a /\ (L * c + a) \div L = c
    BY <1>1, <1>3, <1>4, <1>8, QuotientIs
  <2>2. QED BY <1>10, <2>1
<1>12. P[k] = <<Variants[a + 1], ns[i]>>
  <2> HIDE DEF k
  <2>1. c + 1 = i
    BY <1>1, <1>7, <1>8
  <2>2. QED BY <1>2, <1>10, <1>11, <2>1
<1>13. P[k] = <<P[p][1], N>>
  BY <1>5, <1>7, <1>12
<1>14. QED BY <1>10, <1>13 DEF P

\* A set of positions that is not empty has a first one.
LEMMA FirstPosition ==
  ASSUME NEW S \in SUBSET Nat, S # {}
  PROVE  \E i \in S : \A j \in S : i <= j
<1> DEFINE Below == OpToRel(<, Nat)
<1>1. IsWellFoundedOn(Below, Nat)
  BY NatLessThanWellFounded
<1>2. \A x, y \in Nat : y < x => <<y, x>> \in Below
  BY DEF OpToRel
<1> HIDE DEF Below
<1>3. PICK x \in S : \A y \in S : ~(<<y, x>> \in Below)
  BY <1>1, WFMin
<1>4. x \in Nat /\ \A y \in S : y \in Nat /\ ~(y < x)
  BY <1>2, <1>3
<1>5. \A y \in S : x <= y
  BY <1>4
<1>6. QED BY <1>5

AuditFacts == (pc = "append" => EngineOf[Unit[1]] \in up) /\ OwnSizeFirst

\* Only an append changes the file.
LEMMA SameOrder ==
  ASSUME OwnSizeFirst, lines' = lines
  PROVE  OwnSizeFirst'
BY DEF OwnSizeFirst

LEMMA AppendAudit ==
  ASSUME ~TornWrites, AscendingSweeps, AuditInv, AppendRows
  PROVE  OwnSizeFirst'
<1>1. /\ pc = "append" /\ lines' = Appended(UnitLines(out, env)) /\ up' = up
      /\ CoreInv /\ WholeFile /\ WholeRun /\ env \in Envs /\ lines \in Seq(Line)
      /\ EngineOf[Unit[1]] \in up /\ OwnSizeFirst
  BY DEF AppendRows, AuditInv, IInv, CoreInv, TypeOK
<1>2. /\ out \in Units /\ out \notin DoneKeys /\ sizes \in SizeLists
      /\ pos \in DOMAIN Plan /\ Unit \in VariantUnits
      /\ out \in Oracles \/ out = Unit
  BY <1>1, WhatIsAppended
<1>3. /\ \A i \in DOMAIN lines : i \in DOMAIN lines' /\ lines'[i] = lines[i]
      /\ \A i \in DOMAIN lines' :
           \/ i \in DOMAIN lines
           \/ /\ \E k \in 1 .. RowsOf(out) : lines'[i] = RowOf(out, env, k)
              /\ \A j \in DOMAIN lines : j \in 1 .. i
  BY <1>1, <1>2, AppendedWhole DEF WholeFile
<1> SUFFICES ASSUME NEW i \in DOMAIN lines', NEW N \in AllSizes, NEW n \in 1 .. RowsPerUnit,
                    lines'[i].unit \in VariantUnits, N # lines'[i].unit[2],
                    <<lines'[i].unit[2], N>> \in Contains
             PROVE  \E j \in 1 .. i : lines'[j].unit = <<lines'[i].unit[1], N>> /\ lines'[j].row = n
  BY DEF OwnSizeFirst
<1>4. DOMAIN lines = 1 .. Len(lines) /\ Len(lines) \in Nat
  BY <1>1, NonEmptyFile
<1>5. CASE i \in DOMAIN lines
  <2>1. \E j \in 1 .. i : lines[j].unit = <<lines[i].unit[1], N>> /\ lines[j].row = n
    <3>1. lines'[i] = lines[i]
      BY <1>3, <1>5
    <3>2. /\ lines[i].unit \in VariantUnits /\ N # lines[i].unit[2]
          /\ <<lines[i].unit[2], N>> \in Contains
      BY <3>1
    <3>3. QED BY <1>1, <1>5, <3>2 DEF OwnSizeFirst
  <2>2. PICK j \in 1 .. i : lines[j].unit = <<lines[i].unit[1], N>> /\ lines[j].row = n
    BY <2>1
  <2>3. j \in DOMAIN lines
    BY <1>4, <1>5, <2>2
  <2>4. QED BY <1>3, <1>5, <2>2, <2>3
<1>6. CASE i \notin DOMAIN lines
  <2>1. lines'[i].unit = out /\ \A j \in DOMAIN lines : j \in 1 .. i
    BY <1>3, <1>6 DEF RowOf
  <2>2. out = Unit
    BY <1>2, <2>1, Names
  <2> DEFINE own == <<Unit[1], N>>
  <2>3. PICK k \in DOMAIN Plan : k < pos /\ Plan[k] = own
    BY <1>2, <2>1, <2>2, SmallerIsEarlier DEF Plan, Unit
  <2>4. own \in Before(pos) /\ own[1] = Unit[1]
    BY <2>3 DEF Before
  <2>5. own \in DoneKeys
    BY <1>1, <2>4 DEF WholeRun, Running
  <2>6. own \in VariantUnits
    BY <1>2, <2>3, ThePlan
  <2>7. RowsOf(own) = RowsPerUnit /\ Complete(own)
    BY <1>1, <2>5, <2>6, Names DEF RowsOf, WholeFile
  <2>8. PICK j \in DOMAIN lines : lines[j].unit = own /\ lines[j].row = n
    BY <2>7 DEF Complete, OnDisk
  <2>9. QED BY <1>3, <2>1, <2>2, <2>8
<1>7. QED BY <1>5, <1>6

LEMMA AuditStep ==
  ~TornWrites /\ AscendingSweeps /\ AuditInv /\ IInv' /\ [Next]_vars => AuditInv'
<1> SUFFICES ASSUME ~TornWrites, AscendingSweeps, AuditInv, IInv', [Next]_vars
             PROVE  AuditFacts'
  BY DEF AuditInv, AuditFacts
<1>1. OwnSizeFirst /\ (pc = "append" => EngineOf[Unit[1]] \in up)
  BY DEF AuditInv
<1>2. CASE AppendRows
  BY <1>2, AppendAudit DEF AppendRows, AuditFacts
<1>3. CASE UNCHANGED vars
  <2>1. lines' = lines /\ pc' = pc /\ up' = up /\ Unit' = Unit
    BY <1>3 DEF vars, disk, run, Unit, Plan
  <2>2. QED BY <1>1, <2>1, SameOrder DEF AuditFacts
<1>4. CASE AnyStart
  <2>1. lines' = lines /\ pc' = "loop"
    BY <1>4 DEF AnyStart, Start, disk
  <2>2. QED BY <1>1, <2>1, SameOrder DEF AuditFacts
<1>5. CASE Skip \/ OpenLedger \/ WriteJson \/ WriteCsv \/ Die
  <2>1. lines' = lines /\ pc' # "append"
    BY <1>5 DEF Skip, OpenLedger, WriteJson, WriteCsv, Die, disk, InLoop
  <2>2. QED BY <1>1, <2>1, SameOrder DEF AuditFacts
<1>6. CASE Generate \/ Measure
  <2>1. lines' = lines /\ up' = up /\ EngineOf[Unit[1]] \in up /\ Unit' = Unit
    BY <1>6 DEF Generate, Measure, Pending, disk, Unit, Plan
  <2>2. QED BY <1>1, <2>1, SameOrder DEF AuditFacts
<1>7. QED BY <1>2, <1>3, <1>4, <1>5, <1>6 DEF Next, Step

\* In such sweeps each row of the file comes behind the rows of its engine that
\* a claim with its needles should resolve to.
THEOREM AuditInvariance == ASSUME ~TornWrites, AscendingSweeps PROVE Spec => []AuditInv
<1>1. Init /\ IInv => AuditInv
  <2> SUFFICES ASSUME Init, IInv PROVE AuditInv
    OBVIOUS
  <2>1. DOMAIN lines = {} /\ pc = "down"
    BY DEF Init
  <2>2. QED BY <2>1 DEF AuditInv, OwnSizeFirst
<1>2. AuditInv /\ IInv' /\ [Next]_vars => AuditInv'
  BY AuditStep
<1>3. QED BY <1>1, <1>2, Invariance, PTL DEF Spec

\* The first row with the needles of a claim is the claim's own.
LEMMA FirstMatchIsOwn ==
  ASSUME ~TornWrites, AuditInv, pc = "finished", NEW c \in Claims
  PROVE  /\ Complete(c.unit) => Resolve(c) # NoRow
         /\ Resolve(c) # NoRow => Resolve(c).unit = c.unit
<1>1. /\ json.rows = lines /\ WholeFile /\ OwnSizeFirst /\ lines \in Seq(Line)
  BY DEF AuditInv, IInv, CoreInv, TypeOK
<1>2. DOMAIN lines = 1 .. Len(lines) /\ Len(lines) \in Nat /\ Matches(c) \subseteq DOMAIN lines
  BY <1>1, NonEmptyFile DEF Matches
<1>3. c.unit \in VariantUnits /\ c.row \in 1 .. RowsPerUnit
  BY DEF Claims
<1>4. ASSUME Complete(c.unit)
      PROVE  Matches(c) # {}
  <2>1. c.row \in 1 .. RowsOf(c.unit)
    BY <1>3, Names DEF RowsOf
  <2>2. PICK i \in DOMAIN lines : lines[i].unit = c.unit /\ lines[i].row = c.row
    BY <1>4, <2>1 DEF Complete, OnDisk
  <2>3. i \in Matches(c)
    BY <1>1, <2>2 DEF Matches, Finds
  <2>4. QED BY <2>3
<1>5. ASSUME Matches(c) # {}
      PROVE  Resolve(c) # NoRow /\ Resolve(c).unit = c.unit
  <2> DEFINE first == CHOOSE i \in Matches(c) : \A j \in Matches(c) : i <= j
  <2>1. first \in Matches(c) /\ \A j \in Matches(c) : first <= j
    <3>1. Matches(c) \in SUBSET Nat
      BY <1>2
    <3>2. \E i \in Matches(c) : \A j \in Matches(c) : i <= j
      BY <1>5, <3>1, FirstPosition
    <3>3. QED BY <3>2
  <2>2. Resolve(c) = lines[first]
    BY <1>1, <1>5 DEF Resolve
  <2> HIDE DEF first
  <2>3. first \in DOMAIN lines /\ lines[first] # NoRow /\ lines[first].unit \in Units
    <3>1. first \in DOMAIN lines /\ lines[first] # Junk
      BY <1>1, <1>2, <2>1 DEF WholeFile
    <3>2. lines[first] \in Line
      BY <1>1, <3>1, LenProperties, ElementOfSeq
    <3>3. QED BY <3>1, <3>2, JunkIsALine DEF NoRow
  <2>4. /\ lines[first].unit[1] = c.unit[1] /\ Finds(lines[first].unit[2], c.unit[2])
        /\ lines[first].row = c.row
    BY <1>1, <2>1 DEF Matches
  <2>5. lines[first].unit \in VariantUnits
    <3>1. c.unit[1] \in {Variants[i] : i \in DOMAIN Variants} /\ c.unit[1] # "oracle"
      BY <1>3, VariantNames DEF VariantUnits
    <3>2. \A N : Oracle(N)[1] = "oracle"
      BY DEF Oracle
    <3>3. QED BY <2>3, <2>4, <3>1, <3>2 DEF Units, Oracles
  <2>6. c.unit[2] \in AllSizes /\ c.unit = <<c.unit[1], c.unit[2]>>
        /\ lines[first].unit = <<lines[first].unit[1], lines[first].unit[2]>>
    BY <1>3, <2>5 DEF VariantUnits
  <2>7. ASSUME lines[first].unit[2] # c.unit[2]
        PROVE  FALSE
    <3>1. <<lines[first].unit[2], c.unit[2]>> \in Contains
      BY <2>4, <2>7 DEF Finds
    <3>2. PICK j \in 1 .. first : lines[j].unit = <<lines[first].unit[1], c.unit[2]>> /\ lines[j].row = c.row
      BY <1>1, <1>3, <2>3, <2>5, <2>6, <2>7, <3>1 DEF OwnSizeFirst
    <3>3. j \in DOMAIN lines /\ lines[j].unit = c.unit
      BY <1>2, <2>3, <2>4, <2>6, <3>2
    <3>4. j \in Matches(c)
      BY <1>1, <3>2, <3>3 DEF Matches, Finds
    <3>5. first <= j /\ j <= first /\ first \in Nat /\ j \in Nat
      BY <1>2, <2>1, <2>3, <3>2, <3>3, <3>4
    <3>6. j = first
      BY <3>5
    <3>7. QED BY <2>7, <3>3, <3>6
  <2>8. QED BY <2>2, <2>3, <2>4, <2>6, <2>7
<1>6. QED BY <1>4, <1>5 DEF Resolve

\* "Resolves every numeric claim to its canonical ledger row": if sweeps pass
\* through the smaller sizes first, as by default, a claim never resolves to
\* the row of another size, although its needles may be found there, however
\* many runs died or missed an engine before.
THEOREM ClaimsResolveToOwnRows ==
  ASSUME ~TornWrites, AscendingSweeps PROVE Spec => []ResolvesToOwnRow
<1>1. AuditInv => ResolvesToOwnRow
  BY FirstMatchIsOwn DEF ResolvesToOwnRow
<1>2. QED BY <1>1, AuditInvariance, PTL
=============================================================================
