----------------------------- MODULE NumbersAudit ---------------------------
(* The audit of the paper's numbers, over the ledger the resumable drivers   *)
(* leave: a claim names an engine, a size and a kind of row, and resolves to *)
(* the first ledger row of that engine in whose text its needles are found.  *)
(* (The claims that take a maximum over all such rows are left out.)  In     *)
(* which order rows stand in the ledger is the history of the runs.          *)
EXTENDS CheckpointLedger

CONSTANT Contains  \* pairs <<text, needle>>: the sizes whose text has another's in it

\* What a claim of the paper is about: one row of one measured unit.
Claims == {[unit |-> u, row |-> n] : u \in VariantUnits, n \in 1 .. RowsPerUnit}

Finds(text, needle) == text = needle \/ <<text, needle>> \in Contains

\* Exact on the engine, by needles on everything else.
Matches(c) ==
  {i \in DOMAIN json.rows :
     /\ json.rows[i].unit[1] = c.unit[1]
     /\ Finds(json.rows[i].unit[2], c.unit[2])
     /\ json.rows[i].row = c.row}

NoRow == Junk

\* (mutant) the last match is taken
Resolve_Last(c) ==
  IF Matches(c) = {} THEN NoRow
  ELSE json.rows[CHOOSE i \in Matches(c) : \A j \in Matches(c) : j <= i]

\* match(): the first row that satisfies the claim, if any.
Resolve(c) ==
  IF Matches(c) = {} THEN NoRow
  ELSE json.rows[CHOOSE i \in Matches(c) : \A j \in Matches(c) : i <= j]

\* "Resolves every numeric claim to its canonical ledger row": a claim whose
\* row the ledger has resolves to it, and no claim resolves to the row of
\* another size, whichever runs died, resumed or missed an engine before.
ResolvesToOwnRow ==
  pc = "finished" =>
    \A c \in Claims :
      /\ Complete(c.unit) => Resolve(c) # NoRow
      /\ Resolve(c) # NoRow => Resolve(c).unit = c.unit

\* The same of the rows that are there, whatever sweeps led to the ledger: the
\* canonical row of a claim is the one of the size it names.
CanonicalRow ==
  pc = "finished" => \A c \in Claims : Complete(c.unit) => Resolve(c).unit = c.unit

-----------------------------------------------------------------------------
(* What the audit rests on, and the inductive invariant that shows it.       *)

\* A sweep that reaches a size passes through those whose text is found in its
\* text, as the default sizes of run_scale do.
AscendingSweeps ==
  \A ns \in SizeLists : \A j \in DOMAIN ns, N \in AllSizes :
    N # ns[j] /\ <<ns[j], N>> \in Contains => \E i \in DOMAIN ns : i < j /\ ns[i] = N

\* No row stands in the file before those of its engine that have its needles
\* for their size.
OwnSizeFirst ==
  \A i \in DOMAIN lines, N \in AllSizes, n \in 1 .. RowsPerUnit :
    /\ lines[i].unit \in VariantUnits
    /\ N # lines[i].unit[2] /\ <<lines[i].unit[2], N>> \in Contains
    => \E j \in 1 .. i : lines[j].unit = <<lines[i].unit[1], N>> /\ lines[j].row = n

\* The inductive strengthening of ResolvesToOwnRow, for such sweeps and appends
\* that reach the disk whole: the engine of what is appended is up, so the
\* sweep has not missed it at the smaller sizes.
AuditInv ==
  /\ IInv
  /\ pc = "append" => EngineOf[Unit[1]] \in up
  /\ OwnSizeFirst
=============================================================================
