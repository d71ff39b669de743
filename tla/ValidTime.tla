------------------------------ MODULE ValidTime -----------------------------
(* Valid-time intervals, half open, and the sentinel of one that still runs. *)
EXTENDS Integers

CONSTANTS
  TOpen,    \* T_OPEN: valid_until of a row that is still true
  Instant   \* the instants callers use, in validity intervals and as as_of

\* A start before the epoch has no table (floor division gives -1), so
\* instants are naturals; every one of them lies before the sentinel.
ASSUME InstantAssumption == /\ Instant \subseteq Nat
                            /\ TOpen \in Nat
                            /\ \A t \in Instant : t < TOpen

Interval == [from : Instant, until : Instant \cup {TOpen}]

IsOpen(iv) == iv.until >= TOpen

ValidAt(iv, t) == iv.from <= t /\ t < iv.until

Apart(a, b) == a.until <= b.from \/ b.until <= a.from

\* (mutant) valid_until taken as the last valid instant
Closed_Inclusive(iv, at) == [iv EXCEPT !.until = at - 1]

Closed(iv, at) == [iv EXCEPT !.until = at]
=============================================================================
