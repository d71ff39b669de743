--------------------------- MODULE EpochPlacement ---------------------------
(* Placement and routing of the epoch-partitioned adapters: in which epoch   *)
(* tables a valid-time interval is stored, and which one table an as_of read *)
(* looks into.  Pure definitions, shared by the modules of both partitioned  *)
(* adapters (one table, or one collection, per epoch, and one for "now").    *)
EXTENDS ValidTime

CONSTANTS
  Epoch,    \* EPOCH: how long one epoch lasts
  MaxEpoch  \* max_epoch: the last epoch that has a table of its own

ASSUME EpochAssumption == /\ Epoch \in Nat \ {0}
                          /\ MaxEpoch \in Nat

Cur   == -1                       \* rq9p_cur, the current snapshot
Epochs == 0 .. MaxEpoch           \* rq9p_e0, rq9p_e1, ...
Table == Epochs \cup {Cur}

\* (mutant) the start epoch is not clamped to the last one
FirstEpoch_NoClamp(from) == from \div Epoch

\* The epoch a start falls into, clamped so that no row is without a table.
FirstEpoch(from) == IF from \div Epoch < MaxEpoch THEN from \div Epoch ELSE MaxEpoch

\* (mutant) the range of a closed interval stops one epoch early
EpochsFor_Exclusive(iv) ==
  {e \in Epochs : /\ FirstEpoch(iv.from) <= e
                  /\ IsOpen(iv) \/ e < (iv.until - 1) \div Epoch}

\* epochs_for: every epoch a closed interval overlaps, capped at MaxEpoch; an
\* open one goes from its first epoch through the last.
EpochsFor(iv) ==
  {e \in Epochs : /\ FirstEpoch(iv.from) <= e
                  /\ IsOpen(iv) \/ e <= (iv.until - 1) \div Epoch}

\* Where write() puts a row: its epoch tables, and cur as well if it is open.
TablesOf(iv) == EpochsFor(iv) \cup {c \in {Cur} : IsOpen(iv)}

\* _route: the one table that is asked about instant t.
Route(t) == IF t \div Epoch <= MaxEpoch THEN t \div Epoch ELSE Cur

\* The first instant that no epoch table covers.
Horizon == (MaxEpoch + 1) * Epoch

\* Does the interval share an instant with epoch e, [e*Epoch, (e+1)*Epoch)?
Overlaps(iv, e) == iv.from < (e + 1) * Epoch /\ e * Epoch < iv.until
=============================================================================
