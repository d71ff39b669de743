--------------------------- MODULE MCPgPartitioned --------------------------
(* Small instances of the partitioned adapter: epochs of two instants, two   *)
(* epoch tables and cur; one chain of two versions and a chain of its own.   *)
EXTENDS PgPartitionedInv, TLC

CONSTANTS r1, r2, r3

MCChainOf == (r1 :> 1) @@ (r2 :> 1) @@ (r3 :> 2)

Iv(from, until) == [from |-> from, until |-> until]

\* One record of any shape, and batches of two: a closed version with its open
\* successor, and two chains loaded together.
MCBatches ==
  {b \in UNION {[{r} -> Interval] : r \in Rid} : \A r \in DOMAIN b : b[r].from < b[r].until}
  \cup {(r1 :> Iv(0, 2)) @@ (r2 :> Iv(2, TOpen)),
        (r1 :> Iv(0, TOpen)) @@ (r3 :> Iv(3, 4)),
        (r2 :> Iv(0, 3)) @@ (r3 :> Iv(2, TOpen))}

\* One chain of three versions, which grows by supersede.
OneChain == [r \in Rid |-> 1]

\* Only the first version of a chain is written; the others supersede it.
OpenBatches == {[x \in {r} |-> Iv(0, TOpen)] : r \in Rid}
=============================================================================
