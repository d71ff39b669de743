------------------------- MODULE MCQdrantMonolith ---------------------------
(* A small instance of the Qdrant adapter: a chain of two versions with one  *)
(* tenant and a record of its own with another.                              *)
EXTENDS QdrantMonolithInv, TLC

CONSTANTS r1, r2, r3, t1, t2

MCChainOf == (r1 :> 1) @@ (r2 :> 1) @@ (r3 :> 2)

MCTenantOf == (r1 :> t1) @@ (r2 :> t1) @@ (r3 :> t2)

Iv(from, until) == [from |-> from, until |-> until]

\* Batches of one chunk, two and three.
MCBatches ==
  {(r1 :> Iv(0, 1)) @@ (r2 :> Iv(1, TOpen)) @@ (r3 :> Iv(0, TOpen)),
   (r1 :> Iv(0, TOpen)) @@ (r3 :> Iv(0, 1)),
   r1 :> Iv(0, TOpen),
   r3 :> Iv(1, TOpen)}
=============================================================================
