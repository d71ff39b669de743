----------------------------- MODULE MCPgVector -----------------------------
(* A small instance of the pgvector adapter: a chain of three versions with  *)
(* one tenant and a record of its own with another.                          *)
EXTENDS PgVector, TLC

CONSTANTS r1, r2, r3, r4, t1, t2

MCChainOf == (r1 :> 1) @@ (r2 :> 1) @@ (r3 :> 1) @@ (r4 :> 2)

MCTenantOf == (r1 :> t1) @@ (r2 :> t1) @@ (r3 :> t1) @@ (r4 :> t2)

Iv(from, until) == [from |-> from, until |-> until]

\* Batches of one page and of two; a record of each shape, which rewrites the
\* rid if it is stored.
MCBatches ==
  {(r1 :> Iv(0, 1)) @@ (r2 :> Iv(1, TOpen)) @@ (r4 :> Iv(0, TOpen)),
   (r2 :> Iv(1, 2)) @@ (r3 :> Iv(2, TOpen)),
   r1 :> Iv(0, TOpen), r3 :> Iv(0, TOpen), r4 :> Iv(1, 2)}
=============================================================================
