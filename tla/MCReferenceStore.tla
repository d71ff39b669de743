------------------------- MODULE MCReferenceStore ---------------------------
(* Small instances of the reference backends: two versions of one memory and *)
(* a memory of another tenant or of the same one.                            *)
EXTENDS ReferenceStore, TLC

CONSTANTS r1, r2, r3, t1, t2

MCChainOf == (r1 :> 1) @@ (r2 :> 1) @@ (r3 :> 2)
=============================================================================
