------------------------ MODULE MCCheckpointLedger --------------------------
(* Small instances of the resumable drivers and of the audit of what they    *)
(* leave: two sizes, in the ledger's text one is a prefix of the other       *)
(* ("N=100000" and "N=1000000"), a variant for each of two engines, two rows *)
(* per unit, runs that die or miss an engine.                                *)
EXTENDS NumbersAudit, TLC

OneSize == {<<"100000">>}
\* Every sweep that reaches the larger size passes through the smaller one.
Ascending == {<<"100000">>, <<"100000", "1000000">>}
\* The two sweeps the documentation gives, in either order: the default sizes,
\* and the 1e6 point by itself.
TwoSweeps == {<<"100000">>, <<"1000000">>}
MCContains == {<<"1000000", "100000">>}
MCVariants == <<"pgvector", "qdrant">>
MCEngineOf == ("pgvector" :> "pg") @@ ("qdrant" :> "qd")
=============================================================================
