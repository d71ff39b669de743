------------------------- MODULE MCGuaranteeProbe ---------------------------
(* Small instances of a run over a reference backend: four records that go   *)
(* round two tenants, some with a closed interval, and two queries that rank *)
(* them in any two ways, the second one with r2 before r4.                   *)
EXTENDS GuaranteeProbe, TLC

CONSTANTS r1, r2, r3, r4, t1, t2

MCChainOf == (r1 :> 1) @@ (r2 :> 2) @@ (r3 :> 3) @@ (r4 :> 4)

MCTenants == <<t1, t2>>

RoundRobin == (r1 :> t1) @@ (r2 :> t2) @@ (r3 :> t1) @@ (r4 :> t2)

\* superseded_frac: any of two records is closed at 2, all begin at 0.
MCCorpora ==
  {[r \in Rid |-> [tenant |-> RoundRobin[r], from |-> 0,
                   until |-> IF r \in closed THEN 2 ELSE TOpen]] :
     closed \in SUBSET {r1, r2}}

MCQuerySets == {<<p, q>> : p \in Queries, q \in {x \in Queries : x[r2] < x[r4]}}
=============================================================================
