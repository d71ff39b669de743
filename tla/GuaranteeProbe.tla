---------------------------- MODULE GuaranteeProbe --------------------------
(* run_all over one reference backend: the scenarios are measured one after  *)
(* the other against the exact oracle of the corpus, each yields a ledger    *)
(* row with a verdict, and the last one deletes records and then polls the   *)
(* store until none of them is retrievable.                                  *)
EXTENDS ReferenceStore

CONSTANTS
  K,          \* k of every retrieval
  MaxProbes,  \* max_probes of delete_unretrievable (200 in the code)
  Tenants,    \* c.tenants, a sequence
  AsOfT,      \* as_of_t of run_as_of, inside the closed intervals
  Corpora,    \* the corpora a run may measure: rids to records
  QuerySets   \* the sequences of queries a run may ask

\* Someone asks something of someone, and the limit of it is positive.
ASSUME RunAssumption ==
  /\ IsFiniteSet(Rid) /\ K \in Nat \ {0} /\ MaxProbes \in Nat \ {0}
  /\ Tenants \in Seq(Tenant) \ {<<>>} /\ AnyTenant \notin Tenant
  /\ AsOfT \in Instant
  /\ QuerySets \subseteq Seq(Queries) \ {<<>>}

\* The records go round the tenants, each tenant has one, and one is valid
\* at the instant asked about; so no oracle answer is empty.
ASSUME CorpusAssumption ==
  \A c \in Corpora :
    /\ c \in [Rid -> Record]
    /\ \A i \in DOMAIN Tenants : \E r \in Rid : c[r].tenant = Tenants[i]
    /\ \E r \in Rid : ValidAt(c[r], AsOfT)

VARIABLES
  corpus, queries,
  turn,     \* how many scenarios have begun; Len(Order) + 1 once all are over
  deleted,  \* to_delete
  probes,   \* retrievals made by delete_unretrievable
  ledger    \* scenario to row

runvars == <<corpus, queries, turn, deleted, probes, ledger>>
allvars == <<vars, runvars>>

Least(a, b) == IF a < b THEN a ELSE b
Most(a, b) == IF a > b THEN a ELSE b

\* (mutant) the deleting scenario is not the last one
Order_DeleteEarly == <<"unfiltered", "delete", "tenant_scoped", "as_of", "storage">>

Order == <<"unfiltered", "tenant_scoped", "as_of", "storage", "delete">>

Turn(scenario) == turn \in DOMAIN Order /\ Order[turn] = scenario

InTenant(tenant) == {r \in Rid : corpus[r].tenant = tenant}

\* exact_knn: the top k of the corpus among `allowed', valid at t if t is given.
Knn(q, allowed, t) ==
  TopK({r \in allowed : t # NoAsOf => ValidAt(corpus[r], t)}, q, K)

-----------------------------------------------------------------------------
(* Recall and leak over the queries of a scenario.  The mean recall is told  *)
(* apart no finer than _verdict does: 0.999 is short of full only beyond a   *)
(* thousand oracle answers, and the scenarios here have a few hundred.       *)

MeanRecall(got, want) ==
  IF \E i \in DOMAIN got : want[i] = {} THEN "nan"
  ELSE IF \A i \in DOMAIN got : want[i] \subseteq got[i] THEN "full"
  ELSE IF \A i \in DOMAIN got : want[i] \cap got[i] = {} THEN "zero"
  ELSE "part"

Verdict(recall, leak) ==
  CASE leak             -> "LEAKS"
    [] ~leak /\ recall = "zero" -> "OVER_RESTRICTS"
    [] ~leak /\ recall = "full" -> "PASS"
    [] OTHER            -> "PARTIAL"

Row(verdict, recall, leak, gone) ==
  [verdict |-> verdict, recall |-> recall, leak |-> leak, gone |-> gone]

Never == 0  \* ops_until_gone of a row that has none

\* The row of a read scenario: query i is asked for tenantOf[i] at t, should
\* answer from allowed[i], and must not answer from forbidden[i].
Measured(tenantOf, allowed, forbidden, t) ==
  LET got == [i \in DOMAIN queries |-> Retrieve(queries[i], K, tenantOf[i], t)]
      want == [i \in DOMAIN queries |-> Knn(queries[i], allowed[i], t)]
      recall == MeanRecall(got, want)
      leak == \E i \in DOMAIN queries : got[i] \cap forbidden[i] # {}
  IN  Row(Verdict(recall, leak), recall, leak, Never)

Enter(scenario, row) ==
  /\ ledger' = [s \in DOMAIN ledger \cup {scenario} |->
                  IF s = scenario THEN row ELSE ledger[s]]
  /\ turn' = turn + 1

Everywhere(x) == [i \in DOMAIN queries |-> x]

-----------------------------------------------------------------------------

\* run_unfiltered judges recall alone.
RunUnfiltered ==
  /\ Turn("unfiltered")
  /\ LET row == Measured(Everywhere(AnyTenant), Everywhere(Rid), Everywhere({}), NoAsOf)
     IN  Enter("unfiltered",
               [row EXCEPT !.verdict = IF row.recall = "full" THEN "PASS" ELSE "PARTIAL"])
  /\ UNCHANGED <<vars, corpus, queries, deleted, probes>>

\* run_tenant_scoped goes round the tenants, query by query.
RunTenantScoped ==
  /\ Turn("tenant_scoped")
  /\ LET ten == [i \in DOMAIN queries |-> Tenants[((i - 1) % Len(Tenants)) + 1]]
     IN  Enter("tenant_scoped",
               Measured(ten, [i \in DOMAIN queries |-> InTenant(ten[i])],
                        [i \in DOMAIN queries |-> Rid \ InTenant(ten[i])], NoAsOf))
  /\ UNCHANGED <<vars, corpus, queries, deleted, probes>>

\* What run_as_of counts as a leak.
InvalidAt(t) == {r \in Rid : ~ValidAt(corpus[r], t)}

RunAsOf ==
  /\ Turn("as_of")
  /\ Enter("as_of", Measured(Everywhere(AnyTenant), Everywhere(Rid),
                             Everywhere(InvalidAt(AsOfT)), AsOfT))
  /\ UNCHANGED <<vars, corpus, queries, deleted, probes>>

RunStorage ==
  /\ Turn("storage")
  /\ Enter("storage", Row("N/A", "nan", FALSE, Never))
  /\ UNCHANGED <<vars, corpus, queries, deleted, probes>>

Probe == queries[1]
Ten == Tenants[1]

\* (mutant) the records to delete are taken from the answer over all tenants
ToDelete_Unscoped == TopK(Knn(Probe, Rid, NoAsOf), Probe, Most(1, K \div 2))

\* Half of what the first tenant's probe should answer, the nearest half.
ToDelete ==
  TopK(Knn(Probe, InTenant(Ten), NoAsOf), Probe, Most(1, K \div 2))

\* run_delete_honest begins: delete() and flush().
RunDelete ==
  /\ Turn("delete") /\ deleted = {}
  /\ deleted' = ToDelete
  /\ Delete(ToDelete)
  /\ UNCHANGED <<corpus, queries, turn, probes, ledger>>

Hits == Retrieve(Probe, K, Ten, NoAsOf)

\* The row of the deleting scenario, once polling has ended: the verdict needs
\* no leak in the one read before the polling, and the records gone.
DeleteRow(gone) ==
  LET leak == Hits \cap deleted # {}
      want == Knn(Probe, InTenant(Ten) \ deleted, NoAsOf)
  IN  Row(IF leak \/ ~gone THEN "LEAKS" ELSE "PASS",
          MeanRecall(<<Hits>>, <<want>>), leak, IF gone THEN probes + 1 ELSE Never)

\* (mutant) retrievals that still find a deleted record are not counted
Poll_Uncounted ==
  /\ Turn("delete") /\ deleted # {}
  /\ IF Hits \cap deleted = {}
     THEN Enter("delete", DeleteRow(TRUE)) /\ probes' = probes + 1
     ELSE UNCHANGED <<ledger, turn, probes>>
  /\ UNCHANGED <<vars, corpus, queries, deleted>>

\* delete_unretrievable: retrieve again until no deleted record is among the
\* hits, at most MaxProbes times.  The flush() in between changes nothing here.
Poll ==
  /\ Turn("delete") /\ deleted # {}
  /\ probes' = probes + 1
  /\ IF Hits \cap deleted = {} THEN Enter("delete", DeleteRow(TRUE))
     ELSE IF probes' < MaxProbes THEN UNCHANGED <<ledger, turn>>
     ELSE Enter("delete", DeleteRow(FALSE))
  /\ UNCHANGED <<vars, corpus, queries, deleted>>

\* The driver has loaded a fresh backend with the corpus.
ProbeInit ==
  /\ corpus \in Corpora /\ queries \in QuerySets
  /\ kind \in Kinds
  /\ arr = Entries(corpus) /\ byrid = corpus /\ dead = {}
  /\ acked = corpus /\ used = Rid
  /\ turn = 1 /\ deleted = {} /\ probes = 0
  /\ ledger = <<>>

ProbeNext == \/ RunUnfiltered
             \/ RunTenantScoped
             \/ RunAsOf
             \/ RunStorage
             \/ RunDelete
             \/ Poll

\* The runner is one sequential program whose calls return.
ProbeSpec == ProbeInit /\ [][ProbeNext]_allvars /\ WF_allvars(ProbeNext)

-----------------------------------------------------------------------------

Over == turn > Len(Order)

\* An honest backend passes every scenario, and is gone at the first probe:
\* no scenario disturbs the store or the oracle that a later one is judged by.
HonestPasses ==
  Over /\ kind \in {"ReferenceHonest", "TombstoneHonest"} =>
    /\ \A s \in DOMAIN ledger \ {"storage"} : ledger[s].verdict = "PASS"
    /\ ledger["delete"].gone = 1

\* The deletion verdict, taken from one query of one tenant, says what holds of
\* all: PASS if and only if no read whatsoever returns a deleted record.
DeleteVerdictExact ==
  Over =>
    (ledger["delete"].verdict = "PASS" <=>
       \A q \in Queries, k \in Limits, tenant \in Tenant \cup {AnyTenant},
          t \in Instant \cup {NoAsOf} : Retrieve(q, k, tenant, t) \cap deleted = {})

\* Polling a store that never lets go of a record still comes to an end, and
\* every scenario has its row then.
RunEnds == <>(Over /\ DOMAIN ledger = {Order[i] : i \in DOMAIN Order})
=============================================================================
