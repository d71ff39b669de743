---------------------------- MODULE ReferenceStore --------------------------
(* The in-memory reference backends: ReferenceHonest excises deleted rows,   *)
(* the three shared-array ones set a tombstone and reclaim in compact().     *)
(* TombstoneLeaky does not consult the tombstone on reads, LeakyTenant not   *)
(* the tenant.  Their calls neither fail nor interleave: each is one step.   *)
(*                                                                           *)
(* Vectors are left out: all that a read needs of them is the order in which *)
(* a query ranks the rids, and a query is that order.  Two rids never tie.   *)
EXTENDS Integers, Sequences, FiniteSets, SequencesExt

CONSTANTS
  Rid, Tenant,
  ChainOf,   \* the logical memory each rid is a version of
  Instant,   \* instants of validity intervals and of as_of
  TOpen,     \* valid_until of a row that is still true
  Absent     \* "no such record"

Kinds == {"ReferenceHonest", "TombstoneHonest", "TombstoneLeaky", "LeakyTenant"}

VARIABLES
  kind,   \* which class the backend is of
  arr,    \* _rids and _ten (or the arrays of all tenants), entry by entry
  byrid,  \* _byrid
  dead,   \* _dead, the tombstones
  acked,  \* history variable: the records as the caller's calls left them
  used    \* history variable: the rids ever written

store == <<arr, byrid, dead, acked, used>>
vars == <<kind, store>>

Excises == kind = "ReferenceHonest"
ConsultsTombstone == kind # "TombstoneLeaky"
ConsultsTenant == kind # "LeakyTenant"

Record == [tenant : Tenant, from : Instant, until : Instant \cup {TOpen}]

AnyTenant == "any tenant"  \* tenant=None
NoAsOf == -1               \* as_of=None

\* Instants lie before the sentinel, and no record is the lack of one.
ASSUME RecordAssumption == /\ Instant \subseteq Nat /\ TOpen \in Nat
                           /\ \A t \in Instant : t < TOpen
                           /\ Absent \notin Record
                           /\ Absent \notin [from : Instant, until : Instant \cup {TOpen}]

ValidAt(rec, t) == rec.from <= t /\ t < rec.until

NoRecords == [r \in Rid |-> Absent]

With(recs, new) == [r \in Rid |-> IF r \in DOMAIN new THEN new[r] ELSE recs[r]]

Less(recs, rids) == [r \in Rid |-> IF r \in rids THEN Absent ELSE recs[r]]

Entries(recs) ==
  LET rids == SetToSeq(DOMAIN recs)
  IN  [i \in DOMAIN rids |-> [rid |-> rids[i], tenant |-> recs[rids[i]].tenant]]

NthOf(keep, n) == CHOOSE i \in keep : Cardinality({j \in keep : j <= i}) = n

\* The entries at the positions to keep, in their order.
Spared(rids) ==
  LET keep == {i \in DOMAIN arr : arr[i].rid \notin rids}
  IN  [n \in 1 .. Cardinality(keep) |-> arr[NthOf(keep, n)]]

Closed(recs, rid, at) ==
  IF recs[rid] = Absent THEN recs ELSE [recs EXCEPT ![rid].until = at]

-----------------------------------------------------------------------------

Write(recs) ==
  /\ arr' = arr \o Entries(recs)
  /\ byrid' = With(byrid, recs)
  /\ acked' = With(acked, recs)
  /\ used' = used \cup DOMAIN recs
  /\ UNCHANGED <<kind, dead>>

Successor(new, tenant, at) ==
  [r \in {new} |-> [tenant |-> tenant, from |-> at, until |-> TOpen]]

\* (mutant) the old record is not closed
Supersede_Open(rid, new, tenant, at) ==
  LET succ == Successor(new, tenant, at)
  IN  /\ arr' = arr \o Entries(succ)
      /\ byrid' = With(byrid, succ)
      /\ acked' = With(Closed(acked, rid, at), succ)
      /\ used' = used \cup {new}
      /\ UNCHANGED <<kind, dead>>

\* Close the record of rid, then write() the new version as [at, T_OPEN).
Supersede(rid, new, tenant, at) ==
  LET succ == Successor(new, tenant, at)
  IN  /\ arr' = arr \o Entries(succ)
      /\ byrid' = With(Closed(byrid, rid, at), succ)
      /\ acked' = With(Closed(acked, rid, at), succ)
      /\ used' = used \cup {new}
      /\ UNCHANGED <<kind, dead>>

Delete(rids) ==
  /\ acked' = Less(acked, rids)
  /\ IF Excises
     THEN arr' = Spared(rids) /\ byrid' = Less(byrid, rids) /\ UNCHANGED dead
     ELSE dead' = dead \cup rids /\ UNCHANGED <<arr, byrid>>
  /\ UNCHANGED <<kind, used>>

\* (mutant) the tombstones are cleared with the dead entries still in the arrays
Compact_ClearOnly ==
  /\ ~Excises
  /\ byrid' = Less(byrid, dead)
  /\ dead' = {}
  /\ UNCHANGED <<arr, kind, acked, used>>

\* (mutant) the records of dead rids stay behind in _byrid
Compact_KeepRecords ==
  /\ ~Excises
  /\ arr' = Spared(dead)
  /\ dead' = {}
  /\ UNCHANGED <<byrid, kind, acked, used>>

\* compact() of the shared-array backends; ReferenceHonest has nothing to do.
Compact ==
  /\ ~Excises
  /\ arr' = Spared(dead)
  /\ byrid' = Less(byrid, dead)
  /\ dead' = {}
  /\ UNCHANGED <<kind, acked, used>>

-----------------------------------------------------------------------------
(* Reads.  _topk keeps the k entries that the query ranks first.             *)

TopK(S, rank, k) == {x \in S : Cardinality({y \in S : rank[y] < rank[x]}) < k}

Seen(i, tenant, t) ==
  /\ ConsultsTenant => tenant \in {AnyTenant, arr[i].tenant}
  /\ ConsultsTombstone => arr[i].rid \notin dead
  /\ t # NoAsOf => byrid[arr[i].rid] # Absent /\ ValidAt(byrid[arr[i].rid], t)

Retrieve(q, k, tenant, t) ==
  LET rank == [i \in DOMAIN arr |-> q[arr[i].rid]]
  IN  {arr[i].rid : i \in TopK({i \in DOMAIN arr : Seen(i, tenant, t)}, rank, k)}

Audit(rid) == byrid[rid] # Absent /\ rid \notin dead

\* The exact answer, from the records as the caller knows them.
Exact(q, k, tenant, t) ==
  TopK({r \in Rid : /\ acked[r] # Absent
                    /\ tenant \in {AnyTenant, acked[r].tenant}
                    /\ t # NoAsOf => ValidAt(acked[r], t)},
       q, k)

-----------------------------------------------------------------------------
(* The caller keeps valid-time history: intervals of one chain are disjoint, *)
(* the open version of a chain is the one that is superseded, and no rid is  *)
(* ever used twice.                                                          *)

Apart(a, b) == a.until <= b.from \/ b.until <= a.from

MayWrite(rid) == rid \notin used

FitsHistory(rid, rec) ==
  \A s \in Rid : s # rid /\ ChainOf[s] = ChainOf[rid] /\ acked[s] # Absent
                   => Apart(rec, acked[s])

MaySupersede(rid, new, at) ==
  /\ acked[rid] # Absent /\ acked[rid].until = TOpen /\ acked[rid].from <= at
  /\ new # rid /\ ChainOf[new] = ChainOf[rid] /\ MayWrite(new)

Init ==
  /\ kind \in Kinds
  /\ arr = <<>> /\ byrid = NoRecords /\ dead = {}
  /\ acked = NoRecords /\ used = {}

Next ==
  \/ \E r \in Rid, rec \in Record :
       /\ MayWrite(r) /\ rec.from < rec.until /\ FitsHistory(r, rec)
       /\ Write([x \in {r} |-> rec])
  \/ \E rid, new \in Rid, at \in Instant :
       MaySupersede(rid, new, at) /\ Supersede(rid, new, acked[rid].tenant, at)
  \/ \E rids \in SUBSET {r \in Rid : acked[r] # Absent} : rids # {} /\ Delete(rids)
  \/ Compact

Spec == Init /\ [][Next]_vars

-----------------------------------------------------------------------------

Queries == {q \in [Rid -> 1 .. Cardinality(Rid)] : \A r, s \in Rid : q[r] = q[s] => r = s}

Limits == 1 .. Cardinality(Rid)

\* "Exact brute-force stores": every read, whatever the query, tenant, instant
\* and k, returns the exact top k of what the caller has written and not
\* deleted.  The foils do too where their flaw has no part: TombstoneLeaky
\* once the tombstones are compacted away, LeakyTenant on unscoped reads.
ReadsExact ==
  ConsultsTombstone \/ dead = {} =>
    \A q \in Queries, k \in Limits, t \in Instant \cup {NoAsOf} :
      \A tenant \in {AnyTenant} \cup (IF ConsultsTenant THEN Tenant ELSE {}) :
        Retrieve(q, k, tenant, t) = Exact(q, k, tenant, t)

\* The self-report is right about every rid, before and after compaction, also
\* of the store whose reads still return what it reports gone.
AuditTruthful == \A r \in Rid : Audit(r) <=> acked[r] # Absent

\* The records that are not behind a tombstone.
Visible ==
  [r \in Rid |-> IF Audit(r) THEN [from |-> byrid[r].from, until |-> byrid[r].until]
                 ELSE Absent]

\* Records and tombstones together implement the version store.
Store == INSTANCE VersionStore WITH hist <- Visible

StoreSpec == Store!Spec
=============================================================================
