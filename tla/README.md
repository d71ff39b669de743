# A verification project for the GMP retrieval cost harness (`src/harness/rq9`)

The repository measures what correct vector retrieval costs: storage *adapters*
(Postgres/pgvector, Qdrant, in-process references) are driven through one
`Backend` protocol, compared with an exact oracle, and priced in *ledgers* that
the paper quotes. What has to be right is not speed but bookkeeping: which
version of a memory is where and when it is valid, what a deleted record still
answers to, and which measurement a ledger row stands for.

## Inventory

Everything that runs is Python under `src/harness/rq9` (about 3100 lines; the
repository has no tests). The rest of the tree is the paper, notes and committed
result ledgers.

| part | source | state | operations | interacts with |
|---|---|---|---|---|
| backend protocol | `gmp_cost/protocol.py` | none | `write`, `supersede`, `delete`, `retrieve`, `audit`, `flush`, `compact` | implemented by every adapter, called by every driver |
| epoch-partitioned Postgres adapter | `adapters/pg_partitioned_adapter.py` | `rq9p_cur`, one table per epoch, `_index_built` | all of the protocol, as loops of autocommitted statements | Postgres (autocommit), `run_g3_probe.py` |
| epoch-partitioned Qdrant adapter | `adapters/qdrant_partitioned_adapter.py` | collections, id map, counter | the same, with point ids the client assigns | Qdrant (asynchronous upserts), shares `epochs_for` |
| pgvector adapter | `adapters/pgvector_adapter.py` | one table, `_index_built` | the protocol on one table; deferred index build | Postgres |
| Qdrant adapter | `adapters/qdrant_adapter.py` | one collection, id map, counter | the protocol; flush polls the optimizer until a deadline | Qdrant |
| reference backends | `adapters/reference_adapters.py` | arrays, record map, tombstones | excision, tombstones with `compact`, two leaking foils | the demo and commercial drivers |
| exact oracle and corpora | `gmp_cost/oracle.py`, `scale.py`, `h4_stress.py` | the corpus | seeded generation, exact top-k, leak counts | every scenario |
| metrics and scenarios | `gmp_cost/metrics.py`, `harness.py` | none | recall, leak, delete-to-unretrievable, verdicts, `run_all` | adapters and oracle |
| resumable drivers | `run_scale.py`, `run_h4_stress.py`, `run_g3_probe.py`, `run_g3_qdrant.py` | checkpoint file, JSON and CSV ledger | resume, measure, append, emit | adapters, the file system |
| one-shot drivers | `run_demo.py`, `run_commercial.py` | none | load, `run_all`, emit | adapters |
| numbers audit | `audit_numbers.py` | none | resolve each claim of the paper to a ledger row | the emitted ledgers |
| planner diagnostic | `diagnose_pgvector_h1.py` | none | prints EXPLAIN output | Postgres |

Every program is single-threaded. The hard behaviours come from elsewhere: calls
that are many independently committed statements and may raise between any two;
retries over the partial effects of a first attempt; boundaries of half-open
intervals against floor-divided epochs; asynchronous ingestion with a deadline;
runs that die and are resumed, perhaps on another machine, from a file that may
have been torn; and results that are looked up later by textual needles.

What makes each part correct:

* partitioned adapters: a row is in every table its interval overlaps and in no
  state stale; a read that looks into one table answers like the whole store;
  no read sees two versions of one memory; retries repair;
* monolithic adapters: the same abstract store, without placement; nothing
  deleted is retrievable after `delete` returns; a measured row is measured on
  all the data, with the one index it is priced for, or its label says otherwise;
* the Qdrant adapters: a map on the client's side stands for points on the
  server's, and must reach every one of them, whatever requests are still queued;
* chain corpus: its versions tile the time line, and a hit is judged by the
  interval of the row it came from;
* delete probe and verdicts: a store that still answers with deleted records is
  never given PASS, an honest one always is;
* resumable drivers: no measurement twice, none lost, each with its baseline,
  and the sweep completes;
* audit: a claim resolves to the row it is about.

## Modules

Statements and requests that take effect alone are steps of their own;
everything else a call does is one step. Vectors never appear: what the code asks
of them is the order in which a query ranks the records, so queries *are* such
orders where ranking matters (the reference backends), and reads without a limit
are taken where it does not (the database adapters).

| module | models | state | actions |
|---|---|---|---|
| `ValidTime` | the intervals of `protocol.py`, half open, with the sentinel | none | (definitions) |
| `CallerHistory` | the calls of the protocol and what their caller may assume | `call`; `acked` (history: the rows as the calls that returned left them) | (definitions used by the adapters) |
| `ScopedReads` | what a read of a one-table adapter asks for: a tenant or none, an instant or none | none | (definitions) |
| `VersionStore` | the abstract specification of a store of valid-time versions | `hist` | `Load`, `Close`, `Forget`, `Replace` |
| `EpochPlacement` | `epochs_for`, `_route` and the tables of the partitioned adapters | none | (definitions) |
| `PgPartitioned` | `pg_partitioned_adapter.py` | `tables` (each table, rid to interval), `pc`, `todo` (the loops of a call), `indexes`, `built`, `unindexed` | `Write`, `Supersede`, `Delete`, `Flush` begin a call; `CloseStmt`, `UncurStmt`, `InsertStmt`, `EraseStmt`, `IndexStmt`, `AnalyzeStmts` are its statements; `Fail`, `Retry`, `Reconstruct` |
| `PgPartitionedInv` | its properties, the refinement mapping, the inductive invariant | | |
| `PgVector` | `pgvector_adapter.py`, with its properties and inductive invariant | `rows`, `indexes`, `built`, `pc`, `todo`, `fresh` (history) | the same calls; one statement each but for the pages of an INSERT and the deferred index |
| `QdrantServer` | the server both Qdrant adapters talk to (not in the repository): collections with a FIFO queue of received requests | `points`, `queue` | `Apply`; `Send` and `Recreate` are used by the adapters |
| `QdrantPartitioned`, `QdrantPartitionedInv` | `qdrant_partitioned_adapter.py`, its properties, refinement mapping and inductive invariant | adds `idmap`, `counter`, `pc`, `todo`, `awaits` | the calls; `CloseStmt`, `PopEntry`, `UncurStmt`, `Successor`, `UpsertStmt`, `EraseStmt`, `Return`; `Fail`, `Retry`, `Reconstruct`; `ServerApplies` |
| `QdrantMonolith`, `QdrantMonolithInv` | `qdrant_adapter.py`, its properties, refinement mapping and inductive invariant | the same with one collection, and `status`, `fresh` | the same and `Flush` |
| `ChainCorpus` | `make_chain_corpus`, `records_batches`, `rid_of`, `parse_rid`, `temporal_leak` of `h4_stress.py`, the probe instants of the drivers | none | (definitions) |
| `ReferenceStore` | `reference_adapters.py`, the four classes by `kind` | `arr`, `byrid`, `dead`, `acked`, `used` | `Write`, `Supersede`, `Delete`, `Compact`; `Retrieve` and `Audit` are operators |
| `GuaranteeProbe` | `run_all` of `harness.py`, with `exact_knn` and `delete_unretrievable`, over a reference backend | adds `corpus`, `queries`, `turn`, `deleted`, `probes`, `ledger` | `RunUnfiltered`, `RunTenantScoped`, `RunAsOf`, `RunStorage`, `RunDelete`, `Poll` |
| `CheckpointLedger` | `run_scale.py`; `run_h4_stress.py` and the g3 probes are the same loop without an anchor (`Anchored = FALSE`) | the files `present`, `lines`, `cut`, `json`, `csv`; the run `pc`, `pos`, `sizes`, `done`, `corpus`, `out`, `env`, `up` | `Start`, `Skip`, `Generate`, `Measure`, `AppendRows`, `OpenLedger`, `WriteJson`, `WriteCsv`, `Die` |
| `NumbersAudit` | `match` of `audit_numbers.py`, over the ledgers `CheckpointLedger` leaves, and the invariant behind it; the `max:` claims are left out | none of its own | (operators) |
| `ValidTimeProofs`, `PgPartitionedProofs`, `PgVectorProofs`, `QdrantPartitionedProofs`, `QdrantMonolithProofs`, `ReferenceStoreProofs`, `ChainCorpusProofs`, `CheckpointProofs` | the theorems | | |
| `MC...` | instances for TLC | | |

How they compose: the four database adapters share `ValidTime` and
`CallerHistory`, and each is shown to implement `VersionStore`, as is
`ReferenceStore`; the two Qdrant adapters run over one `QdrantServer`; both
partitioned adapters place and route by `EpochPlacement`, and
`MCQdrantPartitioned` loads the Qdrant one with the batches of `ChainCorpus`;
`GuaranteeProbe` drives `ReferenceStore`; `NumbersAudit` reads what
`CheckpointLedger` writes.

Points where the model decides something the code leaves open:

* *Failing calls.* Nothing catches an exception, so `Fail` may happen at any
  statement or request. A Postgres statement that raises has had no effect
  (autocommit). A request to Qdrant that raises may have been received: a timeout
  does not say, and what was received is applied in the end. The caller makes
  the same call again (`Retry`) or builds a new backend, which drops all data. A
  caller that carries on with other calls after a failure is not modelled; no
  driver does. For Qdrant `Retried` names the calls that may be repeated: the
  passing runs repeat deletes only, because a repeated write or supersede breaks
  the adapter (see the findings).
* *The server.* Per collection, requests are applied in the order they came, one
  after the other, and a request sent with `wait=True` is answered when it has
  been applied. A collection that reports green is taken to have an empty queue,
  which is what the adapters' `flush` takes it for.
* *Pages and chunks.* `execute_values` sends one INSERT per page of rows (100 in
  the library), the Qdrant adapters one upsert per chunk (`CH`); `PageSize` and
  `CH` are 1 or 2 here, which makes a batch of two or three rows several
  statements. A batch is a set, so any order of its rows is included.
* *Callers.* They keep valid-time history: the versions of one memory do not
  overlap, only the open version is superseded and not before it began. The
  corpora of the repository are of this kind. A rid is written again only in
  `PgVector` (whose statement says what then happens) and by repeated calls.
* *A torn file.* An append of rows is one write when the file is closed, so the
  death of the process alone leaves all or nothing of it. Power loss or a full
  disk (`TornWrites = TRUE`) may leave some lines and part of another, or a line
  without its newline, which the next append continues; or nothing, in a file it
  created. An empty checkpoint is emitted as an empty ledger, a missing one raises.
* *Needles.* `Contains` says which size, as text, is found in which other.
* Definitions marked `(mutant)` are wrong variants of the definition below
  them. They take part in nothing unless put in its place, and show that the
  property named with them can fail.

## What the runs check

| run | configuration | what it shows |
|---|---|---|
| `pg_store` | two epochs of two instants and `cur`, instants 0, 2, 3, 4, two chains (one of two versions), single rows of every interval and three batches | with a statement failing anywhere and any number of retries: rows are where they belong, none is stale, routed reads are exact, no read sees two versions of a memory, built means built everywhere, and each step is one of `VersionStore` or invisible to it |
| `pg_beyond_horizon` | one chain of three versions, instants beyond the last epoch | **violated**: see the findings |
| `pgvector` | a chain of three versions and a row of another tenant, pages of two rows, deferred index | the same of the one-table adapter, for every tenant and instant, with rids written again and calls repeated; a row measured after `flush` is measured with one index |
| `qd_part` | two chains of the chain corpus and two more batches, three writes, chunks of one point, any request lost, also the delete of a supersede whose map entry is popped already, deletes repeated | reads after green are exact; before it they miss rows at most, and show nothing deleted, closed or doubled; the id map reaches every point but one that a supersede has closed and popped; `audit` denies nothing a read for now returns; `VersionStore` implemented request by request; `StoreInv`, the inductive invariant of the copies stored and on their way, row by row and collection by collection |
| `qd_part_retry` | one chain of two versions, every call repeated | **violated**: see the findings |
| `qd_mono` | three rids, two tenants, three writes, chunks of one point, deletes repeated | the same of the one-collection adapter; a row labelled green is measured on all the data, although `flush` gives up at a deadline; `audit` is truthful; `VersionStore` and `StoreInv` |
| `ckpt_resume` | two sizes swept together or the small one alone, two engines, two rows per unit, three deaths or missing engines | resuming repeats and loses nothing, prices nothing without its baseline, leaves whole ledgers, completes, and every claim resolves to the row of its own size; the inductive invariants of the sweep and of the audit |
| `ckpt_fingerprint`, `ckpt_torn_emit` | one size, two environments, or torn appends | **violated**: see the findings |
| `ref_store` | three rids in two chains, two tenants, instants 0 and 1 | exact reads for every query, k, tenant and instant, a truthful self-report, and `VersionStore` implemented |
| `probe_verdicts` | four records round two tenants, every ranking by the first query and half of those by the second, k = 2, two probes | honest stores pass everything; PASS for a deletion means that no read at all returns the deleted; polling ends |
| `audit_two_sweeps` | the two documented sweeps, 1000000 by itself and 100000, in either order, nothing fails | **violated**: see the findings |

**Bounds.** In the partitioned adapters placement depends on an interval only
through the epochs of its two ends and whether it is open, so two epochs, one of them with
both its instants, give every case: inside one epoch, across a boundary, up to a
boundary, clamped, open; instant 4 is the first beyond the horizon. Two versions
show any overlap, the third rid an unrelated row in the same statement. Retries
are not bounded; `MaxIndexes` (2) bounds the indexes a table collects from
flushes that failed half way. In the Qdrant adapters `MaxWrites` (3) bounds the
point ids given out (a batch, a write beside it and a supersede) and
`MaxPending` (1) the requests a collection may be behind when a call is repeated; a
first attempt may put as many in the queue as it has chunks. In
`CheckpointLedger` two units per size and two sizes have every order of done and
pending units; `MaxBad` bounds deaths and missing engines, and three of them
allow a death while resuming from a death with an engine missing before. In
`GuaranteeProbe` four records, two per tenant, with k = 2 give answers in which
a deleted record's place is taken by one of its tenant and by one of another;
`MaxProbes` is 2 instead of 200, which tells the first probe from giving up. The
recall threshold 0.999 is full recall at these sizes. What remains open about
larger instances is, where there are proofs, what they settle: they depend on none of
these bounds but the constants they are stated over.

**Deadlock** is checked except where programs end: a finished `run_all`, and a
caller of a reference backend that has used all its rids.

**Fairness.** `ProbeSpec` and `FairSpec` assume that a sequential program whose
calls return goes on (`WF` of its steps), and `FairSpec` that the operator starts
an ended run again (`WF_vars(AnyStart)`), which is how SCALE.md has the driver
used. That engines come up and runs stop dying is not assumed of every run: it
follows from the bound `MaxBad`. Nothing is assumed of the database adapters,
whose properties are safety properties: that a server applies its queue is not
needed for them, and a `flush` that waits in vain gives up.

## What is proved

For every value of the constants, as far as their assumptions allow: any set of
rids, chains, batches, instants, page size, epoch length and number of epochs;
any plan of sizes and variants. The assumptions are those the modules name:
epochs have a positive length, instants are naturals below `TOpen`, batches are
of records with non-empty intervals, `Absent` is no interval; no size and no
variant is listed twice, and no variant is called "oracle"; no record is the value
that stands for a missing one. A run of the scenarios is over finitely many
records, asks at least one query, knows at least one tenant, and each of its
tenants has a record and one record is valid at the instant asked about
(`RunAssumption`, `CorpusAssumption`: `make_corpus` goes round the tenants, and
all its records are valid then). Three conditions on constants are hypotheses of
the theorems that need them, and a run shows what happens without:

* at most deletes are repeated (`Retried \subseteq {"delete"}`): all theorems
  about the two Qdrant adapters; `qd_part_retry`;
* appends reach the disk whole (`~TornWrites`): those marked so; `ckpt_torn_emit`
  and the note on units of which one line is left;
* a sweep passes through the sizes whose text is found in that of a later one
  (`AscendingSweeps`, as the default sizes of `run_scale.py` do): those about the
  audit; `audit_two_sweeps`.

| module | theorem | states |
|---|---|---|
| `PgPartitionedProofs` | `TypeCorrect`, `Invariance` | `[]TypeOK`, `[]IInv` |
| | `RowsArePlaced`, `NoCopyIsStale`, `ReadsAreExact` | `[]PlacementRule`, `[]NoStaleCopy`, `[]RoutedReadsExact` |
| | `NeverTwoVersions` | `[]AtMostOneVersion` |
| | `FlushBuildsAll` | `[]BuiltIsWhole` |
| | `FallbackIsExact` | `[]BeyondHorizonExact`, if no instant lies beyond the first one after the last epoch (the probe of the repository asks no other; `pg_beyond_horizon` shows the condition is needed) |
| | `ImplementsStore` | `StoreSpec`: the adapter implements `VersionStore` |
| `PgVectorProofs` | `Invariance`, `ReadsAreExact`, `NeverTwoVersions`, `FlushIsReady` | `[]IInv`, `[]ReadsExact`, `[]AtMostOneVersion`, `[]FlushedReady` |
| | `ImplementsStore` | `StoreSpec` |
| `QdrantMonolithProofs` | `TypeCorrect`, `Invariance`, `StoreInvariance` | `[]TypeOK`, `[]IInv`, `[]StoreInv` |
| | `NothingStale`, `GreenIsExact` | `[]NothingStaleReadable`, `[]GreenReadsExact`, where the tenant filter is deployed |
| | `AuditIsTruthful`, `NeverTwoVersions` | `[]AuditTruthful`, `[]AtMostOneVersion` |
| | `ImplementsStore` | `StoreSpec` |
| `QdrantPartitionedProofs` | `TypeCorrect`, `Invariance`, `StoreInvariance` | `[]TypeOK`, `[]IInv`, `[]StoreInv` |
| | `SettledIsExact`, `NothingStale` | `[]SettledReadsExact`, `[]NothingStaleReadable` |
| | `PointsReachable`, `AuditDeniesNothingOpen`, `NeverTwoVersions` | `[]EveryPointReachable`, `[]AuditDeniesNoneOpen`, `[]AtMostOneVersion` |
| | `ImplementsStore` | `StoreSpec` |
| `ReferenceStoreProofs` | `Invariance` | record map, tombstones and the caller's history agree |
| | `AuditIsTruthful` | `[]AuditTruthful` |
| | `ArraysAreWhole`, `ReadsAreExact` | each record the caller holds is in the arrays once, with its tenant; `[]ReadsExact` |
| | `ImplementsStore` | `StoreSpec` |
| | `ProbeInvariance`, `HonestStoresPass`, `DeleteVerdictIsExact` | the invariant of a run of the scenarios; `[]HonestPasses`, `[]DeleteVerdictExact` |
| `CheckpointProofs` | `TypeCorrect`, `Invariance` | `[]TypeOK`, `[]IInv` |
| | `NothingTwice` | `[]NoDoubleRow`, torn appends included |
| | `SkippingIsSafe`, `AnchorComesFirst`, `FinishedRunIsWhole` | `[]SkippedIsComplete`, `[]AnchoredFirst`, `[]FinishedIsWhole`, if appends reach the disk whole |
| | `AuditInvariance`, `ClaimsResolveToOwnRows` | `[]AuditInv`, `[]ResolvesToOwnRow`, if appends reach the disk whole and sweeps are ascending |
| `ChainCorpusProofs` | `OneVersionAtATime` | at each instant before the sentinel one version of a chain is valid |
| | `EachVersionInItsEpoch` | version v is placed in epoch v and nowhere else, the last one also in `cur` |
| | `ProbesInsideHorizon` | the instants measured at lie inside the horizon, for epochs longer than one instant |
| | `JudgedByItsRow` | the row codec round-trips up to 100 versions and 10^6 chains |

*The adapters.* The properties speak of the time between calls, when a read can
be compared with the truth, and are not inductive: a call in progress breaks
them on purpose. `IInv` therefore says of every row how far the statements of the
running call have brought it. In `PgPartitioned` a row no call touches is
`Settled`; one being written is complete in the tables the INSERTs have covered
(`Inserting`); one being superseded is closed in those the UPDATEs have covered,
and closed everywhere and out of `cur` before a copy of its successor exists
anywhere (`Closing`); one being deleted is gone from those the DELETEs have
covered (`Erasing`). `todo` ties these to the position of the loop, and a failed
call keeps the parts that do not mention it, which is why repeating the call
repairs it. In `PgVector` the same is one table (`RowOK`), and the index counts
one exactly when the flag is set (`IndexOK`). Of the arithmetic, the lemmas
`RoutedTableHoldsValid` (the table an instant is routed to is among those of
every interval valid then) and `OverlappedIsPlaced` (an interval is placed in
each epoch it overlaps) are all that is needed. `NeverTwoVersions` follows from
`IInv` alone in every state, between two statements included: two versions of a
memory are apart as the caller knows them, closing a version early only shrinks
it, and the successor appears once that has happened everywhere.

*Over a server that applies later.* The one-collection adapter's invariant speaks of the
copies of a row, stored or in a pending upsert (`Copies`), instead of rows in a
table. Each copy says of its rid what the caller knew before the call or what the
call makes of it; a row being superseded has only closed copies as soon as a
copy of its successor exists (`Closing`), because the request that closes them is
the last one and is waited for (`WaitOK`), so that an empty queue means it was
applied. Requests that change points have nothing but upserts around them
(`RequestOK`), and each copy carries the number the id map has, so a `set_payload` or
`delete` misses none. The queue itself enters through three lemmas: what sending
and applying do to the set of pending requests and to the last one
(`SentRequest`, `AppliedRequest`), and what an application does to the copies
(`AppliedCopies`).

The partitioned adapter has such a queue per collection, and `IInv` puts the two
arguments together: for each row and each collection it says, as `PgPartitioned`'s
does for a table, how far the requests of the running call have brought the copies
there (`Inserting`, `Closing`, `Erasing`), and it is the copies, stored or pending,
that it speaks of. Collections are waited for one by one, so what binds the two is
`awaits`: a row is closed in the collections whose request has been answered, and a
successor is sent only when all have been. That each collection is addressed
through one map from rid to point ids needs its own part: every copy, wherever it
is, has a number the map has for its rid (`EveryPointReachable`). The exception is
the old version's point in `cur`, from the pop of its entry (line 117) to the
application of the request that deletes it, or for good if that request is never
received; what then keeps reads and `audit` right is that the point was closed
before, at the instant of the call.

*The reference backends.* `delete` leaves the record in the map behind a tombstone,
`compact` removes both, and `supersede` changes the record in place. The invariant
is that a rid the caller holds has exactly the caller's record and no tombstone,
and any other rid has no record or a tombstone; a rid is used once. That gives a
truthful `audit` and, with the map as the caller sees it (`Visible`), the version
store.

*Their reads.* `_topk` ranks entries of the arrays, the exact answer ranks rids.
That each rid the caller holds has one entry, and every other entry is behind a
tombstone, is preserved by appending (`GrowOK`), by setting tombstones
(`TombstoneOK`) and by filtering (`FilterOK`); the last rests on `Positions`, that
the entries spared are counted through in their order and none is lost. Entries
and rids are then in bijection, so as many entries are nearer than one as there
are nearer rids (`RetrieveIsTopK`), and what a read considers is what the caller
may ask of it (`ConsideredIsHeld`).

*The scenarios.* Reads leave store and oracle alone (`SameStore`), so before the
deleting scenario every read of a store without a flaw is the oracle's answer.
A non-empty set of rids has one that the query ranks first (`Nearest`), which is
in the top k for every k: no oracle answer is empty, hence full recall; and the
first tenant's record nearest to the probe is among those to delete and, in the
store that does not consult its tombstones, among the hits of the probe at every
limit (`FlawShows`). So the verdict is PASS exactly for the stores that consult
them, and those return nothing deleted to anyone (`TombstoneHides`).

*Implementing the store.* The partitioned Postgres adapter's row is, in the
abstract store, what the last table that has a copy says. With `IInv` a statement then
changes at most the abstract rows its store action may change: an INSERT loads a
row the first time a table gets it, an UPDATE closes it when it reaches that
last table, a DELETE forgets it when it has left the last one, and everything
else is a stutter.

A Qdrant adapter's row is what a collection will have of it when the requests
received so far are applied (`Held`). That needs no run of the queue: in `StoreInv`
no upsert is behind a request that names points, and the copies of a point are
alike (`QueueOK`), so a copy is what the row will be unless a pending delete names
it, with the end a pending `set_payload` gives it, in whatever order they stand.
A request is therefore one step of the store when it is received, an answer that
is lost changes nothing, and applying a request is a stutter: an upsert moves
copies from the queue to the points, the others change the points to what `Held`
made of them already (in the one-collection module, `ApplyStutters`). With a
collection per epoch each has a row of its own (`Kept`) and the abstract row is
the last one's, as in Postgres.

*The checkpoint.* `CoreInv` says of the running sweep where the file's units come
from: those `done_keys` found, those behind the sweep (`FileOK`), and anchors of
sizes the sweep has passed or is at (`PastAnchor`), so that whatever is appended
next is on file nowhere (`OutOK`). That the sweep does not come back to a size
needs the order of the plan: the variants of one size are visited together
(`PlanFacts`). `NoDoubleRow` follows with `AppendOnce`, for a whole append and for
what is left of one, because one line that parses is enough for `done_keys`
to name the unit. `WholeFile` and `WholeRun` add, if appends are whole, that the
units named have all their rows and that the anchor of the current size is
on file before a variant's rows are appended.

*The audit.* A claim takes the first row that has its needles, and the text of a
size may be found in that of a larger one. `OwnSizeFirst` says that no row stands
before the row of its engine that has its needles for their size. It is kept
because the engine of what is appended was found up when the run started, so the
sweep, which went through the smaller size first, has left that size's rows
behind (`AppendAudit`); a claim's first match is then of its own size
(`FirstMatchIsOwn`).

Only model-checked: the liveness properties `SweepCompletes` and `RunEnds`, which
the proof system does not reach.

## Findings

* **Beyond the horizon** (`pg_beyond_horizon`). For an `as_of` after the last
  epoch, `_route` falls back to `cur`, which `supersede` has already cleared of a
  version closed later than that. The docstring promises the fallback without a
  condition. The probes ask for no such instant.
* **A repeated write leaves a point nobody can reach** (`qd_part_retry`). Every
  `write` of the Qdrant adapters gives out new point ids and overwrites the map,
  so a write that raised after its request was received, made again, leaves the
  first point behind: superseding the rid does not close it, and an `as_of` read
  returns two versions. The Postgres adapter this one mirrors takes a repeated
  write by ON CONFLICT DO NOTHING. No driver repeats a call today.
* **One fingerprint for all rows** (`ckpt_fingerprint`). Rows measured by an
  earlier run elsewhere are emitted under the fingerprint of the last run,
  although latency rows are comparable only within one fingerprint. The
  committed `scale_ledger.json` is an instance.
* **One torn line stops the ledger** (`ckpt_torn_emit`): `done_keys` passes over
  lines that are not JSON, the emission raises on them.
* **A claim about N=100000 may resolve to N=1000000** (`audit_two_sweeps`):
  the first needle match wins. With every engine up, the 1e6 sweep runs first and
  the default one then appends to the same checkpoint; SCALE.md gives both and
  prescribes no order. The claim's own row is in the ledger, behind the other. In
  the documented order the same would happen to an engine that is down for the
  default sweep, up for the other and has its rows of 100000 appended by a later
  one; that history is not part of this run.

Seen while modelling, and not made into runs:

* A unit of which an append left one whole line is skipped for good, its other
  rows missing, and if the line was the anchor's and the next append spoiled it,
  the anchor is appended again, behind rows it should precede. So `SkippedIsComplete`
  and `AnchoredFirst` are claimed for whole appends only.
* `make_corpus` makes every record valid throughout at the instant the as_of
  scenario asks about, so the scenario cannot find a leak; the H4 driver measures
  `as_of` on the chain corpus, which does not have this defect.
* `audit` of the partitioned Qdrant adapter answers from a map that `delete`
  does not touch, so it goes on reporting deleted records; it denies none that is
  open.
* The adapters disagree on a rid written again: pgvector keeps the interval and
  takes the embedding, the partitioned Postgres adapter ignores the write, the
  Qdrant adapters add a second point, and the reference backends keep it behind
  the old tombstone.
* A `flush` of the partitioned Postgres adapter that fails half way and is made
  again gives some tables a second index. Superseding leaves the closed version
  in the tables of all later epochs, where it is valid at no instant. Both cost
  space only.
* The partitioned Qdrant adapter's `flush` polls all collections against one
  deadline and records no status.
* `parse_rid` misreads versions from 100 on. The default depths go to 16;
  `RQ9_H4_DEPTHS` may set more.
* A `supersede` of the partitioned Qdrant adapter that raises after the pop of the
  entry in `cur` and before its delete is received leaves the old version's point
  there, where no later call finds it. It is closed, so no read for now returns it.
* `LeakyTenant` does not keep "full recall": what it leaks takes the place of the
  tenant's own records (RQ9_HARNESS_SPEC.md reports 0.14).

## Not modelled

* Vectors, ranking by cosine, seeded generators, timings, percentiles: numbers
  from floating-point arithmetic and clocks, with no state of their own.
* Approximate search: the indexes of the engines may return fewer of the true
  neighbours, which is what the repository measures; the model's reads are exact,
  and its properties are about which rows a read may see.
* VACUUM, `compact` of the engines and storage sizes: space, not answers.
* What happens inside a measured unit of the resumable drivers (build, warm-up,
  queries, the columns of a row): a unit is its rows' numbers.
* The loops of `run_h4_stress.py`, `run_g3_probe.py` and `run_g3_qdrant.py` beyond
  what they share with `run_scale.py`, and the corpus and instants they use.
* The planner diagnostic, and printing everywhere.

## Plan

1. `EpochPlacement`, `PgPartitioned`, with `VersionStore` as the abstract
   specification they implement, checked and proved. *Done.*
2. `CheckpointLedger`, the resumable drivers, and `NumbersAudit` over the ledgers
   they leave, checked; the inductive invariant of the sweep proved. *Done.*
3. `ReferenceStore` and, over it, `GuaranteeProbe`, checked; that the backends implement
   `VersionStore` proved. *Done.*
4. `QdrantServer` with `QdrantPartitioned` and `QdrantMonolith`, and `PgVector`,
   checked and proved, that they implement `VersionStore` included. *Done.*
5. `ChainCorpus`, its tiling and its codec, proved. *Done.*
6. The reads of `ReferenceStore`, the verdicts of `GuaranteeProbe` and the claims of
   `NumbersAudit`, proved. *Done.*
7. Left: of the g3 probes and the H4 driver, what they do beyond the loop they share
   with `run_scale.py` (see *Not modelled*). Of what is checked, only liveness is
   without a proof.
