-------------------------- MODULE PgPartitionedInv --------------------------
(* The properties of the partitioned Postgres adapter and the invariant they *)
(* follow from.                                                              *)
EXTENDS PgPartitioned

\* After every call that returned, each row the caller owns is, with its
\* interval, in every epoch table that interval overlaps, in cur if it is open,
\* and in no case lost from every epoch table: write() misses no epoch and
\* supersede() leaves none behind, whatever raised and was retried in between.
PlacementRule ==
  pc = "idle" =>
    \A r \in Rid : acked[r] # Absent =>
      /\ \A e \in Epochs : Overlaps(acked[r], e) => tables[e][r] = acked[r]
      /\ IsOpen(acked[r]) => tables[Cur][r] = acked[r]
      /\ \E e \in Epochs : Present(e, r)

\* After every call that returned, no table keeps a row that was deleted, a
\* copy with an outdated interval, or a closed version in the cur snapshot.
NoStaleCopy ==
  pc = "idle" =>
    \A r \in Rid, t \in Table : Present(t, r) =>
      /\ tables[t][r] = acked[r]
      /\ t = Cur => IsOpen(acked[r])

\* Between calls, an as_of read inside the horizon, which looks into a single
\* epoch table, sees exactly the rows that were true then; a read of "now",
\* which looks into cur, sees exactly the open ones.
RoutedReadsExact ==
  pc = "idle" =>
    /\ \A t \in Instant : t < Horizon => AnswerAt(t) = TrueAt(t)
    /\ AnswerNow = TrueNow

\* No read ever returns two versions of one memory: not between calls, not
\* between two statements of a supersede or a write, and not after one of
\* them raised.  It is why supersede closes everywhere before it writes.
AtMostOneVersion ==
  \A r, s \in Rid : SameChain(r, s) =>
    /\ \A t \in Instant : ~({r, s} \subseteq AnswerAt(t))
    /\ ~({r, s} \subseteq AnswerNow)

\* The fallback to cur for instants beyond the last epoch answers like the
\* epoch tables do (docstring of the adapter): the true rows, all of them.
BeyondHorizonExact ==
  pc = "idle" =>
    \A t \in Instant : t >= Horizon => AnswerAt(t) = TrueAt(t)

\* A flush() that raised half way through its loop of CREATE INDEX has not set
\* the flag that keeps the next one from building: once the flag is set, no
\* table is without its vector index, however often flush() raised before.
\* (A table it had reached then has two; see the README.)
BuiltIsWhole == built => \A t \in Table : indexes[t] >= 1

-----------------------------------------------------------------------------
(* Refinement: a row is in the abstract store as its copy in the highest     *)
(* epoch table has it.  That copy is written by the last UPDATE of a close   *)
(* and is the last one a delete removes.                                     *)

EpochsHolding(r) == {e \in Epochs : Present(e, r)}

LastCopy(r) ==
  IF EpochsHolding(r) = {} THEN Absent
  ELSE tables[CHOOSE e \in EpochsHolding(r) : \A f \in EpochsHolding(r) : f <= e][r]

Hist == [r \in Rid |-> LastCopy(r)]

\* The adapter's statements implement the steps of the version store: at the
\* highest epoch table every close, load and delete is atomic by rid, and
\* nothing that was closed changes or reopens, through failures and retries.
Store == INSTANCE VersionStore WITH hist <- Hist

StoreSpec == Store!Spec

-----------------------------------------------------------------------------
(* The inductive invariant.  A rid the current call does not touch is        *)
(* settled; one it touches is somewhere between its old and its new state,   *)
(* and how far depends on the loop the adapter is in.                        *)

\* Every stored copy is the acknowledged row, where it has to be.
Settled(r) ==
  /\ \A t \in Table : tables[t][r] \in {Absent, acked[r]}
  /\ acked[r] # Absent =>
       /\ \A t \in TablesOf(acked[r]) : tables[t][r] = acked[r]
       /\ Present(Cur, r) => IsOpen(acked[r])
       /\ \E e \in Epochs : Present(e, r)

\* A row being written is complete in the tables its inserts have covered.
Inserting(r) ==
  /\ acked[r] = Absent
  /\ \A t \in Table : /\ tables[t][r] \in {Absent, call.recs[r]}
                      /\ Present(t, r) => t \in TablesOf(call.recs[r])
  /\ pc = "insert" =>
       \A t \in TablesOf(call.recs[r]) : r \notin todo[t] => tables[t][r] = call.recs[r]

\* No copy of r says it is still open, and cur has dropped it.
Retired(r) == /\ \A t \in Table : tables[t][r] # acked[r]
              /\ ~Present(Cur, r)

\* A row being superseded is closed in the tables the UPDATEs have covered,
\* and everywhere before its successor shows up in any table.
Closing(r) ==
  /\ \A t \in Table : tables[t][r] \in {Absent, acked[r], Closed(acked[r], call.at)}
  /\ \A e \in EpochsFor(acked[r]) : Present(e, r)
  /\ pc = "close" => \A t \in Table : todo[t] = {} => tables[t][r] # acked[r]
  /\ pc = "uncur" => \A t \in Table : tables[t][r] # acked[r]
  /\ pc = "insert" => Retired(r)
  /\ (\E t \in Table, s \in DOMAIN call.recs : Present(t, s)) => Retired(r)

\* A row being deleted is gone from the tables the DELETEs have covered.
Erasing(r) ==
  /\ \A t \in Table : tables[t][r] \in {Absent, acked[r]}
  /\ pc = "erase" => \A t \in Table : todo[t] = {} => ~Present(t, r)

RowOK(r) ==
  IF pc = "idle" \/ r \notin DOMAIN call.recs \cup call.rids THEN Settled(r)
  ELSE IF r \in DOMAIN call.recs THEN Inserting(r)
  ELSE IF call.op = "supersede" THEN Closing(r) ELSE Erasing(r)

\* The caller's history has no two versions of a memory at once.
HistoryOK ==
  \A r, s \in Rid : SameChain(r, s) /\ acked[r] # Absent /\ acked[s] # Absent
    => Apart(acked[r], acked[s])

\* The arguments of the running call, and the loop it may be in.
CallShape ==
  \/ /\ call.op = "write" /\ pc \in {"insert", "failed"}
     /\ call.rids = {} /\ FitsHistory(call.recs)
     /\ \A r \in DOMAIN call.recs : call.recs[r].from < call.recs[r].until
  \/ /\ call.op = "supersede" /\ pc \in {"close", "uncur", "insert", "failed"}
     /\ \E rid, new \in Rid :
          /\ MaySupersede(rid, new, call.at) /\ call.rids = {rid}
          /\ call.recs = [r \in {new} |-> [from |-> call.at, until |-> TOpen]]
     /\ pc = "close" => \A t \in Table : todo[t] \in {{}, call.rids}
  \/ /\ call.op = "delete" /\ pc \in {"erase", "failed"}
     /\ call.recs = NoRecs
     /\ pc = "erase" => \A t \in Table : todo[t] \in {{}, call.rids}
  \/ /\ call.op = "flush" /\ pc \in {"index", "analyze", "failed"}
     /\ call.recs = NoRecs /\ call.rids = {}

CallOK ==
  /\ CallShape
  /\ pc = "insert" => \A t \in Table : todo[t] \subseteq PlacedIn(t, call.recs)

\* The loop of CREATE INDEX has made the indexes it has passed.
IndexOK ==
  /\ BuiltIsWhole
  /\ pc = "index" => \A t \in Table : t \notin unindexed => indexes[t] >= 1

\* The inductive strengthening of the properties above: it adds the progress
\* of the running call to what holds between calls.
IInv ==
  /\ TypeOK
  /\ HistoryOK
  /\ pc # "idle" => CallOK
  /\ \A r \in Rid : RowOK(r)
  /\ IndexOK
=============================================================================
