---------------------------- MODULE CallerHistory ---------------------------
(* The caller of a backend, common to the adapters that are modelled request *)
(* by request: the call that is being executed and what the calls that have  *)
(* returned add up to.  The caller is single-threaded and keeps valid-time   *)
(* history: the versions of one chain have disjoint intervals, rids are not  *)
(* reused while stored, and only the open version of a chain is superseded,  *)
(* not before its own start.                                                 *)
EXTENDS ValidTime

CONSTANTS
  Rid,       \* record ids
  ChainOf,   \* the logical memory each rid is a version of
  Absent,    \* "not stored"
  Batches    \* the record batches the caller may write

IsBatch(b) == /\ DOMAIN b \subseteq Rid
              /\ b \in [DOMAIN b -> Interval]

ASSUME AbsentAssumption == Absent \notin Interval

\* A batch holds records with distinct rids and non-empty intervals.
ASSUME BatchAssumption ==
  \A b \in Batches : /\ IsBatch(b)
                     /\ DOMAIN b # {}
                     /\ \A r \in DOMAIN b : b[r].from < b[r].until

VARIABLES
  call,    \* the call being executed (or failed), with its arguments
  acked    \* history variable: the rows as the calls that returned left them

NoRecs == [r \in {} |-> Absent]

NoCall == [op |-> "none", recs |-> NoRecs, rids |-> {}, at |-> 0]

NoRows == [r \in Rid |-> Absent]

\* The arguments of the three calls that change a store.
WriteOf(recs) == [op |-> "write", recs |-> recs, rids |-> {}, at |-> 0]

\* The new version's own interval is ignored: it is rebuilt as [at, T_OPEN).
SupersedeOf(rid, new, at) ==
  [op |-> "supersede", rids |-> {rid}, at |-> at,
   recs |-> [r \in {new} |-> [from |-> at, until |-> TOpen]]]

DeleteOf(rids) == [op |-> "delete", recs |-> NoRecs, rids |-> rids, at |-> 0]

\* What the caller may assume once the current call has returned.
Outcome ==
  [r \in Rid |->
     IF r \in DOMAIN call.recs THEN call.recs[r]
     ELSE IF r \notin call.rids THEN acked[r]
     ELSE IF call.op = "supersede" THEN Closed(acked[r], call.at) ELSE Absent]

SameChain(r, s) == r # s /\ ChainOf[r] = ChainOf[s]

FitsHistory(recs) ==
  \A r \in DOMAIN recs :
    /\ acked[r] = Absent
    /\ \A s \in Rid : SameChain(r, s) =>
         /\ acked[s] # Absent => Apart(recs[r], acked[s])
         /\ s \in DOMAIN recs => Apart(recs[r], recs[s])

MaySupersede(rid, new, at) ==
  /\ acked[rid] # Absent /\ acked[new] = Absent /\ SameChain(rid, new)
  /\ IsOpen(acked[rid]) /\ acked[rid].from <= at

\* What the caller's own history (the exact oracle) says was true at t.
TrueAt(t) == {r \in Rid : acked[r] # Absent /\ ValidAt(acked[r], t)}

TrueNow == {r \in Rid : acked[r] # Absent /\ IsOpen(acked[r])}
=============================================================================
