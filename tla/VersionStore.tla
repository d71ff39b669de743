---------------------------- MODULE VersionStore ----------------------------
(* What a store of valid-time versions promises, whatever its layout: every  *)
(* rid has at most one interval, an interval is closed once and never        *)
(* changed again, and the versions of one chain never overlap.  Each step is *)
(* atomic: the partitioned adapter is shown to implement these steps with    *)
(* its loops of statements, the reference backends with their arrays.        *)
EXTENDS Integers

CONSTANTS Rid, ChainOf, Absent, Instant, TOpen

VARIABLE hist   \* by rid, its validity interval or Absent

Interval == [from : Instant, until : Instant \cup {TOpen}]

Apart(a, b) == a.until <= b.from \/ b.until <= a.from

Versions(r) == {s \in Rid : s # r /\ ChainOf[s] = ChainOf[r] /\ hist[s] # Absent}

\* New rids appear together, each clear of the versions its chain has, stored
\* before or with it.
Load(S) ==
  /\ \A r \in S : hist[r] = Absent
  /\ hist' \in [Rid -> Interval \cup {Absent}]
  /\ \A r \in Rid : IF r \in S THEN hist'[r] # Absent ELSE hist'[r] = hist[r]
  /\ \A r \in S : \A s \in Versions(r)' : Apart(hist'[r], hist'[s])

\* The open interval of a rid ends, not before it began.
Close(r, at) ==
  /\ hist[r] # Absent /\ hist[r].until = TOpen
  /\ hist[r].from <= at
  /\ hist' = [hist EXCEPT ![r].until = at]

Forget(S) ==
  /\ \A r \in S : hist[r] # Absent
  /\ hist' = [r \in Rid |-> IF r \in S THEN Absent ELSE hist[r]]

\* A new version takes over from the open one, where an adapter does both at once.
Replace(r, s, at) ==
  /\ hist[r] # Absent /\ hist[r].until = TOpen
  /\ hist[r].from <= at
  /\ s # r /\ hist[s] = Absent
  /\ hist' = [hist EXCEPT ![r].until = at, ![s] = [from |-> at, until |-> TOpen]]
  /\ \A v \in Versions(s)' : Apart(hist'[s], hist'[v])

Init == hist = [r \in Rid |-> Absent]

\* A step that changes nothing is no step of the store.
Next ==
  /\ hist' # hist
  /\ \/ \E S \in (SUBSET Rid) \ {{}} : Load(S) \/ Forget(S)
     \/ \E r \in Rid, at \in Instant : Close(r, at)
     \/ \E r, s \in Rid, at \in Instant : Replace(r, s, at)

Spec == Init /\ [][Next]_hist
=============================================================================
