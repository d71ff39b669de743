-------------------------- MODULE CheckpointLedger --------------------------
(* The resumable measurement drivers (run_scale.py; run_h4_stress.py and the *)
(* g3 probes have the same loop without an oracle anchor).  A run visits the *)
(* units (variant, N) in order, skips those its checkpoint file names,       *)
(* measures the others and appends their rows to the file, and at the end    *)
(* regenerates the ledger from the file.  A run may die anywhere and is then *)
(* simply started again, perhaps on another machine.                         *)
EXTENDS Integers, Sequences, FiniteSets

CONSTANTS
  SizeLists,   \* what NS may be set to from run to run, sequences of sizes
  Variants,    \* VARIANTS, a sequence of variant names
  EngineOf,    \* the engine a variant needs
  Anchored,    \* does the driver append an exact-oracle row per size?
  RowsPerUnit, \* ledger rows of one measured unit
  Envs,        \* the environments (fingerprints) runs may happen in
  TornWrites,  \* may an append reach the disk in part (power loss, disk full)?
  MaxBad       \* bound: how many runs die, or find an engine down

ASSUME PlanAssumption ==
  /\ \A ns \in SizeLists : \A i, j \in DOMAIN ns : ns[i] = ns[j] => i = j
  /\ \A i, j \in DOMAIN Variants : Variants[i] = Variants[j] => i = j

ASSUME BoundAssumption == /\ RowsPerUnit \in Nat \ {0}
                          /\ MaxBad \in Nat
                          /\ Anchored \in BOOLEAN /\ TornWrites \in BOOLEAN

VARIABLES
  present, \* does the checkpoint file exist?
  lines,   \* the checkpoint file, line by line; a Junk line is not valid JSON
  cut,     \* does the last line lack its newline?
  json,    \* out/*_ledger.json
  csv,     \* out/*_ledger.csv
  pc, pos, \* the run: where it is, and which unit of its plan is next
  sizes,   \* NS, the sizes this run sweeps
  done,    \* the units done_keys() found when the run started
  corpus,  \* the size whose corpus the run has generated, or NoSize
  out,     \* the unit whose rows are being appended
  env,     \* the environment this run is in
  up,      \* the engines this run found up
  bad      \* runs that died or missed an engine, up to MaxBad

disk == <<present, lines, cut, json, csv>>
run  == <<pos, sizes, done, corpus, out, env, up>>
vars == <<disk, run, pc, bad>>

NoSize == "no size"
NoUnit == <<"no variant", NoSize>>
Junk   == [unit |-> NoUnit, row |-> 0, env |-> "none"]
Absent == [env |-> "none", rows |-> <<>>]    \* no file, or a truncated one

Oracle(N) == <<"oracle", N>>

\* for N in NS: for vname in VARIANTS
PlanOf(ns) == [i \in 1 .. Len(ns) * Len(Variants) |->
                 <<Variants[((i - 1) % Len(Variants)) + 1],
                   ns[((i - 1) \div Len(Variants)) + 1]>>]

Plan == PlanOf(sizes)

PlanUnits == {Plan[i] : i \in DOMAIN Plan}

AllSizes == UNION {{ns[i] : i \in DOMAIN ns} : ns \in SizeLists}
VariantUnits == {Variants[i] : i \in DOMAIN Variants} \X AllSizes
Oracles == {Oracle(N) : N \in AllSizes}

\* No variant is called like the anchor, and no size like the lack of one.
ASSUME NamesAssumption ==
  /\ NoSize \notin AllSizes
  /\ SizeLists \subseteq Seq(AllSizes)
  /\ Variants \in Seq({Variants[i] : i \in DOMAIN Variants} \ {"oracle"})

Units == VariantUnits \cup (IF Anchored THEN Oracles ELSE {})

RowsOf(u) == IF u \in Oracles THEN 1 ELSE RowsPerUnit

\* The lines append_rows() writes for a unit measured in environment e.
UnitLines(u, e) == [i \in 1 .. RowsOf(u) |-> [unit |-> u, row |-> i, env |-> e]]

\* The file after `new' is written at its end: text that follows a cut line
\* continues that line, and the two together are not valid JSON.
Appended(new) ==
  IF new = <<>> THEN lines
  ELSE IF cut THEN [lines EXCEPT ![Len(lines)] = Junk] \o Tail(new)
  ELSE lines \o new

-----------------------------------------------------------------------------

\* (mutant) resume after the furthest unit found, as if none before were open
DoneKeys_UpTo ==
  {Plan[i] : i \in {j \in DOMAIN Plan : \E k \in DOMAIN lines :
                      \E m \in DOMAIN Plan : j <= m /\ lines[k].unit = Plan[m]}}

\* done_keys: the unit of every line that parses; the others are passed over.
DoneKeys == {lines[i].unit : i \in DOMAIN lines} \ {NoUnit}

Engines == {EngineOf[Variants[i]] : i \in DOMAIN Variants}

Start(e, engines, ns) ==
  /\ pc \in {"down", "finished"}
  /\ engines # Engines => bad < MaxBad
  /\ bad' = IF engines = Engines THEN bad ELSE bad + 1
  /\ pc' = "loop" /\ pos' = 1 /\ done' = DoneKeys
  /\ corpus' = NoSize /\ out' = NoUnit
  /\ env' = e /\ up' = engines /\ sizes' = ns
  /\ UNCHANGED disk

InLoop == pc = "loop" /\ pos \in DOMAIN Plan

Unit == Plan[pos]

\* (mutant) a size is passed over once any of its variants is done
Pending_BySize == /\ InLoop
                  /\ EngineOf[Unit[1]] \in up
                  /\ \A u \in done : u[2] # Unit[2]

Pending == /\ InLoop
           /\ EngineOf[Unit[1]] \in up
           /\ Unit \notin done

\* The engine is not up, or the checkpoint has the unit: on to the next one.
Skip ==
  /\ InLoop /\ ~Pending
  /\ pos' = pos + 1
  /\ UNCHANGED <<disk, pc, sizes, done, corpus, out, env, up, bad>>

\* (mutant) the anchor is appended by a fresh sweep only
Generate_FreshOnly ==
  /\ Pending /\ corpus # Unit[2]
  /\ corpus' = Unit[2]
  /\ IF Anchored /\ done = {}
     THEN pc' = "append" /\ out' = Oracle(Unit[2])
     ELSE UNCHANGED <<pc, out>>
  /\ UNCHANGED <<disk, pos, sizes, done, env, up, bad>>

\* (mutant) the anchor is appended whenever the corpus is generated
Generate_Always ==
  /\ Pending /\ corpus # Unit[2]
  /\ corpus' = Unit[2]
  /\ IF Anchored
     THEN pc' = "append" /\ out' = Oracle(Unit[2])
     ELSE UNCHANGED <<pc, out>>
  /\ UNCHANGED <<disk, pos, sizes, done, env, up, bad>>

\* First pending unit of a size: generate the corpus, append the exact anchor
\* unless the checkpoint has it.
Generate ==
  /\ Pending /\ corpus # Unit[2]
  /\ corpus' = Unit[2]
  /\ IF Anchored /\ Oracle(Unit[2]) \notin done
     THEN pc' = "append" /\ out' = Oracle(Unit[2])
     ELSE UNCHANGED <<pc, out>>
  /\ UNCHANGED <<disk, pos, sizes, done, env, up, bad>>

\* Build and measure the variant; its rows stay in memory until the end.
Measure ==
  /\ Pending /\ corpus = Unit[2]
  /\ pc' = "append" /\ out' = Unit
  /\ UNCHANGED <<disk, pos, sizes, done, corpus, env, up, bad>>

\* (mutant) appending the anchor also moves on to the next unit
AppendRows_Advance ==
  /\ pc = "append"
  /\ present' = TRUE
  /\ lines' = Appended(UnitLines(out, env))
  /\ cut' = FALSE
  /\ pc' = "loop" /\ out' = NoUnit
  /\ pos' = pos + 1
  /\ UNCHANGED <<json, csv, sizes, done, corpus, env, up, bad>>

\* append_rows: the file is created if need be, and written when it is closed.
AppendRows ==
  /\ pc = "append"
  /\ present' = TRUE
  /\ lines' = Appended(UnitLines(out, env))
  /\ cut' = FALSE
  /\ pc' = "loop" /\ out' = NoUnit
  /\ pos' = IF out \in Oracles THEN pos ELSE pos + 1
  /\ UNCHANGED <<json, csv, sizes, done, corpus, env, up, bad>>

AtEnd == pc = "loop" /\ pos \notin DOMAIN Plan

Unreadable == ~present \/ \E i \in DOMAIN lines : lines[i] = Junk

\* _emit reads the file (json.loads on every line), then opens the ledger.
\* With no file, or a line that is not JSON, it raises and nothing is emitted;
\* of an empty file it makes an empty ledger.
OpenLedger ==
  /\ AtEnd
  /\ IF Unreadable
     THEN pc' = "down" /\ UNCHANGED json
     ELSE pc' = "json" /\ json' = Absent
  /\ UNCHANGED <<present, lines, cut, csv, run, bad>>

\* json.dump({"fingerprint": fp, "ledger": rows}); then the CSV is opened.
WriteJson ==
  /\ pc = "json"
  /\ json' = [env |-> env, rows |-> lines]
  /\ csv' = <<>>
  /\ pc' = "csv"
  /\ UNCHANGED <<present, lines, cut, run, bad>>

WriteCsv ==
  /\ pc = "csv"
  /\ csv' = lines
  /\ pc' = "finished"
  /\ UNCHANGED <<present, lines, cut, json, run, bad>>

\* What a partial append may leave: some whole lines, perhaps the beginning of
\* the next one, perhaps a whole line without its newline.
Torn(full) ==
  {[new |-> SubSeq(full, 1, n), cut |-> c] : n \in 0 .. Len(full), c \in BOOLEAN}
  \cup {[new |-> Append(SubSeq(full, 1, n), Junk), cut |-> TRUE] : n \in 0 .. Len(full) - 1}

\* The run dies: an engine raises, the process or the machine goes down.  An
\* append that it cuts short may have created the file.
Die ==
  /\ pc \notin {"down", "finished"} /\ bad < MaxBad
  /\ bad' = bad + 1 /\ pc' = "down"
  /\ \/ UNCHANGED <<present, lines, cut>>
     \/ pc = "append" /\ present' = TRUE /\ UNCHANGED <<lines, cut>>
     \/ /\ TornWrites /\ pc = "append"
        /\ \E t \in Torn(UnitLines(out, env)) :
             /\ t.new # <<>> /\ present' = TRUE
             /\ lines' = Appended(t.new) /\ cut' = t.cut
  /\ UNCHANGED <<json, csv, run>>

-----------------------------------------------------------------------------

Init ==
  /\ present = FALSE /\ lines = <<>> /\ cut = FALSE /\ json = Absent /\ csv = <<>>
  /\ pc = "down" /\ pos = 1 /\ done = {} /\ corpus = NoSize /\ out = NoUnit
  /\ env \in Envs /\ up = {} /\ sizes \in SizeLists /\ bad = 0

Step == \/ Skip
        \/ Generate
        \/ Measure
        \/ AppendRows
        \/ OpenLedger
        \/ WriteJson
        \/ WriteCsv

AnyStart == \E e \in Envs, engines \in SUBSET Engines, ns \in SizeLists :
              Start(e, engines, ns)

Next == AnyStart \/ Step \/ Die

Spec == Init /\ [][Next]_vars

\* The script is sequential and its calls return; a run that ended is started
\* again by its operator.
FairSpec == Spec /\ WF_vars(Step) /\ WF_vars(AnyStart)

-----------------------------------------------------------------------------

Line == {Junk} \cup {l \in [unit : Units, row : 1 .. RowsPerUnit, env : Envs] :
                        l.row <= RowsOf(l.unit)}

TypeOK ==
  /\ present \in BOOLEAN /\ lines \in Seq(Line) /\ cut \in BOOLEAN
  /\ pc \in {"down", "loop", "append", "json", "csv", "finished"}
  /\ pos \in 1 .. Len(Plan) + 1
  /\ sizes \in SizeLists /\ done \subseteq Units /\ out \in Units \cup {NoUnit}
  /\ env \in Envs /\ up \subseteq Engines /\ bad \in 0 .. MaxBad

OnDisk(u) == {lines[i].row : i \in {j \in DOMAIN lines : lines[j].unit = u}}

Complete(u) == OnDisk(u) = 1 .. RowsOf(u)

\* However often runs die and start again, and whatever an append left behind,
\* no measurement is in the ledger twice: a row that is on disk belongs to a
\* unit that is not measured again.
NoDoubleRow ==
  \A i, j \in DOMAIN lines :
    lines[i] # Junk /\ lines[i].unit = lines[j].unit /\ lines[i].row = lines[j].row
      => i = j

\* "Each completed (variant, N) appends its rows and is skipped on rerun": a
\* unit that a run skips has all of its rows in the checkpoint.
SkippedIsComplete == \A u \in done : Complete(u)

\* No variant is priced at a size without the exact baseline of that size
\* before it in the ledger.
AnchoredFirst ==
  Anchored =>
    \A i \in DOMAIN lines : lines[i].unit \in VariantUnits =>
      \E j \in 1 .. i : lines[j].unit = Oracle(lines[i].unit[2])

\* A run that finishes leaves a JSON and a CSV ledger of the same rows, and
\* they have every row of every unit whose engine it found up, whether it
\* measured the unit or an earlier run did.
FinishedIsWhole ==
  pc = "finished" =>
    /\ json.rows = lines /\ csv = lines
    /\ \A u \in PlanUnits : EngineOf[u[1]] \in up => Complete(u)

\* The ledger's rows were measured in the environment its fingerprint names:
\* latency rows are comparable only within one fingerprint.
FingerprintHolds ==
  \A i \in DOMAIN json.rows : json.rows[i].env = json.env

\* Once runs stop dying and engines are up, the sweep gets done: again and
\* again a run finishes with every unit of its plan in the ledger, and with
\* the exact anchor of each of its sizes.
SweepCompletes ==
  []<>(/\ pc = "finished" /\ up = Engines
       /\ \A u \in PlanUnits : Complete(u) /\ (Anchored => Complete(Oracle(u[2]))))

\* Each run that is not cut short regenerates the ledger from the checkpoint.
EveryRunEmits == []<>(pc = "finished")

-----------------------------------------------------------------------------
(* The inductive invariant: what the running sweep has put into the file and *)
(* what it still may.                                                        *)

Running == pc \in {"loop", "append"}

Before(i) == {Plan[j] : j \in {k \in DOMAIN Plan : k < i}}

\* The sweep is past size N, or at it with the corpus of N generated.
PastAnchor(N) == corpus = N \/ \A j \in DOMAIN Plan : pos <= j => Plan[j][2] # N

\* What the file has beyond done_keys() came from this run, and behind it.
FileOK ==
  \A u \in DoneKeys : \/ u \in done \cup Before(pos)
                      \/ \E N \in AllSizes : u = Oracle(N) /\ PastAnchor(N)

CorpusOK == corpus # NoSize => \E j \in DOMAIN Plan : j <= pos /\ Plan[j][2] = corpus

\* Only a unit the file does not have is appended.
OutOK == pc = "append" =>
  /\ pos \in DOMAIN Plan /\ corpus = Unit[2]
  /\ out = Unit \/ (Anchored /\ out = Oracle(corpus))
  /\ out \notin DoneKeys

\* If every append reaches the disk whole: what the file names it has whole,
\* each size's anchor first, and all that the sweep has gone past.
WholeFile ==
  /\ ~cut /\ \A i \in DOMAIN lines : lines[i] # Junk
  /\ \A u \in DoneKeys : Complete(u)
  /\ done \subseteq DoneKeys
  /\ AnchoredFirst

WholeRun ==
  /\ Running /\ Anchored /\ corpus # NoSize =>
       Oracle(corpus) \in DoneKeys \/ (pc = "append" /\ out = Oracle(corpus))
  /\ Running => \A u \in Before(pos) : EngineOf[u[1]] \in up => u \in DoneKeys
  /\ pc \in {"json", "csv", "finished"} =>
       \A u \in PlanUnits : EngineOf[u[1]] \in up => u \in DoneKeys

\* The part of it that holds whatever an append leaves behind.
CoreInv ==
  /\ TypeOK
  /\ lines # <<>> => present
  /\ cut => lines # <<>>
  /\ NoDoubleRow
  /\ Running => FileOK /\ CorpusOK
  /\ OutOK
  /\ pc \in {"csv", "finished"} => json.rows = lines
  /\ pc = "finished" => csv = lines

\* The inductive strengthening of NoDoubleRow and, without torn appends, of
\* SkippedIsComplete, AnchoredFirst and FinishedIsWhole.
IInv == CoreInv /\ (~TornWrites => WholeFile /\ WholeRun)
=============================================================================
