----------------------------- MODULE ChainCorpus ----------------------------
(* The supersession-chain corpus of the H4 and g3 drivers, its row ids, and  *)
(* the instants the drivers ask about.  Pure definitions: a corpus of        *)
(* NLogical chains has Depth versions of each, one per epoch, and a backend  *)
(* that partitions is built with max_epoch = Depth - 1.                      *)
EXTENDS EpochPlacement

CONSTANT NLogical   \* how many chains

Depth == MaxEpoch + 1

ASSUME CorpusAssumption == /\ NLogical \in Nat \ {0}
                           /\ Depth * Epoch < TOpen

Version == 0 .. Depth - 1

\* make_chain_corpus: version v is valid during epoch v, the last one still is.
VersionInterval(v) ==
  [from |-> v * Epoch, until |-> IF v = Depth - 1 THEN TOpen ELSE (v + 1) * Epoch]

\* The rows are chain-major: np.repeat of the chains, np.tile of the versions.
Row == 0 .. NLogical * Depth - 1

ChainOfRow(i) == i \div Depth

VersionOfRow(i) == i % Depth

IntervalOfRow(i) == VersionInterval(VersionOfRow(i))

MinOf(a, b) == IF a < b THEN a ELSE b

\* records_batches: the rows in their order, so many at a time.
BatchFrom(lo, size) ==
  [i \in lo .. MinOf(lo + size, NLogical * Depth) - 1 |-> IntervalOfRow(i)]

CorpusBatches(size) == {BatchFrom(lo, size) : lo \in {i \in Row : i % size = 0}}

-----------------------------------------------------------------------------
(* Row ids.  rid_of pads the chain to six digits and the version to two;     *)
(* parse_rid takes the characters where these digits are expected.  A longer *)
(* version loses its last digit, a longer chain moves the "v" into the place *)
(* of a digit, and int() raises.                                             *)

ChainLimit == 1000000

VersionLimit == 100

Unparsable == <<>>

\* For versions of up to three digits.
ParsedRid(chain, ver) ==
  IF chain >= ChainLimit THEN Unparsable
  ELSE <<chain, IF ver < VersionLimit THEN ver ELSE ver \div 10>>

\* temporal_leak: the row whose interval a hit with this row's id is judged by.
JudgedRow(i) ==
  LET parsed == ParsedRid(ChainOfRow(i), VersionOfRow(i))
  IN  parsed[1] * Depth + parsed[2]

-----------------------------------------------------------------------------
(* The instants the drivers measure as_of at.                                *)

Half(n) == n \div 2

TMid == (IF Half(Depth) > 1 THEN Half(Depth) ELSE 1) * Epoch - Half(Epoch)

TNow == (Depth - 1) * Epoch + Half(Epoch)

\* exact_asof_topk: the rows the oracle ranks for instant t.
ValidRows(t) == {i \in Row : ValidAt(IntervalOfRow(i), t)}
=============================================================================
