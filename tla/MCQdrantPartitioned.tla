------------------------ MODULE MCQdrantPartitioned -------------------------
(* Small instances of the partitioned Qdrant adapter.  Record ids are the    *)
(* row numbers of a chain corpus: with depth two, rows 0 and 1 are the first *)
(* chain and row 2 starts the second.                                        *)
EXTENDS QdrantPartitionedInv, ChainCorpus

MCChainOf == [r \in Rid |-> ChainOfRow(r)]

Iv(from, until) == [from |-> from, until |-> until]

\* The corpus in batches of two and more rows, an open version to supersede,
\* and a version that spans both epochs.
MCBatches ==
  {b \in CorpusBatches(3) : DOMAIN b \subseteq Rid}
  \cup {[r \in {0} |-> Iv(0, TOpen)], [r \in {2} |-> Iv(0, 3)]}

\* One open version.
OneOpen == {[r \in {0} |-> Iv(0, TOpen)]}
=============================================================================
