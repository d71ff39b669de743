CONSTANTS
  SizeLists <- Ascending
  Variants <- MCVariants
  EngineOf <- MCEngineOf
  Anchored = TRUE
  RowsPerUnit = 2
  Envs = {"a"}
  TornWrites = FALSE
  MaxBad = 3
  Contains <- MCContains
SPECIFICATION FairSpec
INVARIANTS
  NoDoubleRow
  SkippedIsComplete
  AnchoredFirst
  FinishedIsWhole
  ResolvesToOwnRow
  AuditInv
PROPERTY SweepCompletes
