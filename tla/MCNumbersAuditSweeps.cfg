CONSTANTS
  SizeLists <- TwoSweeps
  Variants <- MCVariants
  EngineOf <- MCEngineOf
  Anchored = TRUE
  RowsPerUnit = 2
  Envs = {"a"}
  TornWrites = FALSE
  MaxBad = 0
  Contains <- MCContains
SPECIFICATION Spec
INVARIANT CanonicalRow
