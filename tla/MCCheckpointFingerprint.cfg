CONSTANTS
  SizeLists <- OneSize
  Variants <- MCVariants
  EngineOf <- MCEngineOf
  Anchored = FALSE
  RowsPerUnit = 2
  Envs = {"a", "b"}
  TornWrites = FALSE
  MaxBad = 1
  Contains <- MCContains
SPECIFICATION Spec
INVARIANT FingerprintHolds
