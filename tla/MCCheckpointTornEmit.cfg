CONSTANTS
  SizeLists <- OneSize
  Variants <- MCVariants
  EngineOf <- MCEngineOf
  Anchored = TRUE
  RowsPerUnit = 2
  Envs = {"a"}
  TornWrites = TRUE
  MaxBad = 1
  Contains <- MCContains
SPECIFICATION FairSpec
PROPERTY EveryRunEmits
