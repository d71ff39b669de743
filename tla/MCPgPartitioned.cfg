CONSTANTS
  Epoch = 2
  MaxEpoch = 1
  TOpen = 99
  Instant = {0, 2, 3, 4}
  r1 = r1
  r2 = r2
  r3 = r3
  Rid = {r1, r2, r3}
  ChainOf <- MCChainOf
  Absent = Absent
  Batches <- MCBatches
  PageSize = 1
  MaxIndexes = 2
SPECIFICATION Spec
INVARIANTS
  TypeOK
  PlacementRule
  NoStaleCopy
  RoutedReadsExact
  AtMostOneVersion
  BeyondHorizonExact
  BuiltIsWhole
  IInv
PROPERTY StoreSpec
