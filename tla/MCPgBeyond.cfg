CONSTANTS
  Epoch = 2
  MaxEpoch = 1
  TOpen = 99
  Instant = {0, 4, 5}
  r1 = r1
  r2 = r2
  r3 = r3
  Rid = {r1, r2, r3}
  ChainOf <- OneChain
  Absent = Absent
  Batches <- OpenBatches
  PageSize = 1
  MaxIndexes = 2
SPECIFICATION Spec
INVARIANT BeyondHorizonExact
