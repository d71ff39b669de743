CONSTANTS
  Epoch = 2
  MaxEpoch = 1
  TOpen = 99
  Instant = {0, 2, 3}
  NLogical = 2
  Rid = {0, 1, 2}
  ChainOf <- MCChainOf
  Absent = Absent
  Batches <- MCBatches
  CH = 1
  Retried = {"delete"}
  MaxWrites = 3
  MaxPending = 1
SPECIFICATION Spec
INVARIANTS
  StoreInv
  SettledReadsExact
  NothingStaleReadable
  AtMostOneVersion
  EveryPointReachable
  AuditDeniesNoneOpen
PROPERTY StoreSpec
