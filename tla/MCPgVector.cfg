CONSTANTS
  r1 = r1
  r2 = r2
  r3 = r3
  r4 = r4
  t1 = t1
  t2 = t2
  Rid = {r1, r2, r3, r4}
  ChainOf <- MCChainOf
  TenantOf <- MCTenantOf
  Instant = {0, 1, 2}
  TOpen = 99
  Absent = Absent
  Batches <- MCBatches
  Deployed = TRUE
  PageSize = 2
  Deferred = TRUE
SPECIFICATION Spec
INVARIANTS
  IInv
  ReadsExact
  AtMostOneVersion
  FlushedReady
PROPERTY StoreSpec
