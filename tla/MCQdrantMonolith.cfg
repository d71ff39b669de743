CONSTANTS
  r1 = r1
  r2 = r2
  r3 = r3
  t1 = t1
  t2 = t2
  Rid = {r1, r2, r3}
  ChainOf <- MCChainOf
  TenantOf <- MCTenantOf
  Instant = {0, 1}
  TOpen = 99
  Absent = Absent
  Batches <- MCBatches
  Deployed = TRUE
  CH = 1
  Retried = {"delete"}
  MaxWrites = 3
  MaxPending = 1
SPECIFICATION Spec
INVARIANTS
  StoreInv
  GreenReadsExact
  NothingStaleReadable
  AtMostOneVersion
  AuditTruthful
PROPERTY StoreSpec
