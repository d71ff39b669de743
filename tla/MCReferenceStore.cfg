CONSTANTS
  r1 = r1
  r2 = r2
  r3 = r3
  t1 = t1
  t2 = t2
  Rid = {r1, r2, r3}
  Tenant = {t1, t2}
  ChainOf <- MCChainOf
  Instant = {0, 1}
  TOpen = 99
  Absent = Absent
SPECIFICATION Spec
INVARIANTS
  ReadsExact
  AuditTruthful
PROPERTY StoreSpec
CHECK_DEADLOCK FALSE
