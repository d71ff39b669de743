CONSTANTS
  r1 = r1
  r2 = r2
  r3 = r3
  r4 = r4
  t1 = t1
  t2 = t2
  Rid = {r1, r2, r3, r4}
  Tenant = {t1, t2}
  ChainOf <- MCChainOf
  Instant = {0, 1, 2}
  TOpen = 99
  Absent = Absent
  K = 2
  MaxProbes = 2
  Tenants <- MCTenants
  AsOfT = 1
  Corpora <- MCCorpora
  QuerySets <- MCQuerySets
SPECIFICATION ProbeSpec
INVARIANTS
  HonestPasses
  DeleteVerdictExact
PROPERTY RunEnds
CHECK_DEADLOCK FALSE
