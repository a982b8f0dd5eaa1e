\* Two callers and a cache with room for one of two tenants, of which one is
\* created and then changed while the other stays.
SPECIFICATION TenantSpec
CONSTANTS
  w1 = w1
  w2 = w2
  t1 = t1
  t2 = t2
  NoEntry = NoEntry
  Task <- TwoTasks
  Tenant <- TwoTenants
  Known <- OnlyT2
  Changing <- OnlyT1
  MaxEntries = 1
  Ttl = 1
  NegativeTtl = 1
  RefreshAge = 0
  FetchTime = 1
  MaxVersion = 2
  MaxClock = 2
SYMMETRY TaskSymmetry
INVARIANTS
  StalenessBounded
  OnlyLateTasksRestore
PROPERTIES
  OnlyRevivalsOverfill
