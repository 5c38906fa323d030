SPECIFICATION Spec
CONSTANTS
  Requests = {r1, r2, r3}
  TenantIDs = {t1, t2}
  EnvFaults = TRUE
  r1 = r1
  r2 = r2
  r3 = r3
  t1 = t1
  t2 = t2
SYMMETRY Symmetry
INVARIANTS
  TypeOK
  OkMeansComplete
  StorageIsIsolated
PROPERTIES
  AbandonedForGood
  ImplementsClaim
CHECK_DEADLOCK FALSE
