CONSTANTS
  u1 = u1
  u2 = u2
  r1 = r1
  r2 = r2
  r3 = r3
  k1 = k1
  k2 = k2
  None = None
  Users = {u1}
  Reqs = {r1, r2, r3}
  Keys = {k1, k2}
  Deliveries = {}
  Owner <- LiveOwner
  Key <- LiveKey
  Cost <- LiveCost
  InitBal <- LiveInitBal
  SlowSections = TRUE
SPECIFICATION FairSpec
INVARIANTS BalanceNonNegative ChargeJustified
PROPERTIES RequestsEnd LockFreed
CHECK_DEADLOCK FALSE
