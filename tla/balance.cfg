CONSTANTS
  u1 = u1
  u2 = u2
  r1 = r1
  r2 = r2
  r3 = r3
  k1 = k1
  k2 = k2
  None = None
  Users = {u1, u2}
  Reqs = {r1, r2, r3}
  Keys = {k1, k2}
  Deliveries = {}
  Owner <- MixedOwner
  Key <- MixedKey
  Cost <- MixedCost
  InitBal <- MixedInitBal
  SlowSections = FALSE
SPECIFICATION Spec
INVARIANTS TypeOK Conservation HoldsCovered ServedIsCharged
PROPERTY ImplementsLedger
CHECK_DEADLOCK FALSE
