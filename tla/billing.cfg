CONSTANTS
  u1 = u1
  r1 = r1
  k1 = k1
  d1 = d1
  d2 = d2
  t1 = t1
  t2 = t2
  t3 = t3
  c1 = c1
  None = None
  Endpoint = "onchain"
  Start = 1
  Price = 3
  Users = {u1}
  Reqs = {r1}
  Keys = {k1}
  Deliveries = {d1, d2}
  Transfers = {t1, t2, t3, c1}
  Owner <- MCOwner
  Key <- MCKey
  Cost <- MCCost
  InitBal <- MCInitBal
  Source <- MCSource
  Payload <- MCPayload
  Payee <- MCPayee
  Cents <- MCCents
  SlowSections = TRUE
SPECIFICATION BillingSpec
INVARIANTS DepositWasCredited AckedIsRecorded
CHECK_DEADLOCK FALSE
