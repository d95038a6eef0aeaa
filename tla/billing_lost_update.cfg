CONSTANTS
  u1 = u1
  r1 = r1
  k1 = k1
  d1 = d1
  d2 = d2
  t1 = t1
  t2 = t2
  t3 = t3
  c1 = c1
  None = None
  Endpoint = "coinbase"
  Start = 1
  Price = 1
  Users = {u1}
  Reqs = {r1}
  Keys = {k1}
  Deliveries = {d1}
  Transfers = {t1, t2, t3, c1}
  Owner <- MCOwner
  Key <- MCKey
  Cost <- MCCost
  InitBal <- MCInitBal
  Source <- MCSource
  Payload <- MCPayload
  Payee <- MCPayee
  Cents <- MCCents
  SlowSections = FALSE
SPECIFICATION BillingSpec
INVARIANT NoLostUpdate
CHECK_DEADLOCK FALSE
