CONSTANTS
  q1 = q1
  q2 = q2
  e1 = e1
  e2 = e2
  e3 = e3
  e4 = e4
  b1 = b1
  b2 = b2
  None = None
  Quants = {q1, q2}
  Entries = {e1, e2, e3, e4}
  QuantOf <- MCQuantOf
  Gross <- MCGross
  ShareBps <- MCShareBps
  MinPayout = 1000
  Runs = {b1, b2}
SPECIFICATION Spec
INVARIANT SettledIsPaid
CHECK_DEADLOCK FALSE
