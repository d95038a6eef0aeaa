CONSTANTS
  Windows <- TwoWindows
  Published <- OnePublished
  MaxWrites = 2
  Step = 2
  Minute = 2
  Prices = {4, 5}
  Signals <- FourSignals
  MaxEdge = 4
  MinEdge = 1
  Cost = 1
  Whole = 40
  TradesPerYear = 6
  SharpeUnit = 10
  DrawdownUnit = 10
  Caps = {0, 2}
SPECIFICATION Spec
INVARIANTS TradesInPeriod  PassedHasEarned
CONSTRAINT Scenario
CHECK_DEADLOCK FALSE
