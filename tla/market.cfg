CONSTANTS
  h1 = h1
  h2 = h2
  f1 = f1
  c1 = c1
  c2 = c2
  None = None
  Bars = {h1, h2, f1}
  IntervalOf <- MCIntervalOf
  OpensAt <- MCOpensAt
  ClosesAt <- MCClosesAt
  Lookback <- MCLookback
  MinuteLength = 2
  LastTime = 2
  Calls = {c1, c2}
  Cursors = {1, 2}
  MaxBuffer = 2
  MaxRows = 2
SPECIFICATION Spec
INVARIANTS MemoryBounded StopStoresAll LiveBarsHaveClosed LiveIsFresh ExportNeverForgets
PROPERTIES NothingVanishes NeverBack
CONSTRAINT Scenario
SYMMETRY Symmetric
CHECK_DEADLOCK FALSE
