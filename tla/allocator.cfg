CONSTANTS
  s0 = s0
  s1 = s1
  s2 = s2
  s3 = s3
  m0 = m0
  m1 = m1
  eth = eth
  Signals = {s0, s1, s2, s3}
  Before = {s0}
  Models = {m0, m1}
  AssetOf <- MCAssetOf
  SideOf <- MCSideOf
  ModelOf <- MCModelOf
  EdgeBps <- MCEdge
  VolBps <- MCVol
  Capacity <- MCCapacity
  MovePct <- MCMoves
  FillErrors <- MCFillErrors
  Aum = 100
  KellyBps = 2500
  MaxPositionBps = 1000
  MinTrade = 5
  MaxGross = 26
  MaxNet = 10
  LossLimit = 3
  LastDay = 1
SPECIFICATION Spec
SYMMETRY Symmetry
INVARIANTS BooksWithinVenue ExposureWithinLimits OneRowPerSlot
CHECK_DEADLOCK FALSE
