CONSTANTS
  BarPollers <- TwoPollers
  Series <- TwoSeries
  Second = 2
  BarLength = 2
  Limit = 2
  Window = 5
  Day = 2
  Ring = 3
  Recent = 2
  MaxDelay = 1
  MaxOutage = 2
  LastPoll <- PollTimes
  LastTime = 9
SPECIFICATION Spec
INVARIANTS LookaheadIsShort HistoryIsFinal RecentBarsAreLast
CHECK_DEADLOCK FALSE
