SPECIFICATION StatusFairSpec
CONSTANTS
  MaxChanges = 3
  MaxPowers = 2
INVARIANTS
  ShownIsLast
PROPERTIES
  WatchConverges
  GaugeConverges
  StatsStops
CHECK_DEADLOCK FALSE
