SPECIFICATION FairSpec
CONSTANTS
  Timestamps <- MCTimestamps
  Transfers = {1, 3}
  MaxStep = 4
  Views = {day}
  PingCapacity = 2
  MaxFaults = 2
INVARIANTS
  TypeOK
  BalancesExact
  NoStalePrice
PROPERTIES
  AggregatedMonotone
  CatchesUp
