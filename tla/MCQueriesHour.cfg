SPECIFICATION QueriesSpec
CONSTANTS
  Pools = {"a", "b"}
  Chains <- MCChains
  Supplies <- MCSupplies
  Balances = 2
  OnTransferEnabled = TRUE
  CommitBatchSize = 2
  blockHeightScale = 100
  typeDigit = 10
  txIndexScale = 3
  MaxFaults = 2
  Times <- MCTimes
  Intervals <- MCIntervals
  aggregatedIntervalPeriod = 3
  Periods = {1, 3, 6}
  maxIntervalCount = 3
  maxBlocksLimit = 2
  Limits = {1, 3}
  HistoryRequests <- MCRequests
INVARIANTS
  AnyIntervalIsSummed
CHECK_DEADLOCK FALSE
