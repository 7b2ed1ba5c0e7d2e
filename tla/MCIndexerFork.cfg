SPECIFICATION FairSpec
CONSTANTS
  MaxHeight = 4
  FetchBatchSize = 2
  MaxErrorCount = 1
  StoreHeight = 2
  StoreDiffers = {}
  CheckBlockStoreBlocks = FALSE
  MaxFaults = 1
  CommitBatchSize = 2
  HardForkHeight = 3
  PoisonBlocks = {2}
  PoisonRewards = {2}
  EarliestIsRoot = TRUE
INVARIANTS
  NeverPastFork
PROPERTIES
  EveryBlockStored
  ShutdownEnds
