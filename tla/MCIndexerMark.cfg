SPECIFICATION Spec
CONSTANTS
  MaxHeight = 4
  FetchBatchSize = 2
  MaxErrorCount = 1
  StoreHeight = 2
  StoreDiffers = {}
  CheckBlockStoreBlocks = FALSE
  MaxFaults = 1
  CommitBatchSize = 3
  HardForkHeight = 0
  PoisonBlocks = {}
  PoisonRewards = {}
  EarliestIsRoot = FALSE
INVARIANT MarkedOnlyForBadData
