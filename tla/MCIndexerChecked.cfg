SPECIFICATION Spec
CONSTANTS
  MaxHeight = 4
  FetchBatchSize = 2
  MaxErrorCount = 1
  StoreHeight = 2
  StoreDiffers = {1}
  CheckBlockStoreBlocks = TRUE
  MaxFaults = 1
  CommitBatchSize = 3
  HardForkHeight = 0
  PoisonBlocks = {2, 3}
  PoisonRewards = {3}
  EarliestIsRoot = FALSE
INVARIANT CheckedBlocksAgree
