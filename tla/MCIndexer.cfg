SPECIFICATION Spec
CONSTANTS
  MaxHeight = 5
  FetchBatchSize = 2
  MaxErrorCount = 1
  StoreHeight = 2
  StoreDiffers = {}
  CheckBlockStoreBlocks = FALSE
  MaxFaults = 2
  CommitBatchSize = 3
  HardForkHeight = 0
  PoisonBlocks = {2, 3}
  PoisonRewards = {3}
  EarliestIsRoot = FALSE
INVARIANTS
  TypeOK
  PipelineInOrder
  DatabaseConsistent
  NoStrandedBlocks
  RefreshNotLost
  FirstBlockBeforeOthers
  IInv
PROPERTY ImplementsLedger
