SPECIFICATION FairSpec
CONSTANTS
  OldChain = "old"
  NewChain = "new"
  OtherChain = "other"
  ForkHeight = 2
  MaxHeight = 4
  GenesisHeight = 2
  Configs <- MCConfigs
  ForkInfos <- MCForkInfos
  MaxFaults = 5
INVARIANTS
  TypeOK
  OneChain
  NoBogusBlocks
  GenesisOnce
PROPERTIES
  ComesUp
CHECK_DEADLOCK FALSE
