SPECIFICATION FairSpec
CONSTANTS
  OldChain = "old"
  NewChain = "new"
  OtherChain = "other"
  ForkHeight = 2
  MaxHeight = 4
  GenesisHeight = 2
  Configs <- MCConfigs
  ForkInfos <- MCForkInfos
  MaxFaults = 3
INVARIANTS
  GenesisIsWritten
CHECK_DEADLOCK FALSE
