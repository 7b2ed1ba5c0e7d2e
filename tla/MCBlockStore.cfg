SPECIFICATION FairSpec
CONSTANTS
  BlocksPerChunk = 2
  MaxHeight = 8
  ForkHeight = 7
  GenesisHeight = 3
  ListedChunks = {2, 4, 6}
  DownloadFullChunksOnly = {TRUE, FALSE}
  MaxFaults = 2
  Blocks <- MCBlocks
INVARIANTS
  TypeOK
  ChunksWhole
  ReaderFailsOnlyAtGap
  LostChunkRestored
  RecordedAsFetched
PROPERTIES
  ImplementsArchive
  RunsEnd
