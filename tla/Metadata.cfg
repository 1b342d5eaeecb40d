SPECIFICATION MetadataSpec
CONSTANTS
  Weights <- MCWeights
  BlockRoom = 13
  RootRoom = 5
  MaxBlocks = 6
  Room = 12
  Sizes = {0, 5}
  Reserved = 4
  W = 2
  Step = 2
  BmpCluster = 2
  Many = 2
  Few = 1
  GiveUp = 2
  SeqMax = 2
  MaxOpen = 2
  MaxCrashes = 1
INVARIANTS
  IndexSound
  DirectoryListed
  AttributesFound
  RecordsKept
  StaleRefused
CHECK_DEADLOCK FALSE
