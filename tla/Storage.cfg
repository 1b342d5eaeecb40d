SPECIFICATION StorageSpec
CONSTANTS
  Files = {f1, f2}
  NrClusters = 6
  ByteBits = 2
  BmpBytes = 4
  BufBytes = 1
  Skip = 1
  MftLcn = 2
  MftZoneStart = 2
  MftZoneEnd = 4
  System = {0, 1, 2, 5}
  MaxLen = 2
  MaxErrors = 1
  Blocks = 3
  UsnMod = 7
  MaxVersion = 3
  MaxRecordErrors = 3
  SectorSize = 2
  NumSectors = 3
  Bytes = {0, 1}
  Junk = 9
  NoRequest = NoRequest
  MaxCount = 4
  W = 3
  NumBytes = 6
  MaxBuffer = 2
  Bitmaps <- Patterns
INVARIANTS
  NoDoubleAllocation
  NoLeak
  RecordsAreWhole
  RunIsSet
PROPERTIES
  SearchAdvances
  ImplementsByteDisk
  CallReturns
CHECK_DEADLOCK FALSE
