SPECIFICATION DataSpec
CONSTANTS
  Clusters = {1, 2, 129}
  MaxVcns = 6
  BaseRoom = 9
  ExtentRoom = 5
  Environments <- MCEnvironments
  Lcns = {1, 2}
  ClusterSize = 2
  DataMax = 5
  ResidentMax = 1
  DataBytes = {1}
  Junk = 2
  CB = 2
  Blocks = 3
  Writes = {}
  ByteBits = 2
  OffsetBits = 1
  NTFS_SB_SIZE = 8
  CbSize = 24
  CbCluster = 2
  k1 = k1
  k2 = k2
  k3 = k3
  k4 = k4
  Keys = {k1, k2, k3, k4}
  Vals = {1, 2}
  NoVal = NoVal
  Count = 3
  MaxHash = 2
  MallocFails = FALSE
  MaxSize = 4
  Bytes = {0, 1}
  UnitSize = 2
  IntMax = 2
  Args = {1, 2, 4, 7}
INVARIANTS
  RunlistExact
  ExtentsExact
  ClustersAccounted
  ImplementsByteFile
  BlocksExact
  RoundTrip
  CacheIsSound
  PositionInFile
PROPERTIES
  ImplementsLru
  
SYMMETRY KeySymmetry
CHECK_DEADLOCK FALSE
