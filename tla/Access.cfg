SPECIFICATION AccessSpec
CONSTANTS
  Root = Root
  a = a
  b = b
  Files = {Root, a, b}
  Objs = {1, 2, 3, 4}
  CacheSize = 2
  MaxVersion = 2
  MaxErrors = 1
INVARIANTS
  InodesSound
  ClosedIsDurable
  SecureExact
  FilesKeepDescriptor
  CachesExact
  ModeRoundTrip
  InheritsRights
SYMMETRY FileSymmetry
CHECK_DEADLOCK FALSE
