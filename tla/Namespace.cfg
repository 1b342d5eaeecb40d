SPECIFICATION Spec
CONSTANTS
  Root = Root
  i2 = i2
  i3 = i3
  i4 = i4
  Inodes = {Root, i2, i3, i4}
  Names = {"a", "b"}
  MaxDepth = 2
  Capacity = 2
  Windows <- MCWindows
  MaxFaults = 1
  Environments <- MCEnvironments
INVARIANTS
  OpenFindsEntry
  LinksMatch
  AllReached
SYMMETRY InodeSymmetry
