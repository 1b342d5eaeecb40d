SPECIFICATION Spec
CONSTANTS
  Root = Root
  None = None
  a = a
  b = b
  h1 = h1
  h2 = h2
  h3 = h3
  Files = {Root, a, b}
  Handles = {h1, h2, h3}
  Objs = {1, 2, 3, 4, 5, 6, 7}
  CacheSize = 2
  Existing = {a}
  ReadOnlyFiles = {a}
  MaxVersion = 3
  MaxListed = 2
  Environments <- FlushingRoot
SYMMETRY HandleSymmetry
CHECK_DEADLOCK FALSE
INVARIANT FlushKeepsFiles
