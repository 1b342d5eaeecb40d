SPECIFICATION Spec
CONSTANTS
  k1 = k1
  k2 = k2
  k3 = k3
  k4 = k4
  Keys = {k1, k2, k3, k4}
  Vals = {1, 2}
  NoVal = NoVal
  Count = 3
  MaxHash = 2
  HashOf <- MCHashOf
  Kinds <- VarKinds
  MallocFails = TRUE
INVARIANT
  ShortageIsHarmless
CHECK_DEADLOCK FALSE
