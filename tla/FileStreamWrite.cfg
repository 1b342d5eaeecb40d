SPECIFICATION Spec
CONSTANTS
  Bytes = {0, 1}
  MaxSize = 4
  UnitSize = 2
  IntMax = 2
  Args = {1, 2, 4, 7}
PROPERTY WritesBuffer
CHECK_DEADLOCK FALSE
