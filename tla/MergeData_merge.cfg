SPECIFICATION Spec
CONSTANTS
  Sources = {1, 2, 3}
  ArrLens = {0, 2}
  ArrMax = 3
  Indices = {1, 2, 3}
  Counts = {2}
  DataMax = 5
INVARIANTS DataRight
CHECK_DEADLOCK FALSE
