SPECIFICATION Spec
CONSTANTS
  Sources = {1, 2, 3}
  Mod = 32
  Window = 2
  Stamps = {2, 3, 4, 5, 6}
  FirstAlloc = 8
  Broken = TRUE
  MaxEvents = 5
INVARIANTS  StitchedRight
CHECK_DEADLOCK FALSE
