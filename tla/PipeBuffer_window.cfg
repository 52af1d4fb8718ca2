\* A stream longer than the 4-bit counters can count, with stores that become visible late.
CONSTANTS
  Size = 4
  Word = 16
  StoreDelay = TRUE
  Magic = 1
  FileLen = 17
  Arrivals = {17}
  Items = {1}
  Releases = {1}
  Held = 1
  PipeCap = 3
SPECIFICATION Spec
INVARIANTS MappedIntact NoEmptyRead IInv
PROPERTIES ImplementsWindow
