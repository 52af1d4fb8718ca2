\* A wakeup threshold of two bytes, releases below and above it, and a consumer that holds as much as it may, under fairness.
CONSTANTS
  Size = 32
  Word = 128
  StoreDelay = FALSE
  Magic = 2
  FileLen = 36
  Arrivals = {34}
  Items = {10}
  Releases = {1, 9}
  Held = 30
  PipeCap = 3
SPECIFICATION FairSpec
INVARIANTS WakeupsKept
PROPERTIES Finishes
