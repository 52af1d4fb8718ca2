SPECIFICATION FairSpec
CONSTANTS
  Clients = {1, 2}
  Hdr = 1
  Factor = 1
  MinAlloc = 3
  MaxMemory = 9
  Lens = {1, 2}
  Magic = 1
  InitMsgs = 2
  MaxMsgs = 5
  MaxOut = 2
INVARIANTS ChunksSound NotPassedOver WholeMessages
PROPERTIES ServedRight ShutdownEnds
CHECK_DEADLOCK FALSE
