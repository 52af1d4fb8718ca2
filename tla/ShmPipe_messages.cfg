SPECIFICATION FairSpec
CONSTANTS
  Size0 = 8
  Sizes = {9}
  HystDiv = 4
  Lens = {2, 5}
  MaxMsgs = 2
  MaxBefore = 0
  MaxResize = 1
  MaxFlush = 1
  Ends = {"done", "setup_rd"}
  ReadLens = {2}
  MaxEvents = 4
  CmdCap = 6
  RspCap = 6
  MaxCrash = 1
INVARIANTS  NeverBothBlocked
 
CHECK_DEADLOCK FALSE
