CONSTANTS
  Protos = {"trans", "stream", "event"}
  Watched = TRUE
  Hdr = 1
  TransSize = 16
  TransBuf = 3
  TransLens = {3}
  StreamSize = 32
  StreamBuf = 5
  Bps = 2
  EventSize = 32
  Align = 2
  EventLens = {9}
  TransData = 5
  StreamData = 6
  EventData = 5
  MaxKeep = 1
  MaxParts = 2
SPECIFICATION FairSpec
INVARIANTS  LittleLost
PROPERTIES ReadsInOrder 
CHECK_DEADLOCK FALSE
