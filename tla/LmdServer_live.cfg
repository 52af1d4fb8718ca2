SPECIFICATION FairSpec
CONSTANTS
  None = None
  Clients = {"a"}
  DataPort = {"a"}
  StreamPort = {}
  MapPort = {}
  MaxStreams = 2
  FreeRing = 4
  FilledRing = 1
  Options = {{"dropold", "leave"}}
  ReplayLen = 2
  MaxWrites = 3
  MaxUpdates = 1
  
PROPERTIES ShutdownEnds 
