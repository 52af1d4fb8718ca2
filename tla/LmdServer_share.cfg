SPECIFICATION Spec
CONSTANTS
  None = None
  Clients = {"a", "b"}
  DataPort = {"a", "b"}
  StreamPort = {"b"}
  MapPort = {"b"}
  MaxStreams = 3
  FreeRing = 2
  FilledRing = 1
  Options = {{"leave", "port"}, {"hold", "sendonce"}}
  ReplayLen = 1
  MaxWrites = 3
  MaxUpdates = 0
INVARIANTS PoolSound TokensKept
PROPERTIES InOrder 
