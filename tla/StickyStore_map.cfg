CONSTANTS
  Ids = {1, 2}
  Vals = {1}
  Hashes = {3}
  DataMin = 5
  MetaMin = 3
  HashMin = 4
  MaxSubs = 2
  MaxInserts = 4
  MaxOffered = 5
SPECIFICATION Spec
INVARIANTS StoreSound ReplayIntact
PROPERTIES ImplementsMap
CHECK_DEADLOCK FALSE
