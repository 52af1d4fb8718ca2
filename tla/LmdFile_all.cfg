\* Records lost anywhere, a file without its end, fragments, and events that are combined.
CONSTANTS
  Size = 64
  Reads = {7, 100}
  BufSize = 10
  BufHdr = 2
  EvHdr = 2
  EvInfoHdr = 4
  MaxIused = 8
  FileHdr = 5
  FileHdrUsed = 2
  Compact = TRUE
  Grain = 5
  Modes = {{"long"}, {"stitch", "long"}, {"stitch", "lost", "cut"}}
  LongLengths = {1, 13}
  Lengths = {3, 7}
  MaxEvents = 5
  MaxLost = 2
  Cuts = {0, 1, 11}
  MaxBunch = 14
SPECIFICATION Spec
INVARIANTS RoundTrip  EventHeld 
