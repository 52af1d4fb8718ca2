\* Three files, two open at a time, merged by event number or by time stamp.
CONSTANTS
  Files = 3
  Concurrent = 2
  Options = {{"eventno", "broken"}, {"broken"}, {"eventno", "fatal"}, {"allow", "downscale"}}
  Kinds = {"normal", "unstamped", "faulty"}
  Mod = 16
  Margin = 2
  Downscale = 2
  ErrorLimit = 2
  EventLimit = 5
  MaxNumber = 5
SPECIFICATION FairSpec
INVARIANTS NothingForgotten
PROPERTIES MergedInOrder  MergeEnds
