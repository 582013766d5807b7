\* Small instances of each part: two buckets of one hash, two threads per
\* trace, each factory three times, IDs of four bits.
CONSTANTS
  b1 = b1
  b2 = b2
  b3 = b3
  Buckets = {b1, b2, b3}
  Points = {0, 1, 2, 3}
  HashOf <- MCHashOf
  Counts = {1, 2}
  Stores = {s1, s2}
  Hosts = {h1, h2}
  Times = {1, 2}
  MaxSubsets = 2
  MaxAge = 3
  Threads = {w1, w2}
  MaxTraces = 2
  Frames <- MCFrames
  MaxFrames = 2
  EnableFilters = TRUE
  MaxStarts = 1
  Kinds = {"driver", "prober", "decoder"}
  MaxMakes = 3
  Loops = {"driver_kqueue", "driver_poll", "prober_kqueue", "decoder_kqueue"}
  MaxInput = 3
  Space = 16
  RandomThreshold = 6
  Tolerance = 4
  IpidThreshold = 6
  Bounds <- MCBounds
  MinInterval = 1
  Intervals = {0, 2, 4}
  FirstIds = {9, 14}
  Steps = {0, 1, 2, 4, 5, 7}
  Gaps = {0, 1, 5}
  MaxReplies = 3
  NumProbes = 3
SPECIFICATION Spec
INVARIANTS
  StoresAgree
  LookupNewest
  ReportsAreComplete
  NothingLeftOpen
  WritersAreWatched
  StepsAreJudged
  HonestHostsPass
  FitsAreBest
PROPERTIES
  KeysStayPut
  WalksFind
\* Each part may come to its end.
CHECK_DEADLOCK FALSE
