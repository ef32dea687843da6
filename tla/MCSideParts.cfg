SPECIFICATION MCSpec
CONSTANTS
  MaxScan = 3
  Parts = 3
  CropAt = 2
  MaxResumes = 2
  MaxAttempts = 2
  MaxFails = 2
  MaxFile = 6
  Window = 4
  MaxCatchup = 3
  MaxStrikes = 2
  a = a
  b = b
  c = c
  Lists <- MCLists
  NoChannel = NoChannel
  MaxProcs = 3
  MaxCalls = 2
  MaxDeaths = 2
  Ids = {a, b}
  Planes = {p, q}
  None = None
  Ttl = 1
  Life = 1
  Merge = 0
  StaleAge = 1
  MaxStale = 1
  Plans <- MCPlans
INVARIANTS WholeImage StrikesOnceInOrder OneListener PictureSound
PROPERTIES FeedCatchesUp WallClears RoundGoesOn
CHECK_DEADLOCK FALSE
