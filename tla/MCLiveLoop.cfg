SPECIFICATION FairSpec
CONSTANTS
  Transfer = 2
  Block = 3
  RingBlocks = 2
  Settle = 4
  Pll = 1
  Backlog = 1
  CmdQueue = 2
  MaxTunes = 2
  MaxKnown = 1
  MaxDropped = 0
CHECK_DEADLOCK FALSE
INVARIANTS LoopSound
PROPERTIES FeedHolds WindowArrives
