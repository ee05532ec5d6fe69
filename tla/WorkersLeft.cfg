CONSTANTS
  w1 = w1
  Workers <- OneWorker
  Interval = 2
  Timeout = 3
  Threshold = 2
  ReplyDelay = 3
  Tier1 = 6
  Tier2 = 10
  Grace = 10
SPECIFICATION FairSpec
CHECK_DEADLOCK FALSE
INVARIANTS TypeOK SilentIsLeft DrainIsSeen
PROPERTY EventuallyRouted
