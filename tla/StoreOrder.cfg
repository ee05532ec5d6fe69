CONSTANTS
  c1 = c1
  c2 = c2
  d1 = d1
  d2 = d2
  Calls <- OneCall
  Drainers <- TwoDrainers
  QueueMax = 1
  MaxSubmits = 3
  MaxFaults = 2
SPECIFICATION FairSpec
CHECK_DEADLOCK FALSE
INVARIANTS TypeOK Settled
PROPERTIES LoadsNewest KeepsThePromise EventuallySettled
