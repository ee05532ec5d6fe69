CONSTANTS
  p1 = p1
  p2 = p2
  Peers <- TwoPeers
  Deadline = 2
  RetryDelay = 1
  TMin = 1
  TMax = 2
  MaxBackoff = 2
  Threshold = 1
SPECIFICATION FairSpec
CHECK_DEADLOCK FALSE
INVARIANTS TypeOK SlotsTrue ImportsFirst
PROPERTIES ReadyHeardAll EventuallyReady ListedIsPulled
