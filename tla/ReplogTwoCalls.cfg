CONSTANTS
  c1 = c1
  c2 = c2
  Call <- TwoCalls
  ChunkSize = 1
  MaxEpoch = 2
  MaxCounter = 2
  MaxLives = 1
  MaxWire = 1
  MaxFaults = 1
  ApplyMayFail = FALSE
SPECIFICATION FairSpec
CHECK_DEADLOCK FALSE
INVARIANT NothingPassedOver
PROPERTIES WatermarkNeverBack EventuallyCovered CatchesUp
