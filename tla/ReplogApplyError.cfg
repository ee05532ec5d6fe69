CONSTANTS
  c1 = c1
  c2 = c2
  Call <- OneCall
  ChunkSize = 1
  MaxEpoch = 1
  MaxCounter = 1
  MaxLives = 1
  MaxWire = 2
  MaxFaults = 1
  ApplyMayFail = TRUE
SPECIFICATION FairSpec
CHECK_DEADLOCK FALSE
PROPERTY EventuallyCovered
