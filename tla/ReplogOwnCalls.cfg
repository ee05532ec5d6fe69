CONSTANTS
  c1 = c1
  c2 = c2
  Call <- OneCall
  ChunkSize = 1
  MaxEpoch = 2
  MaxCounter = 2
  MaxLives = 1
  MaxWire = 2
  MaxFaults = 2
  ApplyMayFail = FALSE
SPECIFICATION Spec
CHECK_DEADLOCK FALSE
PROPERTY OwnCallsSurviveCrash
