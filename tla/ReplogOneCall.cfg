CONSTANTS
  c1 = c1
  c2 = c2
  Call <- OneCall
  ChunkSize = 1
  MaxEpoch = 2
  MaxCounter = 3
  MaxLives = 2
  MaxWire = 2
  MaxFaults = 2
  ApplyMayFail = TRUE
SPECIFICATION Spec
CHECK_DEADLOCK FALSE
INVARIANTS NoLostUpdate HeadParity IInv
