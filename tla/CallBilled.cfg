CONSTANTS
  a = a
  b = b
  Legs <- BothLegs
  QueueDepth = 2
  MaxLives = 1
  MaxEvents = 2
  MaxForks = 1
  Budgets = FALSE
  TimerWaits = TRUE
SPECIFICATION Spec
CHECK_DEADLOCK FALSE
INVARIANTS EndedIsBilled ReleasedIsEnding
PROPERTY NoLostUpdate
