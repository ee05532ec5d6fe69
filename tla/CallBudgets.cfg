CONSTANTS
  a = a
  b = b
  Legs <- OneLeg
  QueueDepth = 2
  MaxLives = 1
  MaxEvents = 1
  MaxForks = 1
  Budgets = TRUE
  TimerWaits = FALSE
SPECIFICATION FairSpec
CHECK_DEADLOCK FALSE
INVARIANT TypeOK
PROPERTIES NoLostUpdate TerminatingEnds
