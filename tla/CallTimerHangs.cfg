CONSTANTS
  a = a
  b = b
  Legs <- OneLeg
  QueueDepth = 2
  MaxLives = 1
  MaxEvents = 1
  MaxForks = 1
  Budgets = FALSE
  TimerWaits = TRUE
SPECIFICATION Spec
CHECK_DEADLOCK FALSE
INVARIANT NeverHangs
