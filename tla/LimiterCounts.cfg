CONSTANTS
  c1 = c1
  c2 = c2
  c3 = c3
  Calls <- ThreeCalls
  Limit = 1
  ActiveWindows = 2
  MaxWindow = 3
  MaxFaults = 2
SPECIFICATION Spec
SYMMETRY AnyOrder
CHECK_DEADLOCK FALSE
INVARIANTS TypeOK NeverUndercounts LimitHonoured ReleasedExactly
