SPECIFICATION FairSpec
CONSTANTS
  Full = 76
  Costs = {14, 18, 26, 38, 50, 74}
  MaxTop = 5
  FullPages <- MCFullPages
INVARIANTS
  PlanIsFirstStop
  LeftHalfFits
  HalfBoundedFits
PROPERTIES
  Terminates
CHECK_DEADLOCK FALSE
