CONSTANTS
  CMax = 3
  PMax = 3
  MaxWindow = 6
SPECIFICATION Spec
INVARIANTS CountersAreTrue NoPulseIsMissed ReadOutAgrees
CHECK_DEADLOCK FALSE
