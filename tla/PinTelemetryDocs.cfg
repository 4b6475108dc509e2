CONSTANTS
  CMax = 3
  PMax = 3
  MaxWindow = 10
SPECIFICATION Spec
INVARIANTS DutyIsNotFull ShortestIsAPulse
CHECK_DEADLOCK FALSE
