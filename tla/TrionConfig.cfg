CONSTANTS
  FifoSize = 4
  MaxBytes = 9
  TailBytes = 3
SPECIFICATION Spec
INVARIANTS SmallArrives
CHECK_DEADLOCK FALSE
