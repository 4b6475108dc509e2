SPECIFICATION Spec
CONSTANTS
  MaxPayload = 8
  Messages <- MCMessages
  MaxMessages = 4
  MaxLost = 1
INVARIANTS
  TypeOK
  LogIsTraffic
  FrameAfterPending
  HealsAtCheck
CHECK_DEADLOCK FALSE
