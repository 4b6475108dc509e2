SPECIFICATION Spec
CONSTANTS
  MaxPayload = 8
  Messages <- MCMessages
  MaxMessages = 3
  MaxLost = 0
INVARIANT FramesDelivered
CHECK_DEADLOCK FALSE
