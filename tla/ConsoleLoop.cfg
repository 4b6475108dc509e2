SPECIFICATION LoopSpec
CONSTANTS
  MaxPayload = 8
  Messages <- MCMessages
  MaxMessages = 3
  MaxLost = 1
  MessagesInLoss = 1
  RawAge = 1
  QuietAge = 2
  PollTime = 1
  UpdateTime = 1
  TextTime = 4
  MaxStall = 1
  MessagesInTest = 0
INVARIANTS
  LogIsTraffic
  FrameAfterPending
  HealsAtCheck
PROPERTIES
  ImplementsDemux
  EventuallyLogged
  TestAdvances
CHECK_DEADLOCK FALSE
