SPECIFICATION FairSpec
CONSTANTS
  MaxPayload = 2
  Cmds = {72, 85}
  Payloads <- MCPayloads
  MaxSent = 2
INVARIANTS
  TypeOK
  RoundTrip
  ChecksGood
  CleanBetweenFrames
PROPERTIES ImplementsChannel EventuallyDelivered
CHECK_DEADLOCK FALSE
