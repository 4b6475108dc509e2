SPECIFICATION FaultSpec
CONSTANTS
  MaxPayload = 3
  Cmds = {72}
  Payloads <- MCPayloads
  MaxSent = 3
  MaxFaults = 2
  NoiseBytes <- MCNoise
INVARIANTS
  Recovers
  AtMostOneCallback
PROPERTY TailResets
CHECK_DEADLOCK FALSE
