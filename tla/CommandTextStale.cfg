CONSTANTS
  Tails <- MCTails
  Size = 16
  Received <- MCReceived
SPECIFICATION Spec
INVARIANTS TextIsTyped
