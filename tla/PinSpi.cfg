CONSTANTS
  Preamble <- MCPreamble
  DataBits = 16
  Pins = {90}
  Fixed = {2, 16}
  MaxFails = 2
SPECIFICATION SpiSpec
INVARIANTS InSyncAgain OperationsWork
