CONSTANTS
  Leds <- MCLeds
  Dials <- MCDials
  Levels = {0, 50}
  RawCells = {"pnlc"}
  Keep = 255
  Settings <- MCSettings
SPECIFICATION Spec
INVARIANTS InStep
PROPERTIES OnlyNamedChange
