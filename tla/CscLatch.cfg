SPECIFICATION CscSpec
CONSTANTS
  LightValues <- MCLightValues
  Updates <- MCUpdates
INVARIANTS
  LitForReal
PROPERTIES
  EnableOrder
  LevelsWhileDark
