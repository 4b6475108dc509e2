SPECIFICATION CscSpec
CONSTANTS
  LightValues <- MCLightValues
  Updates <- MCUpdates
INVARIANT AckedIsApplied
