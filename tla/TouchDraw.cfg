SPECIFICATION Spec
CONSTANTS
  MaxPayload = 6
  Points = 3
  RawWidth = 8
  RawHeight = 300
  Rows = {263, 298}
  Protocols <- MCOneProtocol
  MaxContacts = 4
INVARIANTS
  OneContactPerLine
  OneSamplePerContact
  TapsDrawNothing
  RealPoints
  ReleaseDecoded
