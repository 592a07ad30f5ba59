SPECIFICATION Spec
CONSTANTS
  Capacity = 8
  MaxHeaders = 3
  MaxPackets = 1
  MaxCalls = 4
  Packets <- UriPackets
  Names <- MCNames
  Texts <- MCTexts
  Elements = {"user"}
  Fields <- MCFields
  Lower <- MCLower
PROPERTIES
  ExhaustionIsNoOp
CHECK_DEADLOCK FALSE
