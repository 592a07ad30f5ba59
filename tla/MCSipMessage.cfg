SPECIFICATION Spec
CONSTANTS
  Capacity = 18
  MaxHeaders = 3
  MaxPackets = 2
  MaxCalls = 4
  Packets <- MCPackets
  Names <- MCNames
  Texts <- MCTexts
  Elements = {"user"}
  Fields <- MCFields
  Lower <- MCLower
INVARIANTS
  TypeOK
  SlicesAreAllocated
  SentAsEdited
  UneditedIsSentUnchanged
PROPERTIES
  ReadsAreNeverStale
  ImplementsHeaderList
CHECK_DEADLOCK FALSE
