SPECIFICATION Spec
CONSTANTS
  ByteBits = 2
  V4Bytes = 2
  V6Bytes = 6
  Subjects <- MCSubjects
  Patterns <- MCPatterns
INVARIANTS
  EqualityIsCanonical
  MembershipIsByPrefix
  RangeIsNumeric
CHECK_DEADLOCK FALSE
