SPECIFICATION Spec
CONSTANTS
  Variables <- MCVariables
  Names <- MCNames
  Numerals <- MCNumerals
  Lowered <- MCLowered
  Uppered <- MCUppered
  Jobs <- MCDumped
  MaxCalls = 1
  None = None
CHECK_DEADLOCK FALSE
INVARIANT RoundTrips
