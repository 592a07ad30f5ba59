SPECIFICATION Spec
CONSTANTS
  Variables <- MCVariables
  Names <- MCNames
  Numerals <- MCNumerals
  Lowered <- MCLowered
  Uppered <- MCUppered
  Jobs <- MCJobs
  MaxCalls = 2
  None = None
CHECK_DEADLOCK FALSE
INVARIANTS
  ReadsAsWritten
  OperandsReadBack
  PrintsBack
  NoTempsLeft
  ReportsAreTrue
