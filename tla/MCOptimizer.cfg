SPECIFICATION Spec
CONSTANTS
  SameName <- MCSameName
  Captures <- MCCaptures
  Groups <- MCGroups
  Fold <- MCFold
  InNetwork <- MCInNetwork
  Variables <- MCVariables
  Sources <- MCSources
  Packets <- MCPackets
  Meta <- MCMeta
  MaxRounds = 2
INVARIANTS
  TypeOK
  EndsAtFixpoint
  AddsAreKept
  PlanFitsRules
PROPERTIES
  SafePassesKeepMeaning
CHECK_DEADLOCK FALSE
