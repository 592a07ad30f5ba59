SPECIFICATION Spec
CONSTANTS
  SameName <- MCSameName
  Captures <- MCCaptures
  Groups <- MCGroups
  Fold <- MCFold
  InNetwork <- MCInNetwork
  Variables <- MCVariables
  Sources <- MCUnanchored
  Packets <- MCPackets
  Meta <- MCMeta
  MaxRounds = 2
INVARIANTS
  OptimizedMeansTheSame
CHECK_DEADLOCK FALSE
