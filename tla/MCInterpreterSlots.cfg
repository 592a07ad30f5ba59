SPECIFICATION Spec
CONSTANTS
  SameName <- MCSameName
  Captures <- MCCaptures
  Groups <- MCGroups
  Fold <- MCFold
  InNetwork <- MCInNetwork
  Variables <- MCVariables
  Rulesets <- MCRulesets
  Packets <- MCPackets
  MaxPackets = 2
INVARIANTS
  PacketsAreIsolated
CHECK_DEADLOCK FALSE
