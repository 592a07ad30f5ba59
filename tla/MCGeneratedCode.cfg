SPECIFICATION Spec
CONSTANTS
  SameName <- MCSameName
  Captures <- MCCaptures
  Groups <- MCGroups
  Fold <- MCFold
  InNetwork <- MCInNetwork
  Variables <- MCVariables
  Rulesets <- MCRulesets
  Packets <- MCPackets
  MaxPackets = 2
INVARIANTS
  TypeOK
  NeverRewritesStale
  IsolatedIfStoredFirst
  TablesAreComplete
PROPERTIES
  ImplementsInterpreter
  RejectIsFinal
  EveryApplyReturns
CHECK_DEADLOCK FALSE
