SPECIFICATION FairSpec
CONSTANTS
  Template <- MCTemplates
  Change <- MCChange
  Name = {"n1", "n2"}
  Value = {"v1", "v2"}
  Start <- MCStart
  Node = {x1}
  MaxBusy <- MCMaxBusy
  MaxFaults = 1
INVARIANTS
  StackTypeOK
  
  NodesServed
  CompleteMatches
  LeavesNothing
  FailureExplained
  ChainHolds
PROPERTY OperationsEnd
CHECK_DEADLOCK FALSE
