SPECIFICATION Spec
CONSTANTS
  Template = {"cluster"}
  Change = {}
  Name = {"n1"}
  Value = {"v1"}
  Start <- MCStart
  Node = {}
  MaxBusy <- MCMaxBusy
  MaxFaults = 0
INVARIANT CurrentRootReadable
CHECK_DEADLOCK FALSE
