SPECIFICATION FactorySpec
CONSTANTS
  Word <- MCWord
  Execution = {x1, x2}
  Request = {r1, r2}
  Tenant <- MCDashedTenant
  ProjectName <- MCProjectName
  Account <- MCDashedAccount
  NProducts = 0
  MaxAttempts = 1
  MaxFaults = 2
  None = None
INVARIANTS
  FactoryTypeOK
  ProjectsOwnAccounts
  FurnishedForProjects
  FactoryIInv
PROPERTY AbandonedForGood
CHECK_DEADLOCK FALSE
