SPECIFICATION FactorySpec
CONSTANTS
  Word <- MCWord
  Execution = {x1}
  Request = {r1}
  Tenant <- MCDashedTenant
  ProjectName <- MCProjectName
  Account <- MCDashedAccount
  NProducts = 1
  MaxAttempts = 1
  MaxFaults = 0
  None = None
INVARIANT MailReachesOwner
CHECK_DEADLOCK FALSE
