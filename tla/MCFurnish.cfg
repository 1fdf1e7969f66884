SPECIFICATION FairFactorySpec
CONSTANTS
  Word <- MCWord
  Execution = {x1, x2}
  Request = {r1}
  Tenant <- MCTenant
  ProjectName <- MCOneProject
  Account <- MCOneAccount
  NProducts = 2
  MaxAttempts = 1
  MaxFaults = 2
  None = None
INVARIANTS
  GraphInStep
  GrantedComplete
  SuccessIsGranted
  MachineIInv
  MailReachesOwner
PROPERTIES
  ImplementsImport
  ExecutionsEnd
CHECK_DEADLOCK FALSE
