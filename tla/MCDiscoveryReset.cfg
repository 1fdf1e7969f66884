SPECIFICATION ResetSpec
CONSTANTS
  b1 = b1
  m1 = m1
  Instance <- MCInstance
  RoleOf <- MCRoleOf
  Mortal <- MCMortal
  MaxSize <- MCMaxSize
  MaxFaults = 1
  CleanupAttempts = 1
  None = None
  Reset = {r1, r2}
  MaxCommands = 3
SYMMETRY ResetSymmetry
INVARIANTS
  ForgottenByReset
  ResetExplained
  ResetIInv
CHECK_DEADLOCK FALSE
