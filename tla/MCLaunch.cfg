SPECIFICATION FairSpec
CONSTANTS
  a1 = a1
  a2 = a2
  b1 = b1
  b2 = b2
  m1 = m1
  m2 = m2
  d1 = d1
  Admin <- OneAdmin
  Instance <- TrioInstance
  RoleOf <- TrioRoleOf
  Quota <- OneEach
  MaxSize <- OneEach
  Mortal = {}
  BootstrapNamed = {"bootstrapper"}
  MaxFaults = 1
  MaxDuplicates = 1
  CleanupAttempts = 1
  None = None
INVARIANTS
  TypeOK
  LaunchOrder
  LaunchEarned
  ManagersAfterFounding
  BootstrapperKept
  IInv
PROPERTIES
  
  RunEnds
CHECK_DEADLOCK FALSE
