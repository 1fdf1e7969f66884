SPECIFICATION Spec
CONSTANTS
  a1 = a1
  a2 = a2
  b1 = b1
  b2 = b2
  m1 = m1
  m2 = m2
  d1 = d1
  Admin <- TwoAdmins
  Instance <- RaceInstance
  RoleOf <- RaceRoleOf
  Quota <- OneEach
  MaxSize <- OneEach
  Mortal = {}
  BootstrapNamed = {"bootstrapper", "cluster_manager", "data"}
  MaxFaults = 0
  MaxDuplicates = 0
  CleanupAttempts = 1
  None = None
SYMMETRY AdminSymmetry
INVARIANTS
  SingleCluster
PROPERTY NoFoundingAfterLaunch
CHECK_DEADLOCK FALSE
