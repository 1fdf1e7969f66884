SPECIFICATION FairSpec
CONSTANTS
  a1 = a1
  a2 = a2
  b1 = b1
  b2 = b2
  m1 = m1
  m2 = m2
  d1 = d1
  Admin <- OneAdmin
  Instance <- LaunchInstance
  RoleOf <- LaunchRoleOf
  Quota <- LaunchQuota
  MaxSize <- DataUndersized
  Mortal <- TrioMortal
  BootstrapNamed = {"bootstrapper"}
  MaxFaults = 0
  MaxDuplicates = 0
  CleanupAttempts = 1
  None = None
 
PROPERTY RunEnds
CHECK_DEADLOCK FALSE
