SPECIFICATION NodesSpec
CONSTANTS
  b1 = b1
  m1 = m1
  Instance <- MCInstance
  RoleOf <- MCRoleOf
  Mortal <- MCMortal
  MaxSize <- MCMaxSize
  MaxFaults = 1
  CleanupAttempts = 3
  None = None
INVARIANTS
  AnnouncedDiscoverable
  AnnouncedBootstrapperFormed
  JoinedThroughCloudMap
  NodesIInv
PROPERTY CleanedUp
CHECK_DEADLOCK FALSE
