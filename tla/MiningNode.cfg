SPECIFICATION Spec
CONSTANTS
  b0 = b0
  b1 = b1
  b2 = b2
  Block <- MCBlock
  Genesis = b0
  Parent <- MCParent
  Number <- MCNumber
  Time <- MCTime
  Lead = 4
  Drift = 1
  FutureSize = 2
  Expiring = {b2}
  NodeAddress = "node"
  PoolAddress = "pool"
  AlwaysRunning = TRUE
  MaxTime = 4
  MaxMined = 0
  None = None
INVARIANTS
  TypeOK
  
  NativeWorksForNode
PROPERTIES
  SolutionsCount
  MinerRestarts
CHECK_DEADLOCK FALSE
