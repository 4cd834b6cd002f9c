SPECIFICATION Spec
CONSTANTS
  Block = {"g", "a1", "a2", "b1", "b2", "b3", "x"}
  Genesis = "g"
  Parent <- MCParent
  Number <- MCNumber
  Valid = {"a1", "a2", "b1", "b2", "b3"}
  Tip0 = "a1"
  ReorgLimit = 1
  Peer = {"good", "late", "bad"}
  Honest = {"good", "late"}
  View0 <- MCView
  Lists <- MCLists
  None = None
INVARIANTS
  TypeOK
  SyncIsWatched
PROPERTIES
  HonestBannedByAccident
  FinishedSyncIsComplete
  SyncEnds
CHECK_DEADLOCK FALSE
