SPECIFICATION Spec
CONSTANTS
  Tx = {t1, t2}
  Hash = {t1, t2}
  NoTx = NoTx
  Fee <- MCFee
  Key <- MCKey
  Raising = {t1}
  Transfer = {t2}
  PendingSize = 2
  PoolSize = 1
  StaleThreshold = 0
  MaxHeight = 1
  ApiTx = {t2}
  MaxApi = 1
  Peer = {good, bad}
  Honest = {good}
  QueueSize = 2
  MaxListed = 2
  MaxTimers = 2
INVARIANTS
  TypeOK
  RequestsAreWatched
  HashedIsQueued
  NothingStranded
  AnswerIsAwaited
CHECK_DEADLOCK FALSE
