SPECIFICATION Spec
CONSTANTS
  Genesis = g
  NoBlock = NoBlock
  a1 = a1 a2 = a2 a3 = a3 a4 = a4
  b1 = b1 b2 = b2 b3 = b3 b4 = b4 b5 = b5
  c2 = c2 c3 = c3 d2 = d2 d3 = d3 x2 = x2
  t1 = t1 t2 = t2 t3 = t3
  Blocks = {g, a1, a2, a3, a4, b1, b2, b3, b4, b5, c2, c3, x2}
  Parent <- MCParent
  Number <- MCNumber
  Difficulty <- MCDifficulty
  SizeOK = {g, a1, a2, a3, a4, b1, b2, b3, b4, b5, c2, c3}
  Applies = {g, a1, a2, a3, a4, b1, b2, b3}
  Reverts = {g, a1, a2, a3, a4, b1, b2, b3, b4, b5, c2, c3}
  Raises = {c2}
  Txs = {t1, t2, t3}
  TxsOf <- MCTxsOf
  Spends <- MCSpends
  PoolSize = 3
  ReorgLimit = 3
  MaxCrashes = 1
PROPERTIES RestoresOldChain
CHECK_DEADLOCK FALSE
