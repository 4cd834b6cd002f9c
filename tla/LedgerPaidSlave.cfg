SPECIFICATION Spec
CONSTANTS
  Accounts = {"A", "B", "S"}
  Wallets = {"W"}
  Mint = "mint"
  NoTx = NoTx
  Txs <- MCTxs
  Tx <- MCTx
  Coinbase <- MCCoinbase
  Candidates <- MCCandidates
  KeyCount <- MCKeyCount
  KeysPerPage = 8
  KeysPerByte = 2
  Reward = 2
  InitialBalance <- MCBalance
  MaxHeight = 6
  MaxReverts = 3
INVARIANT NothingUnexpectedStored
CHECK_DEADLOCK FALSE
