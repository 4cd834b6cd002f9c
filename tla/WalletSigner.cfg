SPECIFICATION Spec
CONSTANTS
  Address = {a, b}
  Pass = {p, q}
  MaxKey = 2
  MaxPushed = 2
  MaxTrees = 2
  None = None
SYMMETRY WalletSymmetry
INVARIANTS
  SignerIsNamed
CHECK_DEADLOCK FALSE
