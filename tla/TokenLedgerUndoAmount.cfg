\* A buy paid with another amount than asked, then reversed.
SPECIFICATION Spec
CONSTANTS
  Jobs = {j1, j2, j3}
  Kinds = {"buy", "undo"}
  Orders = {o1, o2}
  Wallets = {w1}
  Payments = {20, 40}
  Sales = {30}
  FeeBps = 1000
  NetworkFee = 1
  VirtualZec = 20
  VirtualTokens = 64
  Dust = 1
  MaxCrashes = 0
  NoOrder = NoOrder
  NoWallet = NoWallet
SYMMETRY MCSymmetry
PROPERTIES
  UndoIsExact
CHECK_DEADLOCK FALSE
