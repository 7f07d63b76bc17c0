\* Buys, repeats, sells and reversals, any of which may throw at any statement,
\* and a crash.
SPECIFICATION Spec
CONSTANTS
  Jobs = {j1, j2, j3, j4}
  Kinds = {"buy", "repeat", "sell", "undo"}
  Orders = {o1, o2}
  Wallets = {w1}
  Payments = {20}
  Sales = {30}
  FeeBps = 1000
  NetworkFee = 1
  VirtualZec = 20
  VirtualTokens = 64
  Dust = 1
  MaxCrashes = 1
  NoOrder = NoOrder
  NoWallet = NoWallet
SYMMETRY MCSymmetry
INVARIANTS
  TokensAccounted
  Solvent
PROPERTIES
  Serialized
CHECK_DEADLOCK FALSE
