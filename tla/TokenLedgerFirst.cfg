\* First buys, buys and two sellers, under the fairness of statements; no
\* symmetry, as one property is a liveness one.
SPECIFICATION FairSpec
CONSTANTS
  Jobs = {j1, j2, j3}
  Kinds = {"first", "buy", "sell"}
  Orders = {o1, o2}
  Wallets = {w1}
  Payments = {20}
  Sales = {30}
  FeeBps = 1000
  NetworkFee = 1
  VirtualZec = 20
  VirtualTokens = 64
  Dust = 1
  MaxCrashes = 0
  NoOrder = NoOrder
  NoWallet = NoWallet
INVARIANTS
  PaidSellCovered
PROPERTIES
  ExecutionEnds
CHECK_DEADLOCK FALSE
