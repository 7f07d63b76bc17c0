\* Two wallets trade two pieces, late payments and a crash included, while the
\* forge may burn them.
SPECIFICATION Spec
CONSTANTS
  Wallets = {w1, w2, w3}
  Base = {i1, i2}
  Forged = {f1}
  Purchases = {p1, p2}
  Crafts = {c1, c2}
  RecipeCount = 2
  NftReservation = 1
  MaxTime = 2
  MaxCrashes = 1
  NoWallet = NoWallet
  NoItem = NoItem
  NoPurchase = NoPurchase
SYMMETRY MCSymmetry
INVARIANTS
  SellerPaidOnce
  LockKept
  ForgedBacked
PROPERTIES
  ImplementsPieceMarket
CHECK_DEADLOCK FALSE
