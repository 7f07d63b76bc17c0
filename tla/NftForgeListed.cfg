\* One wallet lists a piece while the forge is burning it.
SPECIFICATION Spec
CONSTANTS
  Wallets = {w1}
  Base = {i1, i2}
  Forged = {f1}
  Purchases = {p1}
  Crafts = {c1}
  RecipeCount = 2
  NftReservation = 1
  MaxTime = 1
  MaxCrashes = 0
  NoWallet = NoWallet
  NoItem = NoItem
  NoPurchase = NoPurchase
PROPERTIES
  BurnsUnlisted
CHECK_DEADLOCK FALSE
