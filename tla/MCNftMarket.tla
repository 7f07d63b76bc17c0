---------------------------- MODULE MCNftMarket -----------------------------
(* Small instances of NftMarket for TLC.                                   *)
EXTENDS NftMarket, TLC

MCSymmetry ==
  Permutations(Wallets) \cup Permutations(Base) \cup Permutations(Purchases)
    \cup Permutations(Crafts)
=============================================================================
