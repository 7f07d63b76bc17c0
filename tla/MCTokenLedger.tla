--------------------------- MODULE MCTokenLedger ----------------------------
(* Small instances of TokenLedger for TLC.                                 *)
EXTENDS TokenLedger, TLC

MCSymmetry == Permutations(Jobs) \cup Permutations(Orders) \cup Permutations(Wallets)
=============================================================================
