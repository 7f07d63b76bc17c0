--------------------------- MODULE MCPaymentWatch ---------------------------
(* Small instances of PaymentWatch for TLC.                                *)
EXTENDS PaymentWatch, TLC

\* Every note in a transaction of its own: a note stands for its txid.
MCOwnTx == [n \in Notes |-> n]

\* All notes in one transaction.
MCOneTx == [n \in Notes |-> CHOOSE t \in Txids : TRUE]

\* How notes look: a bare amount, an amount with its time, a memo as well.
MCBare == {[memo |-> FALSE, timed |-> FALSE]}
MCTimed == {[memo |-> FALSE, timed |-> TRUE]}
MCMemoOrNot == [memo : BOOLEAN, timed : {TRUE}]

MCNoteSymmetry == Permutations(Notes) \cup Permutations(Addresses)

MCSymmetry == Permutations(Records) \cup Permutations(Notes) \cup Permutations(Addresses)
=============================================================================
