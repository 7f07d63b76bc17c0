---------------------------- MODULE PieceMarket ----------------------------
(***************************************************************************)
(* What the market and the forge promise of the pieces, without locks,     *)
(* clocks, requests and processes: a piece is held for one purchase at a   *)
(* time; it changes hands for a payment only, from the seller the purchase *)
(* was opened with, while it is for sale; a purchase is settled once; and  *)
(* a forged piece costs pieces of its maker's that have cost nothing yet.  *)
(*                                                                         *)
(* Three things are not promised.  A purchase that is held may be outrun   *)
(* by another that is paid.  A piece that is for sale may be burned.  And  *)
(* a sale may be forgotten before it is recorded, whereupon its payment    *)
(* counts again.                                                           *)
(***************************************************************************)
CONSTANTS
  Wallets, Purchases,
  Base, Forged,  \* pieces to be burned, pieces to be forged
  Recipes,       \* sets of pieces that pay for a forged one
  NoWallet, NoItem

Items == Base \cup Forged

VARIABLES
  owner,   \* of each piece, NoWallet before it is forged
  listed,  \* pieces for sale
  burned,  \* pieces the forge has used up
  claim,   \* what each purchase is about
  fate,    \* what has become of each purchase
  held,    \* purchases for which a piece is held
  paid     \* purchases that were paid

pieces == <<owner, listed, burned>>
purchases == <<claim, fate, held, paid>>

NoClaim == [item |-> NoItem, buyer |-> NoWallet, seller |-> NoWallet]

PMInit ==
  /\ owner \in [Items -> Wallets \cup {NoWallet}]
  /\ \A i \in Items : owner[i] = NoWallet <=> i \in Forged
  /\ listed = {} /\ burned = {}
  /\ claim = [p \in Purchases |-> NoClaim]
  /\ fate = [p \in Purchases |-> "none"]
  /\ held = {} /\ paid = {}

Of(i) == {p \in Purchases : claim[p].item = i}

\* The owner offers a piece, or takes it back.
Offer(w, i) ==
  /\ owner[i] = w /\ i \notin burned
  /\ listed' = listed \cup {i}
  /\ UNCHANGED <<owner, burned, purchases>>

Retract(w, i) ==
  /\ owner[i] = w
  /\ listed' = listed \ {i}
  /\ UNCHANGED <<owner, burned, purchases>>

\* A purchase names buyer and seller and takes a piece that nobody holds.
Open(p, i, b, s) ==
  /\ fate[p] = "none"
  /\ i \in listed /\ b # s /\ held \cap Of(i) = {}
  /\ claim' = [claim EXCEPT ![p] = [item |-> i, buyer |-> b, seller |-> s]]
  /\ fate' = [fate EXCEPT ![p] = "open"]
  /\ held' = held \cup {p}
  /\ UNCHANGED <<pieces, paid>>

\* Time passes.
Lapse ==
  /\ held' \subseteq held
  /\ UNCHANGED <<pieces, claim, fate, paid>>

Pay(p) ==
  /\ fate[p] # "none"
  /\ paid' = paid \cup {p}
  /\ UNCHANGED <<pieces, claim, fate, held>>

\* The piece goes to the buyer, and whoever it was held for has lost it.
Sell(p) ==
  LET i == claim[p].item IN
  /\ fate[p] = "open" /\ p \in paid
  /\ i \in listed /\ owner[i] = claim[p].seller
  /\ owner' = [owner EXCEPT ![i] = claim[p].buyer]
  /\ listed' = listed \ {i}
  /\ fate' = [fate EXCEPT ![p] = "delivered"]
  /\ held' = held \ Of(i)
  /\ UNCHANGED <<burned, claim, paid>>

Record(p) ==
  /\ fate[p] = "delivered"
  /\ fate' = [fate EXCEPT ![p] = "sold"]
  /\ UNCHANGED <<pieces, claim, held, paid>>

\* The purchase is given up.
Drop(p) ==
  /\ fate[p] = "open"
  /\ fate' = [fate EXCEPT ![p] = "failed"]
  /\ held' = held \ {p}
  /\ UNCHANGED <<pieces, claim, paid>>

\* Sales that are not recorded yet are forgotten.
Forget ==
  /\ \E S \in SUBSET {p \in Purchases : fate[p] = "delivered"} :
       fate' = [p \in Purchases |-> IF p \in S THEN "open" ELSE fate[p]]
  /\ UNCHANGED <<pieces, claim, held, paid>>

Forge(w, f, S) ==
  /\ S \cap burned = {} /\ \A i \in S : owner[i] = w
  /\ owner[f] = NoWallet
  /\ burned' = burned \cup S
  /\ owner' = [owner EXCEPT ![f] = w]
  /\ UNCHANGED <<listed, purchases>>

PMNext ==
  \/ \E w \in Wallets, i \in Items : Offer(w, i) \/ Retract(w, i)
  \/ \E p \in Purchases, i \in Items, b, s \in Wallets : Open(p, i, b, s)
  \/ \E p \in Purchases : Pay(p) \/ Sell(p) \/ Record(p) \/ Drop(p)
  \/ Lapse \/ Forget
  \/ \E w \in Wallets, f \in Forged, S \in Recipes : Forge(w, f, S)

PMSpec == PMInit /\ [][PMNext]_<<pieces, purchases>>
=============================================================================
