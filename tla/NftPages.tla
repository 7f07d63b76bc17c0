------------------------------ MODULE NftPages ------------------------------
(***************************************************************************)
(* Two pages of the NFT collection that ask for a payment: the page that   *)
(* mints (frontend/app/nft/mint) and the page of one piece                 *)
(* (frontend/app/nft/item), where its owner lists it and others buy it.    *)
(* They ask, pay and wait like the pages of the launchpad; what they add   *)
(* is that they show what the backend said some time ago, which by the     *)
(* time of a click may be so no longer.                                    *)
(*                                                                         *)
(* Left out: how many pieces a mint asks for, prices, the live feed, the   *)
(* traits of a piece, sharing.                                             *)
(***************************************************************************)
EXTENDS PaymentPages

VARIABLES
  piece,   \* database: how the piece of the page is to this user
  seen,    \* what the page knows of the piece, of the limits of the wallet
  loads    \* reloads of the piece: "asked", or what the backend answered

knownVars == <<piece, seen, loads>>
nftPageVars == <<pageVars, knownVars>>

PieceStates == {"mine", "mineListed", "listed", "reserved", "unlisted"}

\* Of the limits, what the mint page tells apart: whether the wallet is on the
\* whitelist and has free claims left, whether it may mint at all.
Limits == [entry : {"none", "free", "used"}, allowed : BOOLEAN]

\* The piece is read when its page opens.
FirstLoads == IF kind = "item" THEN {"asked"} ELSE {}
NothingSeen == [piece |-> "loading", limits |-> [entry |-> "none", allowed |-> TRUE]]

NftPagesTypeOK ==
  /\ PagesTypeOK
  /\ piece \in PieceStates
  /\ seen \in [piece : PieceStates \cup {"loading", "missing"}, limits : Limits]
  /\ loads \subseteq PieceStates \cup {"asked"}

NftPagesInit ==
  /\ PagesInit
  /\ piece \in IF kind = "item" THEN {"mine", "listed"} ELSE {"unlisted"}
  /\ seen = NothingSeen /\ loads = FirstLoads

-----------------------------------------------------------------------------
\* Minting: mint/page.tsx.

\* The collection, the entry of the wallet and its count of mints are fetched side
\* by side.
MintLoads ==
  /\ kind = "mint"
  /\ \/ /\ page.phase = "loading"
        /\ \E p \in {"confirm", "soldOut", "notConfigured"} : page' = [page EXCEPT !.phase = p]
        /\ UNCHANGED seen
     \/ /\ page.phase = "confirm"
        /\ \E l \in Limits : seen' = [seen EXCEPT !.limits = l]
        /\ UNCHANGED page
  /\ UNCHANGED <<kind, call, serverVars, mine, answers, moneyVars, quoted, launchOnlyVars,
                 piece, loads>>

\* What the box of the mint offers, and what it offers a wallet without an entry:
\* to link the entry of a proven handle.
MintBox == page.phase = "confirm" /\ seen.limits.allowed
MintClaimView == Button("claim", MintBox /\ seen.limits.entry = "none")
MintBuyView ==
  Button("free", MintBox /\ seen.limits.entry = "free" /\ ~page.asking)
  \cup Button("buy", MintBox /\ ~page.asking)
MintWaitView == Button("pay", page.phase = "waiting" /\ ~page.sent /\ ~page.sending)

\* startMint.  Both buttons send the same request: whether it is free is for the
\* backend to say.  A free mint without a fee is done when the answer comes, and
\* is shown unless fetching its pieces fails.
MintSubmit ==
  /\ kind = "mint"
  /\ \/ MintBuyView # {} /\ Asks
     \/ call.at = "opened" /\ Opens(IF row[call.record] = "done" /\ quoted[call.record] = 0
                                    THEN "revealed" ELSE "waiting")
     \/ Refused
  /\ UNCHANGED knownVars

\* POST /api/nft/mint, which NftMint models.
MintMade(r) ==
  /\ kind = "mint" /\ call.at = "asked" /\ Fresh(r)
  /\ \/ RecordMade(r)
     \/ /\ call' = [at |-> "opened", record |-> r]
        /\ Become(r, "done")
        /\ mine' = mine \cup {r}
        /\ UNCHANGED <<kind, page, answers, moneyVars, quoted, launchOnlyVars>>
  /\ UNCHANGED knownVars

\* claimByX: the entry the backend links is shown at once.
MintClaim ==
  /\ kind = "mint" /\ "claim" \in MintClaimView
  /\ \E e \in {"free", "used"} : seen' = [seen EXCEPT !.limits.entry = e]
  /\ UNCHANGED <<pageVars, piece, loads>>

MintPay == kind = "mint" /\ PaysWithNoir(MintWaitView) /\ UNCHANGED knownVars

MintAfter(s) ==
  CASE s = "done" -> "revealed" [] s = "failed" -> "failed" [] OTHER -> page.phase
MintPoll ==
  /\ kind = "mint"
  /\ (page.phase = "waiting" /\ AsksStatus) \/ \E a \in answers : Hears(a, MintAfter(a[2]))
  /\ UNCHANGED knownVars

-----------------------------------------------------------------------------
\* The page of a piece: item/[tier]/[editionNumber]/page.tsx.

\* reload(): a failure shows that there is no such piece.
ItemReload ==
  /\ kind = "item"
  /\ \/ /\ "asked" \in loads
        /\ loads' = (loads \ {"asked"}) \cup {piece}
        /\ UNCHANGED seen
     \/ \E p \in loads \cap PieceStates :
          /\ loads' = loads \ {p}
          /\ seen' \in {[seen EXCEPT !.piece = p], [seen EXCEPT !.piece = "missing"]}
  /\ UNCHANGED <<pageVars, piece>>

ItemView ==
  Button("list", seen.piece = "mine" /\ page.phase = "idle")
  \cup Button("unlist", seen.piece = "mineListed")
  \cup Button("buy", seen.piece = "listed" /\ page.phase = "idle" /\ ~page.asking)
  \cup Button("pay", /\ seen.piece \notin {"loading", "missing"}
                     /\ page.phase = "waiting" /\ ~page.sent /\ ~page.sending)

\* submitList and submitUnlist: the backend agrees if the piece is still so, and
\* the page reads it again.
ItemOwner ==
  /\ kind = "item"
  /\ \/ "list" \in ItemView /\ piece = "mine" /\ piece' = "mineListed"
     \/ "unlist" \in ItemView /\ piece = "mineListed" /\ piece' = "mine"
  /\ loads' = loads \cup {"asked"}
  /\ UNCHANGED <<pageVars, seen>>

ItemBuy ==
  /\ kind = "item"
  /\ ("buy" \in ItemView /\ Asks) \/ Opens("waiting") \/ Refused
  /\ UNCHANGED knownVars

\* POST /api/nft/items/:id/buy, which NftMarket models: one buyer at a time.
PurchaseMade(r) ==
  /\ kind = "item" /\ RecordMade(r)
  /\ piece = "listed" /\ piece' = "reserved"
  /\ UNCHANGED <<seen, loads>>

ItemPay == kind = "item" /\ PaysWithNoir(ItemView) /\ UNCHANGED knownVars

ItemAfter(s) ==
  CASE s = "done" -> "filled" [] s = "failed" -> "failed" [] OTHER -> page.phase
ItemPoll ==
  /\ kind = "item"
  /\ \/ page.phase = "waiting" /\ AsksStatus /\ UNCHANGED loads
     \* what was bought is read again
     \/ \E a \in answers :
          /\ Hears(a, ItemAfter(a[2]))
          /\ loads' = IF a[2] = "done" THEN loads \cup {"asked"} ELSE loads
  /\ UNCHANGED <<piece, seen>>

\* Others buy, list, reserve and let reservations lapse.
MarketMoves ==
  /\ kind = "item"
  /\ \/ piece = "listed" /\ piece' \in {"reserved", "unlisted"}
     \/ piece = "reserved" /\ piece' \in {"listed", "unlisted"}
     \/ piece = "mineListed" /\ piece' = "unlisted"
     \/ piece = "unlisted" /\ piece' = "listed"
  /\ UNCHANGED <<pageVars, seen, loads>>

-----------------------------------------------------------------------------
NftPagesNext ==
  \/ MintLoads \/ MintSubmit \/ MintClaim \/ MintPay \/ MintPoll
  \/ ItemReload \/ ItemOwner \/ ItemBuy \/ ItemPay \/ ItemPoll \/ MarketMoves
  \/ /\ kind \in {"mint", "item"}
     /\ \E r \in Records :
          \/ MintMade(r) \/ PurchaseMade(r)
          \/ /\ RecordSettles(r) /\ UNCHANGED <<seen, loads>>
             /\ piece' = IF kind = "item" /\ row'[r] = "done" THEN "mine" ELSE piece
          \/ WalletSends(r) /\ UNCHANGED knownVars
  \/ /\ kind \in {"mint", "item"} /\ Leave
     /\ seen' = NothingSeen /\ loads' = FirstLoads /\ UNCHANGED piece

PagesNext == (LaunchpadNext /\ UNCHANGED knownVars) \/ NftPagesNext

NftPagesSpec == NftPagesInit /\ [][PagesNext]_nftPageVars
=============================================================================
