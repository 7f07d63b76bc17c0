----------------------------- MODULE NftMarket ------------------------------
(***************************************************************************)
(* The secondary market and the forge of an NFT collection.                *)
(*                                                                         *)
(* A wallet lists a piece it owns; a buyer opens a purchase, which holds   *)
(* the piece for NFT_RESERVATION_MINUTES, and pays a one-time address;     *)
(* when the payment arrives, however late, the piece changes hands, the    *)
(* purchase is recorded and the seller is paid.  The forge burns pieces    *)
(* nobody listed and mints one piece of the next tier.                     *)
(*                                                                         *)
(* backend/src/lib/store.ts writes a piece and a purchase in separate      *)
(* statements except in createNftPurchaseOrder and forgeCraft, which run   *)
(* in a READ COMMITTED transaction: the first takes the piece with its one *)
(* conditional UPDATE, the second reads before it writes.                  *)
(*                                                                         *)
(* A listing is a flag.  Its price and payout address are copied into the  *)
(* purchase and only ever passed on.  How a payment is attributed to a     *)
(* purchase is the subject of PaymentWatch: here it arrives at most once   *)
(* in a run of the backend, later ones being repeats, which are ignored.   *)
(***************************************************************************)
EXTENDS Integers, FiniteSets

CONSTANTS
  Wallets,
  Base,         \* pieces of the tier the forge burns, all minted and owned
  Forged,       \* rows the forge may create, one tier up
  Purchases,    \* rows of nftPurchaseOrder, and the requests that open them
  Crafts,       \* executions of forgeCraft
  RecipeCount,  \* FORGE_RECIPES[fromTier].count
  NftReservation, \* NFT_RESERVATION_MINUTES, in units of the clock
  MaxTime,      \* bound: last value of the clock
  MaxCrashes,   \* bound: crashes of the backend
  NoWallet, NoItem, NoPurchase

Items == Base \cup Forged

ASSUME PiecesAssumption ==
  /\ IsFiniteSet(Base) /\ IsFiniteSet(Forged) /\ Base \cap Forged = {}
  /\ RecipeCount \in Nat \ {0}
ASSUME MarketNamesAssumption ==
  NoWallet \notin Wallets /\ NoItem \notin Items /\ NoPurchase \notin Purchases
ASSUME MarketBoundsAssumption ==
  NftReservation \in Nat /\ MaxTime \in Nat /\ MaxCrashes \in Nat

VARIABLES
  clock,
  owner,    \* database: ownerInternalWalletId of a piece, NoWallet before it exists
  listed,   \* database: the pieces with a listedPriceZec
  burned,   \* database: the pieces with a burnedAt
  lock,     \* database: reservedUntil and reservedByOrderId of a piece
  order,    \* database: the purchases; before creation, what the request read
  payouts,  \* the chain: payouts sent for a purchase
  paid,     \* the chain: purchases whose address was paid
  watching, \* memory: purchases whose first payment is still expected
  step,     \* memory: progress of the request or settlement of a purchase
  craft,    \* memory: transactions of the forge
  outsold,  \* history: open purchases whose piece was sold after they took it
  crashes

market == <<owner, listed, burned, lock, outsold>>
settlement == <<order, payouts, watching, step>>
vars == <<clock, market, settlement, paid, craft, crashes>>

Free == [until |-> -1, by |-> NoPurchase]
Lock == {Free} \cup [until : Nat, by : Purchases]

\* opened is when the purchase took its piece (createdAt).
Purchase == [status : {"NONE", "PENDING", "FILLED", "FAILED"},
             item : Items \cup {NoItem}, addressed : BOOLEAN,
             buyer : Wallets \cup {NoWallet}, seller : Wallets \cup {NoWallet},
             opened : Nat]
NoRow == [status |-> "NONE", item |-> NoItem, addressed |-> FALSE,
          buyer |-> NoWallet, seller |-> NoWallet, opened |-> 0]

Idle == [wallet |-> NoWallet, picked |-> {}]

TypeOK ==
  /\ clock \in 0..MaxTime
  /\ owner \in [Items -> Wallets \cup {NoWallet}]
  /\ listed \subseteq Items /\ burned \subseteq Base
  /\ lock \in [Items -> Lock]
  /\ order \in [Purchases -> Purchase]
  /\ payouts \in [Purchases -> Nat]
  /\ paid \subseteq Purchases /\ watching \subseteq Purchases
  /\ step \in [Purchases -> {"idle", "read", "opened", "failing", "releasing",
                             "settling", "transferred", "recorded"}]
  /\ craft \in [Crafts -> {Idle} \cup [wallet : Wallets, picked : SUBSET Base]]
  /\ outsold \subseteq Purchases
  /\ crashes \in 0..MaxCrashes

Init ==
  /\ clock = 0
  /\ owner \in {o \in [Items -> Wallets \cup {NoWallet}] :
                  \A i \in Items : o[i] = NoWallet <=> i \in Forged}
  /\ listed = {} /\ burned = {}
  /\ lock = [i \in Items |-> Free]
  /\ order = [p \in Purchases |-> NoRow]
  /\ payouts = [p \in Purchases |-> 0]
  /\ paid = {} /\ watching = {}
  /\ step = [p \in Purchases |-> "idle"]
  /\ craft = [c \in Crafts |-> Idle]
  /\ outsold = {}
  /\ crashes = 0

Goto(p, s) == step' = [step EXCEPT ![p] = s]

-----------------------------------------------------------------------------
(* Listings.                                                               *)

\* listNftForSale: one conditional UPDATE; a lock on the piece stays.
List(w, i) ==
  /\ owner[i] = w /\ i \notin burned
  /\ listed' = listed \cup {i}
  /\ UNCHANGED <<clock, owner, burned, lock, outsold, settlement, paid, craft, crashes>>

\* unlistNft: one conditional UPDATE; a lock on the piece stays here too.
Unlist(w, i) ==
  /\ owner[i] = w
  /\ listed' = listed \ {i}
  /\ UNCHANGED <<clock, owner, burned, lock, outsold, settlement, paid, craft, crashes>>

-----------------------------------------------------------------------------
(* Opening a purchase.                                                     *)

\* The buy route reads the piece.
BuyRead(p, w, i) ==
  /\ order[p].status = "NONE" /\ step[p] = "idle"
  /\ i \in listed /\ owner[i] \notin {w, NoWallet} /\ ~(lock[i].until > clock)
  /\ order' = [order EXCEPT ![p] = [NoRow EXCEPT !.item = i, !.buyer = w,
                                                 !.seller = owner[i]]]
  /\ Goto(p, "read")
  /\ UNCHANGED <<clock, market, payouts, watching, paid, craft, crashes>>

\* createNftPurchaseOrder: the conditional UPDATE holds the piece for the
\* purchase, or the transaction leaves nothing behind.
BuyReserve(p) ==
  LET i == order[p].item
      free == i \in listed /\ lock[i].until < clock
  IN /\ step[p] = "read"
     /\ \/ /\ free
           /\ order' = [order EXCEPT ![p].status = "PENDING", ![p].opened = clock]
           /\ lock' = [lock EXCEPT ![i] = [until |-> clock + NftReservation, by |-> p]]
           /\ Goto(p, "opened")
        \/ /\ ~free
           /\ order' = [order EXCEPT ![p] = NoRow]
           /\ Goto(p, "idle")
           /\ UNCHANGED lock
     /\ UNCHANGED <<clock, owner, listed, burned, outsold, payouts, watching, paid,
                    craft, crashes>>

\* generateOrderAddress returned and setNftPurchaseOrderAddress stored it: the
\* buyer can pay and the watcher waits.
AddressReady(p) ==
  /\ step[p] = "opened"
  /\ order' = [order EXCEPT ![p].addressed = TRUE]
  /\ watching' = watching \cup {p}
  /\ Goto(p, "idle")
  /\ UNCHANGED <<clock, market, payouts, paid, craft, crashes>>

\* generateOrderAddress threw, and the purchase is failed; or storing the
\* address threw, and the purchase stays PENDING without one.
AddressFails(p) ==
  /\ step[p] = "opened"
  /\ \/ Goto(p, "failing") \/ Goto(p, "idle")
  /\ UNCHANGED <<clock, market, order, payouts, watching, paid, craft, crashes>>

\* failNftPurchaseOrder, first statement; it may throw, which its callers drop.
MarkFailed(p) ==
  /\ step[p] = "failing"
  /\ \/ /\ order' = [order EXCEPT ![p].status = "FAILED"]
        /\ Goto(p, "releasing")
     \/ /\ Goto(p, "idle")
        /\ UNCHANGED order
  /\ UNCHANGED <<clock, market, payouts, watching, paid, craft, crashes>>

\* Mutant: the lock is released whoever holds it.
ReleaseAnyones(p) ==
  /\ step[p] = "releasing"
  /\ lock' = [lock EXCEPT ![order[p].item] = Free]
  /\ Goto(p, "idle")
  /\ UNCHANGED <<clock, owner, listed, burned, outsold, order, payouts, watching, paid,
                 craft, crashes>>

\* failNftPurchaseOrder, second statement: only its own lock.
Release(p) ==
  LET i == order[p].item IN
  /\ step[p] = "releasing"
  /\ lock' = IF lock[i].by = p THEN [lock EXCEPT ![i] = Free] ELSE lock
  /\ Goto(p, "idle")
  /\ UNCHANGED <<clock, owner, listed, burned, outsold, order, payouts, watching, paid,
                 craft, crashes>>

-----------------------------------------------------------------------------
(* Settling a purchase.                                                    *)

\* The buyer pays the address it was shown, at any later time.
Pay(p) ==
  /\ order[p].addressed
  /\ paid' = paid \cup {p}
  /\ UNCHANGED <<clock, market, settlement, craft, crashes>>

\* The watcher reports the payment; handleNftPurchasePayment goes on only with
\* a purchase that the dispatcher has just read as PENDING.
Deliver(p) ==
  /\ p \in watching \cap paid
  /\ watching' = watching \ {p}
  /\ IF order[p].status = "PENDING" THEN Goto(p, "settling") ELSE UNCHANGED step
  /\ UNCHANGED <<clock, market, order, payouts, paid, craft, crashes>>

\* Mutant: the transfer does not ask who owns the piece.
StillForSaleByAnyone(p) == order[p].item \in listed

\* The WHERE clause of the transfer.
StillForSale(p) == order[p].item \in listed /\ owner[order[p].item] = order[p].seller

\* fillNftPurchase, first statement: the piece changes hands, its listing and
\* whoever's lock on it end.
Fill(p) ==
  LET i == order[p].item IN
  /\ step[p] = "settling" /\ StillForSale(p)
  /\ owner' = [owner EXCEPT ![i] = order[p].buyer]
  /\ listed' = listed \ {i}
  /\ lock' = [lock EXCEPT ![i] = Free]
  /\ outsold' = outsold \cup {q \in Purchases : order[q].status = "PENDING" /\ order[q].item = i}
  /\ Goto(p, "transferred")
  /\ UNCHANGED <<clock, burned, order, payouts, watching, paid, craft, crashes>>

\* The piece is no longer this seller's to sell: the paid purchase fails.
LoseRace(p) ==
  /\ step[p] = "settling" /\ ~StillForSale(p)
  /\ Goto(p, "failing")
  /\ UNCHANGED <<clock, market, order, payouts, watching, paid, craft, crashes>>

\* Mutant: the status is not written.
RecordFillUnmarked(p) ==
  /\ step[p] = "transferred"
  /\ Goto(p, "recorded")
  /\ UNCHANGED <<clock, market, order, payouts, watching, paid, craft, crashes>>

\* fillNftPurchase, second statement.
RecordFill(p) ==
  /\ step[p] = "transferred"
  /\ order' = [order EXCEPT ![p].status = "FILLED"]
  /\ Goto(p, "recorded")
  /\ UNCHANGED <<clock, market, payouts, watching, paid, craft, crashes>>

\* sendPayout to the seller; a payout that fails or is too small is only logged.
PaySeller(p) ==
  /\ step[p] = "recorded"
  /\ \/ payouts' = [payouts EXCEPT ![p] = @ + 1]
     \/ UNCHANGED payouts
  /\ Goto(p, "idle")
  /\ UNCHANGED <<clock, market, order, watching, paid, craft, crashes>>

\* A statement of fillNftPurchase throws; the settlement is only logged.
Throws(p) ==
  /\ step[p] \in {"settling", "transferred"}
  /\ Goto(p, "idle")
  /\ UNCHANGED <<clock, market, order, payouts, watching, paid, craft, crashes>>

-----------------------------------------------------------------------------
(* The forge.                                                              *)

Eligible(w) == {i \in Base \ (listed \cup burned) : owner[i] = w}

\* forgeCraft: findMany takes any RecipeCount candidates; with fewer, the
\* transaction ends.
CraftPick(c, w) ==
  /\ craft[c] = Idle
  /\ \E picked \in {S \in SUBSET Eligible(w) : Cardinality(S) = RecipeCount} :
       craft' = [craft EXCEPT ![c] = [wallet |-> w, picked |-> picked]]
  /\ UNCHANGED <<clock, market, settlement, paid, crashes>>

\* Mutant: nobody counts the rows the burn hit.
CraftCommitUncounted(c) ==
  LET w == craft[c].wallet
      hit == {i \in craft[c].picked \ burned : owner[i] = w}
  IN /\ craft[c] # Idle
     /\ \E f \in Forged : /\ owner[f] = NoWallet
                          /\ owner' = [owner EXCEPT ![f] = w]
     /\ burned' = burned \cup hit
     /\ craft' = [craft EXCEPT ![c] = Idle]
     /\ UNCHANGED <<clock, listed, lock, outsold, settlement, paid, crashes>>

\* forgeCraft: the conditional burn counts its rows, then the new piece is
\* created and the transaction commits; or all of it is rolled back.
CraftCommit(c) ==
  LET w == craft[c].wallet
      hit == {i \in craft[c].picked \ burned : owner[i] = w}
  IN /\ craft[c] # Idle
     /\ Cardinality(hit) = RecipeCount
     /\ \E f \in Forged : /\ owner[f] = NoWallet
                          /\ owner' = [owner EXCEPT ![f] = w]
     /\ burned' = burned \cup hit
     /\ craft' = [craft EXCEPT ![c] = Idle]
     /\ UNCHANGED <<clock, listed, lock, outsold, settlement, paid, crashes>>

\* Fewer rows than the recipe were burned, or a statement threw (two crafts that
\* computed the same edition number, say): rolled back.
CraftRollback(c) ==
  /\ craft[c] # Idle
  /\ craft' = [craft EXCEPT ![c] = Idle]
  /\ UNCHANGED <<clock, market, settlement, paid, crashes>>

-----------------------------------------------------------------------------

Tick ==
  /\ clock < MaxTime
  /\ clock' = clock + 1
  /\ UNCHANGED <<market, settlement, paid, craft, crashes>>

\* The backend crashes and boots: requests, settlements and open transactions
\* are gone, and every purchase that waits with an address is watched again.
Crash ==
  /\ crashes < MaxCrashes
  /\ crashes' = crashes + 1
  /\ order' = [p \in Purchases |->
                 IF order[p].status = "NONE" THEN NoRow ELSE order[p]]
  /\ watching' = {p \in Purchases : order[p].status = "PENDING" /\ order[p].addressed}
  /\ step' = [p \in Purchases |-> "idle"]
  /\ craft' = [c \in Crafts |-> Idle]
  /\ UNCHANGED <<clock, market, payouts, paid>>

MarketStep == \E i \in Items, w \in Wallets : List(w, i) \/ Unlist(w, i)

PurchaseStep(p) ==
  \/ \E w \in Wallets, i \in Items : BuyRead(p, w, i)
  \/ BuyReserve(p) \/ AddressReady(p) \/ AddressFails(p)
  \/ MarkFailed(p) \/ Release(p)
  \/ Pay(p) \/ Deliver(p) \/ Fill(p) \/ LoseRace(p)
  \/ RecordFill(p) \/ PaySeller(p) \/ Throws(p)

CraftStep(c) ==
  \/ \E w \in Wallets : CraftPick(c, w)
  \/ CraftCommit(c) \/ CraftRollback(c)

Next ==
  \/ MarketStep
  \/ \E p \in Purchases : PurchaseStep(p)
  \/ \E c \in Crafts : CraftStep(c)
  \/ Tick
  \/ Crash

Spec == Init /\ [][Next]_vars

-----------------------------------------------------------------------------
(* Properties.                                                             *)

\* A piece changes hands only to the buyer of a purchase that was paid, is not
\* settled yet and was opened with its present owner, and only while that owner
\* has it for sale: the WHERE clause of fillNftPurchase, across late payments,
\* listings that come and go, and crashes between transfer and record.
SalePaid ==
  [][\A i \in Items : owner'[i] # owner[i] /\ owner[i] # NoWallet =>
       /\ i \in listed
       /\ \E p \in paid : /\ order[p].status = "PENDING" /\ order[p].item = i
                          /\ order[p].seller = owner[i]
                          /\ order[p].buyer = owner'[i]]_vars

\* A purchase holds its piece: it is open, its time has not run out, and the
\* piece was not sold since it was opened.
Holds(p) ==
  LET o == order[p] IN
  /\ o.status = "PENDING" /\ clock <= o.opened + NftReservation
  /\ p \notin outsold

\* The market as PieceMarket sees it: a purchase exists once its row does, and
\* between the two statements of fillNftPurchase it is delivered, not sold.
Claim(p) ==
  IF order[p].status = "NONE"
  THEN [item |-> NoItem, buyer |-> NoWallet, seller |-> NoWallet]
  ELSE [item |-> order[p].item, buyer |-> order[p].buyer, seller |-> order[p].seller]

Fate(p) ==
  IF step[p] = "transferred" THEN "delivered"
  ELSE [NONE |-> "none", PENDING |-> "open", FILLED |-> "sold",
        FAILED |-> "failed"][order[p].status]

PM == INSTANCE PieceMarket WITH
        Recipes <- {S \in SUBSET Base : Cardinality(S) = RecipeCount},
        claim <- [p \in Purchases |-> Claim(p)],
        fate <- [p \in Purchases |-> Fate(p)],
        held <- {p \in Purchases : Holds(p)}

\* The market keeps what PieceMarket promises: pieces move only by paid sales,
\* are held for one purchase at a time and are burned for one forged piece; a
\* settled purchase stays settled.  The statements of listNftForSale,
\* createNftPurchaseOrder, failNftPurchaseOrder, fillNftPurchase and forgeCraft,
\* interleaved, cut by a crash and run again, do nothing else.
ImplementsPieceMarket == PM!PMSpec

\* A seller is paid for a recorded sale only and never twice for one purchase,
\* although a crash before the record makes the settlement run again.
SellerPaidOnce ==
  \A p \in Purchases : payouts[p] <= (IF order[p].status = "FILLED" THEN 1 ELSE 0)

\* One buyer at a time: no two purchases hold the same piece, however listings,
\* failures of earlier purchases and late payments interleave
\* (createNftPurchaseOrder, failNftPurchaseOrder, fillNftPurchase).
OneBuyerAtATime ==
  \A p, q \in Purchases :
    Holds(p) /\ Holds(q) /\ order[p].item = order[q].item => p = q

\* While a purchase holds its piece, the lock names that purchase until the
\* purchase has failed or the piece is sold: nobody else's clean-up takes it.
LockKept == \A p \in Purchases :
  Holds(p) => lock[order[p].item] = [until |-> order[p].opened + NftReservation, by |-> p]

\* Every piece the forge created is backed by a full recipe of burned pieces of
\* which none backs another, whichever transactions overlapped (forgeCraft).
ForgedBacked ==
  Cardinality(burned) = RecipeCount * Cardinality({f \in Forged : owner[f] # NoWallet})

\* "Burns FORGE_RECIPES[fromTier].count pieces of fromTier owned by this wallet
\* (unlisted, already-minted, not already burned)": so says forgeCraft's comment.
BurnsUnlisted == [][(burned' \ burned) \cap listed = {}]_vars
=============================================================================
