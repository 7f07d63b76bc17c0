----------------------------- MODULE Nft_proofs -----------------------------
(***************************************************************************)
(* Sales, reservations and the forge for any wallets, pieces, purchases,   *)
(* crafts, recipe, reservation time and crashes; minting for any wallets,  *)
(* requests, payments, supply and limits; the whitelist for any addresses, *)
(* handles and concurrent requests.                                        *)
(***************************************************************************)
EXTENDS NftMarket, NftMint, NftWhitelist, FiniteSums, FiniteSetTheorems, TLAPS

-----------------------------------------------------------------------------
(* The invariant.  How far a purchase has got decides its status, so that  *)
(* a recorded sale stays recorded and a settlement is of a paid purchase.  *)

ProgressOf(p) ==
  LET o == order[p] IN
  /\ o.status # "NONE" \/ step[p] # "idle" =>
       o.item \in Items /\ o.buyer \in Wallets /\ o.seller \in Wallets
  /\ o.status = "NONE" => step[p] \in {"idle", "read"} /\ ~o.addressed
  /\ step[p] = "read" => o.status = "NONE"
  /\ step[p] \in {"opened", "failing", "settling", "transferred"} => o.status = "PENDING"
  /\ step[p] = "releasing" => o.status = "FAILED"
  /\ step[p] = "recorded" => o.status = "FILLED" /\ payouts[p] = 0
  /\ step[p] = "settling" => p \in paid
  /\ p \in watching => step[p] = "idle" /\ o.status = "PENDING"
Progress == \A p \in Purchases : ProgressOf(p)

MarketInv ==
  TypeOK /\ Progress /\ SellerPaidOnce /\ LockKept /\ ForgedBacked

-----------------------------------------------------------------------------
(* The parts of the invariant, step by step.                               *)

OrderStatuses == {"NONE", "PENDING", "FILLED", "FAILED"}

LEMMA RowTypes ==
  ASSUME NEW r \in Purchase, NEW s \in OrderStatuses, NEW t \in Nat
  PROVE  /\ [r EXCEPT !.status = s] \in Purchase
         /\ [r EXCEPT !.status = s, !.opened = t] \in Purchase
         /\ [r EXCEPT !.addressed = TRUE] \in Purchase
  BY DEF Purchase, OrderStatuses

LEMMA TypeStep ==
  ASSUME TypeOK, Progress, [Next]_vars
  PROVE  TypeOK'
<1>0. NoRow \in Purchase
  BY DEF Purchase, NoRow
<1> USE MarketBoundsAssumption DEF TypeOK, Lock, Free, Idle, Goto, market, settlement
<1>1. CASE MarketStep
  BY <1>1 DEF MarketStep, List, Unlist
<1>2. ASSUME NEW p \in Purchases, PurchaseStep(p) PROVE TypeOK'
  <2>0. ProgressOf(p)
    BY DEF Progress
  <2>1. ASSUME NEW w \in Wallets, NEW i \in Items, BuyRead(p, w, i) PROVE TypeOK'
    <3>1. [NoRow EXCEPT !.item = i, !.buyer = w, !.seller = owner[i]] \in Purchase
      BY DEF Purchase, NoRow
    <3> QED BY <2>1, <3>1 DEF BuyRead
  <2>2. CASE BuyReserve(p)
    <3>1. order[p].item \in Items
      BY <2>0, <2>2 DEF BuyReserve, ProgressOf
    <3>2. clock + NftReservation \in Nat /\ clock \in Nat
      BY <3>1
    <3>3. order' \in [Purchases -> Purchase]
      <4>1. [order[p] EXCEPT !.status = "PENDING", !.opened = clock] \in Purchase
        BY <3>2, RowTypes DEF OrderStatuses
      <4>2. CASE order' = [order EXCEPT ![p] = NoRow]
        BY <1>0, <4>2
      <4>3. CASE order' = [order EXCEPT ![p].status = "PENDING", ![p].opened = clock]
        BY <4>1, <4>3
      <4> QED BY <2>2, <4>2, <4>3 DEF BuyReserve
    <3>4. lock' \in [Items -> Lock]
      BY <2>2, <3>1, <3>2 DEF BuyReserve
    <3> QED BY <2>2, <3>3, <3>4 DEF BuyReserve
  <2>3. CASE AddressReady(p)
    BY <2>3, RowTypes DEF AddressReady, OrderStatuses
  <2>4. CASE AddressFails(p)
    BY <2>4 DEF AddressFails
  <2>5. CASE MarkFailed(p)
    <3>1. order' \in [Purchases -> Purchase]
      <4>1. [order[p] EXCEPT !.status = "FAILED"] \in Purchase
        BY RowTypes DEF OrderStatuses
      <4> QED BY <2>5, <4>1 DEF MarkFailed
    <3>2. step' \in [Purchases -> {"idle", "read", "opened", "failing", "releasing",
                                   "settling", "transferred", "recorded"}]
      BY <2>5 DEF MarkFailed
    <3> QED BY <2>5, <3>1, <3>2 DEF MarkFailed
  <2>6. CASE Release(p)
    <3>1. lock' \in [Items -> Lock]
      BY <2>6 DEF Release
    <3> QED BY <2>6, <3>1 DEF Release
  <2>7. CASE Pay(p) \/ Deliver(p) \/ LoseRace(p)
    BY <2>7 DEF Pay, Deliver, LoseRace
  <2>8. CASE Fill(p)
    <3>1. order[p].item \in Items /\ order[p].buyer \in Wallets
      BY <2>0, <2>8 DEF Fill, ProgressOf
    <3> QED BY <2>8, <3>1 DEF Fill
  <2>9. CASE RecordFill(p)
    BY <2>9, RowTypes DEF RecordFill, OrderStatuses
  <2>10. CASE PaySeller(p) \/ Throws(p)
    BY <2>10 DEF PaySeller, Throws
  <2> QED
    BY <1>2, <2>1, <2>2, <2>3, <2>4, <2>5, <2>6, <2>7, <2>8, <2>9, <2>10 DEF PurchaseStep
<1>3. ASSUME NEW c \in Crafts, CraftStep(c) PROVE TypeOK'
  <2>1. ASSUME NEW w \in Wallets, CraftPick(c, w) PROVE TypeOK'
    BY <2>1 DEF CraftPick, Eligible
  <2>2. CASE CraftCommit(c)
    BY <2>2 DEF CraftCommit
  <2>3. CASE CraftRollback(c)
    BY <2>3 DEF CraftRollback
  <2> QED BY <1>3, <2>1, <2>2, <2>3 DEF CraftStep
<1>4. CASE Tick
  BY <1>4 DEF Tick
<1>5. CASE Crash
  BY <1>0, <1>5 DEF Crash
<1>6. CASE UNCHANGED vars
  BY <1>6 DEF vars
<1> QED BY <1>1, <1>2, <1>3, <1>4, <1>5, <1>6 DEF Next

LEMMA ProgressStep ==
  ASSUME TypeOK, Progress, SellerPaidOnce, [Next]_vars
  PROVE  Progress'
<1> SUFFICES ASSUME NEW q \in Purchases PROVE ProgressOf(q)'
  BY DEF Progress
<1>0. ProgressOf(q)
  BY DEF Progress
<1> USE <1>0 DEF TypeOK, Purchase, NoRow, Goto, market, settlement, ProgressOf
<1>1. CASE MarketStep
  BY <1>1 DEF MarketStep, List, Unlist
<1>2. ASSUME NEW p \in Purchases, PurchaseStep(p) PROVE ProgressOf(q)'
  <2>0. ProgressOf(p)
    BY DEF Progress
  <2>1. ASSUME NEW w \in Wallets, NEW i \in Items, BuyRead(p, w, i) PROVE ProgressOf(q)'
    <3>1. owner[i] \in Wallets
      BY <2>1 DEF BuyRead
    <3> QED BY <2>1, <3>1 DEF BuyRead
  <2>2. CASE BuyReserve(p)
    BY <2>0, <2>2 DEF BuyReserve
  <2>3. CASE AddressReady(p) \/ AddressFails(p)
    BY <2>0, <2>3 DEF AddressReady, AddressFails
  <2>4. CASE MarkFailed(p) \/ Release(p)
    BY <2>0, <2>4 DEF MarkFailed, Release
  <2>5. CASE Pay(p) \/ Deliver(p) \/ LoseRace(p)
    BY <2>0, <2>5 DEF Pay, Deliver, LoseRace
  <2>6. CASE Fill(p)
    BY <2>0, <2>6 DEF Fill
  <2>7. CASE RecordFill(p)
    <3>1. payouts[p] = 0
      BY <2>0, <2>7 DEF RecordFill, SellerPaidOnce
    <3> QED BY <2>0, <2>7, <3>1 DEF RecordFill
  <2>8. CASE PaySeller(p) \/ Throws(p)
    BY <2>0, <2>8 DEF PaySeller, Throws
  <2> QED BY <1>2, <2>1, <2>2, <2>3, <2>4, <2>5, <2>6, <2>7, <2>8 DEF PurchaseStep
<1>3. ASSUME NEW c \in Crafts, CraftStep(c) PROVE ProgressOf(q)'
  BY <1>3 DEF CraftStep, CraftPick, CraftCommit, CraftRollback
<1>4. CASE Tick
  BY <1>4 DEF Tick
<1>5. CASE Crash
  BY <1>5 DEF Crash
<1>6. CASE UNCHANGED vars
  BY <1>6 DEF vars
<1> QED BY <1>1, <1>2, <1>3, <1>4, <1>5, <1>6 DEF Next

LEMMA PayoutsStep ==
  ASSUME TypeOK, Progress, SellerPaidOnce, [Next]_vars
  PROVE  SellerPaidOnce'
<1> SUFFICES ASSUME NEW q \in Purchases
             PROVE  (payouts[q] <= (IF order[q].status = "FILLED" THEN 1 ELSE 0))'
  BY DEF SellerPaidOnce
<1>0. ProgressOf(q) /\ payouts[q] <= (IF order[q].status = "FILLED" THEN 1 ELSE 0)
  BY DEF Progress, SellerPaidOnce
<1> USE <1>0 DEF TypeOK, Purchase, NoRow, Goto, market, settlement, ProgressOf
<1>1. CASE MarketStep
  BY <1>1 DEF MarketStep, List, Unlist
<1>2. ASSUME NEW p \in Purchases, PurchaseStep(p)
      PROVE  (payouts[q] <= (IF order[q].status = "FILLED" THEN 1 ELSE 0))'
  <2>1. CASE payouts' = payouts /\ order' = order
    BY <2>1
  <2>2. ASSUME NEW w \in Wallets, NEW i \in Items, BuyRead(p, w, i)
        PROVE  (payouts[q] <= (IF order[q].status = "FILLED" THEN 1 ELSE 0))'
    BY <2>2 DEF BuyRead
  <2>3. CASE BuyReserve(p)
    <3>1. CASE p = q
      BY <2>3, <3>1 DEF BuyReserve
    <3>2. CASE p # q
      BY <2>1, <2>3, <3>2 DEF BuyReserve
    <3> QED BY <3>1, <3>2
  <2>8. CASE AddressReady(p)
    BY <2>8 DEF AddressReady
  <2>4. CASE MarkFailed(p) \/ RecordFill(p)
    BY <2>4 DEF MarkFailed, RecordFill
  <2>5. CASE PaySeller(p)
    BY <2>5 DEF PaySeller
  <2>6. CASE AddressFails(p) \/ Release(p) \/ Pay(p) \/ Deliver(p) \/ Fill(p)
    BY <2>1, <2>6 DEF AddressFails, Release, Pay, Deliver, Fill
  <2>7. CASE LoseRace(p) \/ Throws(p)
    BY <2>1, <2>7 DEF LoseRace, Throws
  <2> QED BY <1>2, <2>2, <2>3, <2>4, <2>5, <2>6, <2>7, <2>8 DEF PurchaseStep
<1>3. ASSUME NEW c \in Crafts, CraftStep(c)
      PROVE  (payouts[q] <= (IF order[q].status = "FILLED" THEN 1 ELSE 0))'
  BY <1>3 DEF CraftStep, CraftPick, CraftCommit, CraftRollback
<1>4. CASE Tick \/ Crash \/ UNCHANGED vars
  BY <1>4 DEF Tick, Crash, vars
<1> QED BY <1>1, <1>2, <1>3, <1>4 DEF Next

LEMMA ClockStep ==
  ASSUME TypeOK, [Next]_vars
  PROVE  clock' = clock \/ clock' = clock + 1
<1>1. CASE MarketStep
  BY <1>1 DEF MarketStep, List, Unlist
<1>2. ASSUME NEW p \in Purchases, PurchaseStep(p) PROVE clock' = clock
  BY <1>2 DEF PurchaseStep, BuyRead, BuyReserve, AddressReady, AddressFails,
       MarkFailed, Release, Pay, Deliver, Fill, LoseRace, RecordFill, PaySeller, Throws
<1>3. ASSUME NEW c \in Crafts, CraftStep(c) PROVE clock' = clock
  BY <1>3 DEF CraftStep, CraftPick, CraftCommit, CraftRollback
<1>4. CASE Tick \/ Crash \/ UNCHANGED vars
  BY <1>4 DEF Tick, Crash, vars
<1> QED BY <1>1, <1>2, <1>3, <1>4 DEF Next

LockOf(p) == [until |-> order[p].opened + NftReservation, by |-> p]

LEMMA LockStep ==
  ASSUME TypeOK, Progress, LockKept, [Next]_vars
  PROVE  LockKept'
<1> SUFFICES ASSUME NEW q \in Purchases, Holds(q)'
             PROVE  (lock[order[q].item] = LockOf(q))'
  BY DEF LockKept, LockOf
<1>0. ProgressOf(q) /\ (Holds(q) => lock[order[q].item] = LockOf(q))
  BY DEF Progress, LockKept, LockOf
<1>a. clock \in Nat /\ NftReservation \in Nat /\ clock' \in Nat /\ clock <= clock'
  BY MarketBoundsAssumption, ClockStep DEF TypeOK
<1> USE <1>0, <1>a DEF TypeOK, Purchase, Goto, market, settlement, ProgressOf, Holds, LockOf
<1>b. CASE lock' = lock /\ outsold' = outsold /\ order'[q] = order[q]
  BY <1>b
<1>1. CASE MarketStep
  BY <1>1, <1>b DEF MarketStep, List, Unlist
<1>2. ASSUME NEW p \in Purchases, PurchaseStep(p)
      PROVE  (lock[order[q].item] = LockOf(q))'
  <2>0. ProgressOf(p)
    BY DEF Progress
  <2>1. ASSUME NEW w \in Wallets, NEW i \in Items, BuyRead(p, w, i)
        PROVE  (lock[order[q].item] = LockOf(q))'
    BY <2>1, <1>b DEF BuyRead, NoRow
  <2>2. CASE BuyReserve(p)
    <3>1. CASE p = q
      BY <2>0, <2>2, <3>1 DEF BuyReserve, NoRow
    <3>2. CASE p # q
      <4>1. Holds(q) /\ order'[q] = order[q]
        BY <2>2, <3>2 DEF BuyReserve
      <4>2. CASE lock' = lock
        BY <4>1, <4>2
      <4>3. CASE lock[order[p].item].until < clock /\
                 lock' = [lock EXCEPT ![order[p].item] =
                            [until |-> clock + NftReservation, by |-> p]]
        <5>1. order[q].item # order[p].item
          BY <4>1, <4>3
        <5> QED BY <4>1, <4>3, <5>1
      <4> QED BY <2>2, <4>2, <4>3 DEF BuyReserve
    <3> QED BY <3>1, <3>2
  <2>3. CASE AddressReady(p)
    <3>1. lock' = lock /\ outsold' = outsold /\ Holds(q) /\ order'[q].item = order[q].item
             /\ order'[q].opened = order[q].opened
      BY <2>3 DEF AddressReady
    <3> QED BY <3>1
  <2>9. CASE AddressFails(p)
    BY <2>9, <1>b DEF AddressFails
  <2>4. CASE MarkFailed(p)
    BY <2>4 DEF MarkFailed
  <2>5. CASE Release(p)
    <3>1. order' = order /\ outsold' = outsold /\ p # q
      BY <2>0, <2>5 DEF Release
    <3>2. lock[order[q].item] = LockOf(q)
      BY <3>1
    <3>3. CASE lock[order[p].item].by # p
      BY <2>5, <3>1, <3>2, <3>3 DEF Release
    <3>4. CASE lock[order[p].item].by = p
      <4>1. order[q].item # order[p].item
        BY <3>1, <3>2, <3>4
      <4> QED BY <2>5, <3>1, <3>2, <4>1 DEF Release
    <3> QED BY <3>3, <3>4
  <2>6. CASE Pay(p) \/ Deliver(p) \/ LoseRace(p) \/ PaySeller(p) \/ Throws(p)
    BY <2>6, <1>b DEF Pay, Deliver, LoseRace, PaySeller, Throws
  <2>7. CASE Fill(p)
    <3>1. order' = order
      BY <2>7 DEF Fill
    <3>2. order[q].item # order[p].item
      BY <2>0, <2>7, <3>1 DEF Fill
    <3> QED BY <2>0, <2>7, <3>1, <3>2 DEF Fill
  <2>8. CASE RecordFill(p)
    BY <2>8 DEF RecordFill
  <2> QED BY <1>2, <2>1, <2>2, <2>3, <2>4, <2>5, <2>6, <2>7, <2>8, <2>9
      DEF PurchaseStep
<1>3. ASSUME NEW c \in Crafts, CraftStep(c) PROVE (lock[order[q].item] = LockOf(q))'
  BY <1>3, <1>b DEF CraftStep, CraftPick, CraftCommit, CraftRollback
<1>4. CASE Tick \/ UNCHANGED vars
  BY <1>4, <1>b DEF Tick, vars
<1>5. CASE Crash
  BY <1>5 DEF Crash, NoRow
<1> QED BY <1>1, <1>2, <1>3, <1>4, <1>5 DEF Next

Crafted == {f \in Forged : owner[f] # NoWallet}

LEMMA ForgeStep ==
  ASSUME TypeOK, Progress, ForgedBacked, [Next]_vars
  PROVE  ForgedBacked'
<1> USE DEF market, settlement
<1>0. CASE burned' = burned /\ Crafted' = Crafted
  BY <1>0 DEF ForgedBacked, Crafted
<1>1. CASE MarketStep
  BY <1>0, <1>1 DEF MarketStep, List, Unlist, Crafted
<1>2. ASSUME NEW p \in Purchases, PurchaseStep(p) PROVE ForgedBacked'
  <2>1. CASE Fill(p)
    <3>1. order[p].item \in Items /\ order[p].buyer \in Wallets
             /\ owner[order[p].item] \in Wallets
      BY <2>1 DEF Fill, StillForSale, Progress, ProgressOf
    <3>2. Crafted' = Crafted
      BY <2>1, <3>1, MarketNamesAssumption DEF Fill, Crafted, TypeOK, Items
    <3> QED BY <1>0, <2>1, <3>2 DEF Fill
  <2>2. CASE burned' = burned /\ owner' = owner
    BY <1>0, <2>2 DEF Crafted
  <2> QED
    BY <1>2, <2>1, <2>2
       DEF PurchaseStep, BuyRead, BuyReserve, AddressReady, AddressFails, MarkFailed,
           Release, Pay, Deliver, LoseRace, RecordFill, PaySeller, Throws
<1>3. ASSUME NEW c \in Crafts, CraftStep(c) PROVE ForgedBacked'
  <2>1. CASE CraftCommit(c)
    <3> DEFINE w == craft[c].wallet
               hit == {i \in craft[c].picked \ burned : owner[i] = w}
    <3>1. Cardinality(hit) = RecipeCount /\ burned' = burned \cup hit
      BY <2>1 DEF CraftCommit
    <3>2. hit \in SUBSET Base /\ burned \in SUBSET Base /\ burned \cap hit = {}
      BY <2>1 DEF CraftCommit, TypeOK
    <3>3. IsFiniteSet(hit) /\ IsFiniteSet(burned)
      BY <3>2, PiecesAssumption, FS_Subset
    <3>4. Cardinality(burned') = Cardinality(burned) + RecipeCount
      <4>1. Cardinality(burned \cup hit)
              = Cardinality(burned) + Cardinality(hit) - Cardinality(burned \cap hit)
        BY <3>3, FS_Union
      <4>2. Cardinality(burned \cap hit) = 0
        BY <3>2, FS_EmptySet
      <4>3. Cardinality(burned) \in Nat
        BY <3>3, FS_CardinalityType
      <4> QED BY <3>1, <4>1, <4>2, <4>3, PiecesAssumption
    <3>5. PICK f \in Forged : owner[f] = NoWallet /\ owner' = [owner EXCEPT ![f] = w]
      BY <2>1 DEF CraftCommit
    <3>6. w \in Wallets
      BY <2>1 DEF CraftCommit, TypeOK
    <3>7. Crafted' = Crafted \cup {f} /\ f \notin Crafted
      BY <3>5, <3>6, MarketNamesAssumption DEF Crafted, TypeOK, Items
    <3>8. IsFiniteSet(Crafted)
      BY PiecesAssumption, FS_Subset DEF Crafted
    <3>9. Cardinality(Crafted') = Cardinality(Crafted) + 1 /\ Cardinality(Crafted) \in Nat
      BY <3>7, <3>8, FS_AddElement, FS_CardinalityType
    <3>10. Cardinality(burned) = RecipeCount * Cardinality(Crafted)
      BY DEF ForgedBacked, Crafted
    <3>11. RecipeCount * (Cardinality(Crafted) + 1)
             = RecipeCount * Cardinality(Crafted) + RecipeCount
      BY <3>9, PiecesAssumption
    <3>12. Cardinality(burned') = RecipeCount * Cardinality(Crafted')
      BY <3>4, <3>9, <3>10, <3>11
    <3> QED BY <3>12 DEF ForgedBacked, Crafted
  <2>2. CASE burned' = burned /\ owner' = owner
    BY <1>0, <2>2 DEF Crafted
  <2> QED BY <1>3, <2>1, <2>2 DEF CraftStep, CraftPick, CraftRollback
<1>4. CASE Tick \/ Crash \/ UNCHANGED vars
  BY <1>0, <1>4 DEF Tick, Crash, vars, Crafted
<1> QED BY <1>1, <1>2, <1>3, <1>4 DEF Next

-----------------------------------------------------------------------------
(* Theorems.                                                               *)

\* The invariant holds in every reachable state.
THEOREM MarketInvariant == Spec => []MarketInv
<1>1. Init => MarketInv
  <2> SUFFICES ASSUME Init PROVE MarketInv
    OBVIOUS
  <2>1. NoRow \in Purchase
    BY DEF NoRow, Purchase
  <2>2. TypeOK
    BY <2>1, MarketBoundsAssumption DEF Init, TypeOK, Lock, Idle
  <2>3. Progress /\ SellerPaidOnce /\ LockKept
    BY DEF Init, Progress, ProgressOf, NoRow, SellerPaidOnce, LockKept, Holds
  <2>4. ForgedBacked
    <3>1. {f \in Forged : owner[f] # NoWallet} = {}
      BY DEF Init, Items
    <3>2. RecipeCount * 0 = 0
      BY PiecesAssumption
    <3> QED BY <3>1, <3>2, FS_EmptySet DEF Init, ForgedBacked
  <2> QED BY <2>2, <2>3, <2>4 DEF MarketInv
<1>2. MarketInv /\ [Next]_vars => MarketInv'
  BY TypeStep, ProgressStep, PayoutsStep, LockStep, ForgeStep DEF MarketInv
<1> QED BY <1>1, <1>2, PTL DEF Spec

\* Every variable keeps to its type.
THEOREM MarketTypes == Spec => []TypeOK
<1>1. MarketInv => TypeOK
  BY DEF MarketInv
<1> QED BY <1>1, MarketInvariant, PTL

\* Only recorded sales are paid out, and each at most once.
THEOREM PaidOnce == Spec => []SellerPaidOnce
<1>1. MarketInv => SellerPaidOnce
  BY DEF MarketInv
<1> QED BY <1>1, MarketInvariant, PTL

\* The lock on a piece stays with the purchase that holds it.
THEOREM LockStays == Spec => []LockKept
<1>1. MarketInv => LockKept
  BY DEF MarketInv
<1> QED BY <1>1, MarketInvariant, PTL

\* No two purchases hold one piece, for the lock names one purchase only.
THEOREM Exclusive == Spec => []OneBuyerAtATime
<1>1. MarketInv => OneBuyerAtATime
  <2> SUFFICES ASSUME MarketInv, NEW p \in Purchases, NEW q \in Purchases,
                      Holds(p), Holds(q), order[p].item = order[q].item
               PROVE  p = q
    BY DEF OneBuyerAtATime
  <2>1. ASSUME NEW r \in Purchases, Holds(r)
        PROVE  lock[order[r].item].by = r
    <3>1. lock[order[r].item] = [until |-> order[r].opened + NftReservation, by |-> r]
      BY <2>1 DEF MarketInv, LockKept
    <3> QED BY <3>1
  <2> QED BY <2>1
<1> QED BY <1>1, MarketInvariant, PTL

\* Every forged piece cost a full recipe of pieces burned for it alone.
THEOREM ForgeBacked == Spec => []ForgedBacked
<1>1. MarketInv => ForgedBacked
  BY DEF MarketInv
<1> QED BY <1>1, MarketInvariant, PTL

\* A piece changes hands only for a payment.
THEOREM PaidSales == Spec => SalePaid
<1> DEFINE Sold(i) ==
      owner'[i] # owner[i] /\ owner[i] # NoWallet =>
        /\ i \in listed
        /\ \E p \in paid : /\ order[p].status = "PENDING" /\ order[p].item = i
                           /\ order[p].seller = owner[i]
                           /\ order[p].buyer = owner'[i]
<1>1. ASSUME MarketInv, [Next]_vars, NEW i \in Items PROVE Sold(i)
  <2> USE DEF market, settlement
  <2>1. CASE MarketStep
    BY <2>1 DEF MarketStep, List, Unlist
  <2>2. ASSUME NEW p \in Purchases, PurchaseStep(p) PROVE Sold(i)
    <3>1. CASE Fill(p)
      <4>1. ProgressOf(p) /\ owner \in [Items -> Wallets \cup {NoWallet}]
        BY <1>1 DEF MarketInv, Progress, TypeOK
      <4> QED BY <3>1, <4>1 DEF Fill, StillForSale, ProgressOf
    <3>2. CASE owner' = owner
      BY <3>2
    <3> QED
      BY <2>2, <3>1, <3>2
         DEF PurchaseStep, BuyRead, BuyReserve, AddressReady, AddressFails, MarkFailed,
             Release, Pay, Deliver, LoseRace, RecordFill, PaySeller, Throws
  <2>3. ASSUME NEW c \in Crafts, CraftStep(c) PROVE Sold(i)
    <3>1. CASE CraftCommit(c)
      <4>1. owner \in [Items -> Wallets \cup {NoWallet}]
        BY <1>1 DEF MarketInv, TypeOK
      <4> QED BY <3>1, <4>1 DEF CraftCommit
    <3>2. CASE owner' = owner
      BY <3>2
    <3> QED BY <2>3, <3>1, <3>2 DEF CraftStep, CraftPick, CraftRollback
  <2>4. CASE Tick \/ Crash \/ UNCHANGED vars
    BY <2>4 DEF Tick, Crash, vars
  <2> QED BY <1>1, <2>1, <2>2, <2>3, <2>4 DEF Next
<1>2. MarketInv /\ [Next]_vars =>
        [\A i \in Items : Sold(i)]_vars
  BY <1>1
<1> QED BY <1>2, MarketInvariant, PTL DEF Spec, SalePaid

-----------------------------------------------------------------------------
(* The market implements PieceMarket.  Buyer and seller of a purchase      *)
(* differ; and a piece that was transferred is held for nobody, so that    *)
(* the record of the sale releases nothing.                                *)

DealOf(p) ==
  /\ order[p].status # "NONE" \/ step[p] = "read" => order[p].buyer # order[p].seller
  /\ p \in outsold => order[p].status # "NONE"
  /\ step[p] = "transferred" => p \in outsold
DealsApart == \A p \in Purchases : DealOf(p)

LEMMA DealsApartStep ==
  ASSUME TypeOK, Progress, DealsApart, [Next]_vars
  PROVE  DealsApart'
<1> SUFFICES ASSUME NEW q \in Purchases PROVE DealOf(q)'
  BY DEF DealsApart
<1>0. ProgressOf(q) /\ DealOf(q)
  BY DEF Progress, DealsApart
<1> USE <1>0 DEF TypeOK, Purchase, NoRow, Goto, market, settlement, ProgressOf, DealOf
<1>1. CASE MarketStep
  BY <1>1 DEF MarketStep, List, Unlist
<1>2. ASSUME NEW p \in Purchases, PurchaseStep(p) PROVE DealOf(q)'
  <2>0. ProgressOf(p)
    BY DEF Progress
  <2>1. ASSUME NEW w \in Wallets, NEW i \in Items, BuyRead(p, w, i) PROVE DealOf(q)'
    BY <2>1 DEF BuyRead
  <2>2. CASE BuyReserve(p)
    <3>1. CASE p = q
      <4>1. step[q] = "read" /\ order[q].status = "NONE" /\ q \notin outsold
        BY <2>2, <3>1 DEF BuyReserve
      <4>2. CASE order' = [order EXCEPT ![p].status = "PENDING", ![p].opened = clock]
        <5>1. order'[q].buyer = order[q].buyer /\ order'[q].seller = order[q].seller
          BY <3>1, <4>2
        <5>2. step'[q] # "transferred" /\ outsold' = outsold
          BY <2>2, <3>1 DEF BuyReserve
        <5> QED BY <4>1, <5>1, <5>2
      <4>3. CASE order' = [order EXCEPT ![p] = NoRow] /\ step' = [step EXCEPT ![p] = "idle"]
        BY <2>2, <3>1, <4>1, <4>3 DEF BuyReserve
      <4> QED BY <2>2, <4>2, <4>3 DEF BuyReserve
    <3>2. CASE p # q
      BY <2>2, <3>2 DEF BuyReserve
    <3> QED BY <3>1, <3>2
  <2>3. CASE AddressReady(p) \/ AddressFails(p)
    BY <2>0, <2>3 DEF AddressReady, AddressFails
  <2>4. CASE MarkFailed(p) \/ Release(p)
    BY <2>0, <2>4 DEF MarkFailed, Release
  <2>5. CASE Pay(p) \/ Deliver(p) \/ LoseRace(p)
    BY <2>0, <2>5 DEF Pay, Deliver, LoseRace
  <2>6. CASE Fill(p)
    BY <2>0, <2>6 DEF Fill
  <2>7. CASE RecordFill(p) \/ PaySeller(p) \/ Throws(p)
    BY <2>0, <2>7 DEF RecordFill, PaySeller, Throws
  <2> QED BY <1>2, <2>1, <2>2, <2>3, <2>4, <2>5, <2>6, <2>7 DEF PurchaseStep
<1>3. ASSUME NEW c \in Crafts, CraftStep(c) PROVE DealOf(q)'
  BY <1>3 DEF CraftStep, CraftPick, CraftCommit, CraftRollback
<1>4. CASE Tick \/ Crash \/ UNCHANGED vars
  BY <1>4 DEF Tick, Crash, vars
<1> QED BY <1>1, <1>2, <1>3, <1>4 DEF Next

dealClaims == [p \in Purchases |-> Claim(p)]
dealFates == [p \in Purchases |-> Fate(p)]
dealHolders == {p \in Purchases : Holds(p)}

MarketDealInv == MarketInv /\ DealsApart

\* What one purchase does is what the abstract one does, when the others stay.
LEMMA DealStep ==
  ASSUME NEW p \in Purchases, NEW c, NEW f,
         \A q \in Purchases \ {p} :
           order'[q] = order[q] /\ (step'[q] = "transferred" <=> step[q] = "transferred"),
         Claim(p)' = c, Fate(p)' = f
  PROVE  /\ dealClaims' = [dealClaims EXCEPT ![p] = c]
         /\ dealFates' = [dealFates EXCEPT ![p] = f]
<1>1. ASSUME NEW q \in Purchases, q # p PROVE Claim(q)' = Claim(q) /\ Fate(q)' = Fate(q)
  BY <1>1 DEF Claim, Fate
<1>2. dealClaims' = [dealClaims EXCEPT ![p] = c]
  BY <1>1 DEF dealClaims
<1>3. dealFates' = [dealFates EXCEPT ![p] = f]
  BY <1>1 DEF dealFates
<1> QED BY <1>2, <1>3

\* The purchases stay as they are when what is written of a row is not theirs.
LEMMA DealStays ==
  ASSUME \A q \in Purchases : Claim(q)' = Claim(q) /\ Fate(q)' = Fate(q)
  PROVE  dealClaims' = dealClaims /\ dealFates' = dealFates
  BY DEF dealClaims, dealFates

LEMMA HoldersStay ==
  ASSUME \A q \in Purchases : Holds(q)' <=> Holds(q)
  PROVE  dealHolders' = dealHolders
  BY DEF dealHolders

Refines == PM!PMNext \/ UNCHANGED <<owner, listed, burned, dealClaims, dealFates, dealHolders, paid>>

LEMMA ListingRefines == ASSUME MarketDealInv, MarketStep PROVE Refines
<1>1. PICK i \in Items, w \in Wallets : List(w, i) \/ Unlist(w, i)
  BY DEF MarketStep
<1>2. dealClaims' = dealClaims /\ dealFates' = dealFates
  BY <1>1, DealStays DEF List, Unlist, settlement, Claim, Fate
<1>3. dealHolders' = dealHolders
  BY <1>1, HoldersStay DEF List, Unlist, settlement, Holds
<1>4. PM!Offer(w, i) \/ PM!Retract(w, i)
  BY <1>1, <1>2, <1>3 DEF List, Unlist, PM!Offer, PM!Retract, PM!purchases, dealClaims, dealFates, dealHolders
<1>5. i \in PM!Items
  BY DEF PM!Items, Items
<1> QED BY <1>4, <1>5 DEF Refines, PM!PMNext

LEMMA CraftRefines == ASSUME MarketDealInv, NEW c \in Crafts, CraftStep(c) PROVE Refines
<1> USE DEF market, settlement
<1>1. dealClaims' = dealClaims /\ dealFates' = dealFates
  BY DealStays DEF CraftStep, CraftPick, CraftCommit, CraftRollback, Claim, Fate
<1>2. dealHolders' = dealHolders
  BY HoldersStay DEF CraftStep, CraftPick, CraftCommit, CraftRollback, Holds
<1>3. CASE CraftCommit(c)
  <2> DEFINE w == craft[c].wallet
             S == {i \in craft[c].picked \ burned : owner[i] = w}
  <2>1. w \in Wallets /\ S \in SUBSET Base
    BY <1>3 DEF CraftCommit, MarketDealInv, MarketInv, TypeOK, Idle
  <2>2. PICK f \in Forged : owner[f] = NoWallet /\ owner' = [owner EXCEPT ![f] = w]
    BY <1>3 DEF CraftCommit
  <2>3. /\ S \cap burned = {} /\ \A i \in S : owner[i] = w
        /\ Cardinality(S) = RecipeCount
        /\ burned' = burned \cup S /\ listed' = listed /\ paid' = paid
    BY <1>3 DEF CraftCommit
  <2> HIDE DEF w, S
  <2>4. PM!Forge(w, f, S)
    BY <1>1, <1>2, <2>2, <2>3 DEF PM!Forge, PM!purchases, dealClaims, dealFates, dealHolders
  <2>5. S \in {R \in SUBSET Base : Cardinality(R) = RecipeCount}
    BY <2>1, <2>3
  <2> QED BY <2>1, <2>4, <2>5 DEF Refines, PM!PMNext
<1>4. CASE UNCHANGED <<owner, listed, burned, paid>>
  BY <1>1, <1>2, <1>4 DEF Refines
<1> QED BY <1>3, <1>4 DEF CraftStep, CraftPick, CraftRollback

\* A purchase that is opened takes a piece nobody holds: whoever held it would
\* have its lock, and that has run out.
LEMMA OpenRefines == ASSUME MarketDealInv, NEW p \in Purchases, BuyReserve(p) PROVE Refines
<1> USE DEF market, settlement
<1>0. /\ TypeOK /\ ProgressOf(p) /\ DealOf(p) /\ step[p] = "read"
      /\ clock \in Nat /\ NftReservation \in Nat
  BY MarketBoundsAssumption DEF MarketDealInv, MarketInv, Progress, DealsApart, BuyReserve, TypeOK
<1>1. \A q \in Purchases \ {p} : order'[q] = order[q] /\ step'[q] = step[q]
  BY <1>0 DEF BuyReserve, Goto, TypeOK
<1>2. CASE order' = [order EXCEPT ![p] = NoRow] /\ step'[p] = "idle"
  <2>1. Claim(p)' = Claim(p) /\ Fate(p)' = Fate(p)
    BY <1>0, <1>2 DEF TypeOK, ProgressOf, NoRow, Claim, Fate
  <2>2. dealClaims' = dealClaims /\ dealFates' = dealFates
    BY <1>1, <2>1, DealStays DEF Claim, Fate
  <2>3. \A q \in Purchases : Holds(q)' <=> Holds(q)
    BY <1>0, <1>1, <1>2 DEF BuyReserve, TypeOK, ProgressOf, NoRow, Holds
  <2>4. dealHolders' = dealHolders
    BY <2>3, HoldersStay
  <2> QED BY <1>2, <2>2, <2>4 DEF BuyReserve, Refines
<1>3. CASE /\ order[p].item \in listed /\ lock[order[p].item].until < clock
           /\ order' = [order EXCEPT ![p].status = "PENDING", ![p].opened = clock]
           /\ step'[p] = "opened"
  <2> DEFINE i == order[p].item
             c == [item |-> i, buyer |-> order[p].buyer, seller |-> order[p].seller]
  <2>1. i \in Items /\ order[p].buyer \in Wallets /\ order[p].seller \in Wallets
        /\ order[p].buyer # order[p].seller /\ order[p].status = "NONE"
    BY <1>0 DEF ProgressOf, DealOf
  <2>2. order'[p] = [order[p] EXCEPT !.status = "PENDING", !.opened = clock]
    BY <1>0, <1>3 DEF TypeOK
  <2>3. order[p] \in Purchase
    BY <1>0 DEF TypeOK
  <2>4. /\ order'[p].status = "PENDING" /\ order'[p].opened = clock
        /\ order'[p].item = i /\ order'[p].buyer = order[p].buyer
        /\ order'[p].seller = order[p].seller
    BY <2>2, <2>3 DEF Purchase
  <2>5. Claim(p)' = c /\ Fate(p)' = "open"
    BY <1>3, <2>4 DEF Claim, Fate
  <2>6. dealClaims' = [dealClaims EXCEPT ![p] = c] /\ dealFates' = [dealFates EXCEPT ![p] = "open"]
    BY <1>1, <2>5, DealStep
  <2>7. dealHolders \cap {q \in Purchases : dealClaims[q].item = i} = {}
    <3> SUFFICES ASSUME NEW q \in Purchases, Holds(q), dealClaims[q].item = i PROVE FALSE
      BY DEF dealHolders
    <3>1. order[q].item = i
      BY DEF dealClaims, Claim, Holds
    <3>2. lock[i].until = order[q].opened + NftReservation
      <4>1. lock[order[q].item] = [until |-> order[q].opened + NftReservation, by |-> q]
        BY DEF MarketDealInv, MarketInv, LockKept
      <4> QED BY <3>1, <4>1
    <3>3. lock[i].until < clock /\ clock <= lock[i].until
      BY <1>3, <3>2 DEF Holds
    <3>4. lock[i].until \in Nat
      <4>1. order[q] \in Purchase
        BY <1>0 DEF TypeOK
      <4>2. order[q].opened \in Nat
        BY <4>1 DEF Purchase
      <4> QED BY <1>0, <3>2, <4>2
    <3> QED BY <1>0, <3>3, <3>4
  <2>8. p \notin outsold /\ outsold' = outsold /\ clock' = clock
    BY <1>0, <2>1 DEF BuyReserve, DealOf
  <2>9. Holds(p)'
    BY <1>0, <2>4, <2>8 DEF Holds
  <2>10. \A q \in Purchases \ {p} : Holds(q)' <=> Holds(q)
    BY <1>1, <2>8 DEF Holds
  <2>11. dealHolders' = dealHolders \cup {p}
    BY <2>9, <2>10 DEF dealHolders
  <2>12. dealFates[p] = "none"
    BY <1>0, <2>1 DEF dealFates, Fate
  <2>13. UNCHANGED <<owner, listed, burned, paid>>
    BY DEF BuyReserve
  <2> HIDE DEF i, c
  <2>14. i \in listed
    BY <1>3 DEF i
  <2>15. PM!Open(p, i, order[p].buyer, order[p].seller)
    BY <2>1, <2>6, <2>7, <2>11, <2>12, <2>13, <2>14
       DEF PM!Open, PM!Of, PM!pieces, dealClaims, dealFates, dealHolders, c
  <2>16. i \in PM!Items
    BY <2>1 DEF PM!Items, Items, i
  <2> QED BY <2>1, <2>15, <2>16 DEF Refines, PM!PMNext
<1> QED BY <1>0, <1>2, <1>3 DEF BuyReserve, Goto, TypeOK

\* Requests, settlements and payouts that change no purchase's fate.
LEMMA WaitingRefines ==
  ASSUME MarketDealInv, NEW p \in Purchases,
         \/ \E w \in Wallets, i \in Items : BuyRead(p, w, i)
         \/ AddressReady(p) \/ AddressFails(p) \/ Release(p) \/ Deliver(p)
         \/ LoseRace(p) \/ PaySeller(p)
  PROVE  Refines
<1> USE DEF market, settlement
<1>0. TypeOK /\ ProgressOf(p)
  BY DEF MarketDealInv, MarketInv, Progress
<1>1. UNCHANGED <<clock, owner, listed, burned, outsold, paid>>
  BY DEF BuyRead, AddressReady, AddressFails, Release, Deliver, LoseRace, PaySeller
<1>2. \A q \in Purchases :
        /\ order'[q].status = order[q].status
        /\ order[q].status # "NONE" =>
             order'[q].item = order[q].item /\ order'[q].buyer = order[q].buyer
             /\ order'[q].seller = order[q].seller /\ order'[q].opened = order[q].opened
        /\ step'[q] = "transferred" <=> step[q] = "transferred"
  <2>1. ASSUME NEW w \in Wallets, NEW i \in Items, BuyRead(p, w, i)
        PROVE  order[p].status = "NONE" /\ order'[p].status = "NONE"
               /\ step[p] = "idle" /\ step'[p] = "read"
               /\ \A q \in Purchases \ {p} : order'[q] = order[q] /\ step'[q] = step[q]
    BY <1>0, <2>1 DEF BuyRead, NoRow, TypeOK, Goto
  <2>2. CASE AddressReady(p)
    <3>1. order' = [order EXCEPT ![p] = [order[p] EXCEPT !.addressed = TRUE]]
      BY <2>2 DEF AddressReady
    <3>2. \A q \in Purchases : order[q] \in Purchase
      BY <1>0 DEF TypeOK
    <3>3. \A q \in Purchases :
            order'[q].status = order[q].status /\ order'[q].item = order[q].item
            /\ order'[q].buyer = order[q].buyer /\ order'[q].seller = order[q].seller
            /\ order'[q].opened = order[q].opened
      BY <1>0, <3>1, <3>2 DEF TypeOK, Purchase
    <3>4. \A q \in Purchases : step'[q] = "transferred" <=> step[q] = "transferred"
      BY <1>0, <2>2 DEF AddressReady, Goto, TypeOK
    <3> QED BY <3>3, <3>4
  <2>3. CASE AddressFails(p) \/ Release(p) \/ Deliver(p) \/ LoseRace(p) \/ PaySeller(p)
    BY <1>0, <2>3
       DEF AddressFails, Release, Deliver, LoseRace, PaySeller, Goto, TypeOK, ProgressOf
  <2> QED BY <2>1, <2>2, <2>3
<1>3. dealClaims' = dealClaims /\ dealFates' = dealFates
  BY <1>2, DealStays DEF Claim, Fate
<1>4. \A q \in Purchases : Holds(q)' <=> Holds(q)
  BY <1>1, <1>2 DEF Holds
<1>5. dealHolders' = dealHolders
  BY <1>4, HoldersStay
<1> QED BY <1>1, <1>3, <1>5 DEF Refines

LEMMA PayRefines == ASSUME MarketDealInv, NEW p \in Purchases, Pay(p) PROVE Refines
<1> USE DEF market, settlement
<1>1. dealClaims' = dealClaims /\ dealFates' = dealFates
  BY DealStays DEF Pay, Claim, Fate
<1>2. dealHolders' = dealHolders
  BY HoldersStay DEF Pay, Holds
<1>3. order[p].status \in OrderStatuses \ {"NONE"}
  <2>1. order[p] \in Purchase /\ ProgressOf(p)
    BY DEF MarketDealInv, MarketInv, TypeOK, Progress
  <2> QED BY <2>1 DEF Pay, Purchase, ProgressOf, OrderStatuses
<1>4. dealFates[p] # "none"
  BY <1>3 DEF dealFates, Fate, OrderStatuses
<1>5. PM!Pay(p)
  BY <1>1, <1>2, <1>4 DEF Pay, PM!Pay, PM!pieces, dealClaims, dealFates, dealHolders
<1> QED BY <1>5 DEF Refines, PM!PMNext

\* The purchase is given up before its piece was transferred, or stays.
LEMMA DropRefines == ASSUME MarketDealInv, NEW p \in Purchases, MarkFailed(p) PROVE Refines
<1> USE DEF market, settlement
<1>0. /\ TypeOK /\ order[p] \in Purchase /\ step[p] = "failing" /\ order[p].status = "PENDING"
  BY DEF MarketDealInv, MarketInv, Progress, ProgressOf, MarkFailed, TypeOK
<1>1. UNCHANGED <<clock, owner, listed, burned, outsold, paid>>
  BY DEF MarkFailed
<1>2. \A q \in Purchases : step'[q] = "transferred" <=> step[q] = "transferred"
  BY <1>0 DEF MarkFailed, Goto, TypeOK
<1>3. CASE order' = order
  <2>1. dealClaims' = dealClaims /\ dealFates' = dealFates
    BY <1>2, <1>3, DealStays DEF Claim, Fate
  <2>2. dealHolders' = dealHolders
    BY <1>1, <1>3, HoldersStay DEF Holds
  <2> QED BY <1>1, <2>1, <2>2 DEF Refines
<1>4. CASE order' = [order EXCEPT ![p].status = "FAILED"]
  <2>1. /\ order'[p].status = "FAILED" /\ order'[p].item = order[p].item
        /\ order'[p].buyer = order[p].buyer /\ order'[p].seller = order[p].seller
    BY <1>0, <1>4 DEF TypeOK, Purchase
  <2>2. \A q \in Purchases \ {p} : order'[q] = order[q]
    BY <1>0, <1>4 DEF TypeOK
  <2>3. step'[p] # "transferred"
    BY <1>0, <1>2
  <2>4. Claim(p)' = Claim(p) /\ Fate(p)' = "failed"
    BY <1>0, <2>1, <2>3 DEF Claim, Fate
  <2>5. dealClaims' = [dealClaims EXCEPT ![p] = Claim(p)]
        /\ dealFates' = [dealFates EXCEPT ![p] = "failed"]
    BY <1>2, <2>2, <2>4, DealStep
  <2>6. dealClaims' = dealClaims
    BY <2>5 DEF dealClaims
  <2>7. dealHolders' = dealHolders \ {p}
    <3>1. ~Holds(p)'
      BY <2>1 DEF Holds
    <3>2. \A q \in Purchases \ {p} : Holds(q)' <=> Holds(q)
      BY <1>1, <2>2 DEF Holds
    <3> QED BY <3>1, <3>2 DEF dealHolders
  <2>8. dealFates[p] = "open"
    BY <1>0 DEF dealFates, Fate
  <2>9. PM!Drop(p)
    BY <1>1, <2>5, <2>6, <2>7, <2>8 DEF PM!Drop, PM!pieces, dealClaims, dealFates, dealHolders
  <2> QED BY <2>9 DEF Refines, PM!PMNext
<1> QED BY <1>3, <1>4 DEF MarkFailed

\* The transfer: the purchases that held the piece are those that it outsells.
LEMMA SaleRefines == ASSUME MarketDealInv, NEW p \in Purchases, Fill(p) PROVE Refines
<1> USE DEF market, settlement
<1> DEFINE i == order[p].item
<1>0. /\ TypeOK /\ step[p] = "settling" /\ order[p].status = "PENDING" /\ p \in paid
      /\ i \in Items
  BY DEF MarketDealInv, MarketInv, Progress, ProgressOf, Fill
<1>1. /\ order' = order /\ UNCHANGED <<clock, burned, paid>>
      /\ i \in listed /\ owner[i] = order[p].seller
      /\ owner' = [owner EXCEPT ![i] = order[p].buyer] /\ listed' = listed \ {i}
      /\ outsold' = outsold \cup {q \in Purchases : order[q].status = "PENDING" /\ order[q].item = i}
  BY DEF Fill, StillForSale
<1>2. step'[p] = "transferred" /\ \A q \in Purchases \ {p} : step'[q] = step[q]
  BY <1>0 DEF Fill, Goto, TypeOK
<1>3. Claim(p)' = Claim(p) /\ Fate(p)' = "delivered"
  BY <1>1, <1>2 DEF Claim, Fate
<1>4. dealClaims' = [dealClaims EXCEPT ![p] = Claim(p)]
      /\ dealFates' = [dealFates EXCEPT ![p] = "delivered"]
  BY <1>1, <1>2, <1>3, DealStep
<1>5. dealClaims' = dealClaims
  BY <1>4 DEF dealClaims
<1>6. dealHolders' = dealHolders \ {q \in Purchases : dealClaims[q].item = i}
  <2>1. \A q \in Purchases : Holds(q)' <=> Holds(q) /\ order[q].item # i
    BY <1>1 DEF Holds
  <2>2. \A q \in Purchases : Holds(q) => dealClaims[q].item = order[q].item
    BY DEF Holds, dealClaims, Claim
  <2> QED BY <2>1, <2>2 DEF dealHolders
<1>7. /\ dealFates[p] = "open" /\ dealClaims[p].item = i
      /\ dealClaims[p].buyer = order[p].buyer /\ dealClaims[p].seller = order[p].seller
  BY <1>0 DEF dealFates, Fate, dealClaims, Claim
<1> HIDE DEF i
<1>8. PM!Sell(p)
  BY <1>0, <1>1, <1>4, <1>5, <1>6, <1>7
     DEF PM!Sell, PM!Of, dealClaims, dealFates, dealHolders
<1> QED BY <1>8 DEF Refines, PM!PMNext

\* The record: the piece is no longer held when its sale is written down.
LEMMA RecordRefines == ASSUME MarketDealInv, NEW p \in Purchases, RecordFill(p) PROVE Refines
<1> USE DEF market, settlement
<1>0. /\ TypeOK /\ order[p] \in Purchase /\ step[p] = "transferred"
      /\ order[p].status = "PENDING" /\ p \in outsold
  BY DEF MarketDealInv, MarketInv, Progress, ProgressOf, RecordFill, TypeOK, DealsApart, DealOf
<1>1. /\ UNCHANGED <<clock, owner, listed, burned, outsold, paid>>
      /\ order' = [order EXCEPT ![p].status = "FILLED"]
  BY DEF RecordFill
<1>2. /\ order'[p].status = "FILLED" /\ order'[p].item = order[p].item
      /\ order'[p].buyer = order[p].buyer /\ order'[p].seller = order[p].seller
      /\ \A q \in Purchases \ {p} : order'[q] = order[q]
  BY <1>0, <1>1 DEF TypeOK, Purchase
<1>3. step'[p] = "recorded" /\ \A q \in Purchases \ {p} : step'[q] = step[q]
  BY <1>0 DEF RecordFill, Goto, TypeOK
<1>4. Claim(p)' = Claim(p) /\ Fate(p)' = "sold"
  BY <1>0, <1>2, <1>3 DEF Claim, Fate
<1>5. dealClaims' = [dealClaims EXCEPT ![p] = Claim(p)]
      /\ dealFates' = [dealFates EXCEPT ![p] = "sold"]
  BY <1>2, <1>3, <1>4, DealStep
<1>6. dealClaims' = dealClaims
  BY <1>5 DEF dealClaims
<1>7. \A q \in Purchases : Holds(q)' <=> Holds(q)
  BY <1>0, <1>1, <1>2 DEF Holds
<1>8. dealHolders' = dealHolders
  BY <1>7, HoldersStay
<1>9. dealFates[p] = "delivered"
  BY <1>0 DEF dealFates, Fate
<1>10. PM!Record(p)
  BY <1>1, <1>5, <1>6, <1>8, <1>9 DEF PM!Record, PM!pieces, dealClaims, dealFates, dealHolders
<1> QED BY <1>10 DEF Refines, PM!PMNext

\* What forgets a transfer before its record forgets a set of them: a statement
\* that throws one, a crash all.
LEMMA ForgetRefines ==
  ASSUME MarketDealInv,
         UNCHANGED <<clock, owner, listed, burned, outsold, paid>>,
         \A q \in Purchases : order'[q] = order[q] \/ (order[q].status = "NONE" /\ order'[q] = NoRow),
         NEW S \in SUBSET Purchases, \A q \in S : step'[q] = "idle",
         \A q \in Purchases \ S : step'[q] = "transferred" <=> step[q] = "transferred"
  PROVE  Refines
<1> DEFINE T == {q \in S : step[q] = "transferred"}
<1>0. \A q \in Purchases : ProgressOf(q)
  BY DEF MarketDealInv, MarketInv, Progress
<1>1. \A q \in Purchases : Claim(q)' = Claim(q)
  BY DEF Claim, NoRow
<1>2. \A q \in Purchases : Fate(q)' = IF q \in T THEN "open" ELSE Fate(q)
  <2> SUFFICES ASSUME NEW q \in Purchases PROVE Fate(q)' = IF q \in T THEN "open" ELSE Fate(q)
    OBVIOUS
  <2>1. order'[q].status = order[q].status
    BY DEF NoRow
  <2>2. CASE q \in T
    BY <1>0, <2>1, <2>2 DEF ProgressOf, Fate
  <2>3. CASE q \notin T
    BY <2>1, <2>3 DEF Fate
  <2> QED BY <2>2, <2>3
<1>3. \A q \in Purchases : Holds(q)' <=> Holds(q)
  BY DEF Holds, NoRow
<1>4. dealClaims' = dealClaims /\ dealHolders' = dealHolders
  BY <1>1, <1>3, HoldersStay DEF dealClaims
<1>5. T \in SUBSET {q \in Purchases : dealFates[q] = "delivered"}
  BY DEF dealFates, Fate
<1>6. dealFates' = [q \in Purchases |-> IF q \in T THEN "open" ELSE dealFates[q]]
  BY <1>2 DEF dealFates
<1> HIDE DEF T
<1>7. PM!Forget
  BY <1>4, <1>5, <1>6 DEF PM!Forget, PM!pieces, dealClaims, dealFates, dealHolders
<1> QED BY <1>7 DEF Refines, PM!PMNext

LEMMA DealStepRefines == ASSUME MarketDealInv, [Next]_vars PROVE Refines
<1> USE DEF market, settlement
<1>0. TypeOK
  BY DEF MarketDealInv, MarketInv
<1>1. ASSUME NEW p \in Purchases, PurchaseStep(p) PROVE Refines
  <2>1. CASE Throws(p)
    <3>1. \A q \in {p} : step'[q] = "idle"
      BY <1>0, <2>1 DEF Throws, Goto, TypeOK
    <3>2. \A q \in Purchases \ {p} : step'[q] = "transferred" <=> step[q] = "transferred"
      BY <1>0, <2>1 DEF Throws, Goto, TypeOK
    <3>3. /\ UNCHANGED <<clock, owner, listed, burned, outsold, paid>>
          /\ \A q \in Purchases : order'[q] = order[q]
      BY <2>1 DEF Throws
    <3>4. {p} \in SUBSET Purchases
      OBVIOUS
    <3> QED BY <3>1, <3>2, <3>3, <3>4, ForgetRefines
  <2>2. CASE ~Throws(p)
    BY <1>1, <2>2, WaitingRefines, OpenRefines, PayRefines, DropRefines, SaleRefines, RecordRefines
       DEF PurchaseStep
  <2> QED BY <2>1, <2>2
<1>2. CASE Crash
  <2>1. \A q \in Purchases : step'[q] = "idle"
    BY <1>2 DEF Crash
  <2>2. \A q \in Purchases : order'[q] = order[q] \/ (order[q].status = "NONE" /\ order'[q] = NoRow)
    BY <1>2 DEF Crash
  <2>3. UNCHANGED <<clock, owner, listed, burned, outsold, paid>>
    BY <1>2 DEF Crash
  <2>4. Purchases \in SUBSET Purchases
    OBVIOUS
  <2> QED BY <2>1, <2>2, <2>3, <2>4, ForgetRefines
<1>3. CASE Tick
  <2>1. dealClaims' = dealClaims /\ dealFates' = dealFates
    BY <1>3, DealStays DEF Tick, Claim, Fate
  <2>2. \A q \in Purchases : Holds(q)' => Holds(q)
    <3> SUFFICES ASSUME NEW q \in Purchases, Holds(q)' PROVE Holds(q)
      OBVIOUS
    <3>1. order[q] \in Purchase
      BY <1>0 DEF TypeOK
    <3>2. clock \in Nat /\ clock' = clock + 1 /\ order[q].opened \in Nat /\ NftReservation \in Nat
      BY <1>0, <1>3, <3>1, MarketBoundsAssumption DEF Tick, TypeOK, Purchase
    <3> QED BY <1>3, <3>2 DEF Tick, Holds
  <2>3. dealHolders' \subseteq dealHolders
    BY <2>2 DEF dealHolders
  <2>4. PM!Lapse
    BY <1>3, <2>1, <2>3 DEF Tick, PM!Lapse, PM!pieces, dealClaims, dealFates, dealHolders
  <2> QED BY <2>4 DEF Refines, PM!PMNext
<1>4. CASE UNCHANGED vars
  <2>1. dealClaims' = dealClaims /\ dealFates' = dealFates
    BY <1>4, DealStays DEF vars, Claim, Fate
  <2>2. dealHolders' = dealHolders
    BY <1>4, HoldersStay DEF vars, Holds
  <2> QED BY <1>4, <2>1, <2>2 DEF vars, Refines
<1> QED BY <1>1, <1>2, <1>3, <1>4, ListingRefines, CraftRefines DEF Next

\* The market implements PieceMarket: whatever requests, payments, failures,
\* crashes and crafts overlap, a piece is held for one purchase at a time, moves
\* by a paid sale from the seller it was bought of, and is burned for one forged
\* piece.
THEOREM MarketImplementsPieceMarket == Spec => ImplementsPieceMarket
<1>1. Init => DealsApart /\ PM!PMInit
  <2> SUFFICES ASSUME Init PROVE DealsApart /\ PM!PMInit
    OBVIOUS
  <2>1. \A p \in Purchases : Fate(p) = "none" /\ ~Holds(p)
        /\ Claim(p) = [item |-> NoItem, buyer |-> NoWallet, seller |-> NoWallet]
    BY DEF Init, NoRow, Fate, Claim, Holds
  <2>2. PM!PMInit
    BY <2>1 DEF Init, PM!PMInit, PM!Items, PM!NoClaim, Items
  <2>3. DealsApart
    BY DEF Init, NoRow, DealsApart, DealOf
  <2> QED BY <2>2, <2>3
<1>2. MarketInv /\ DealsApart /\ [Next]_vars => DealsApart'
  BY DealsApartStep DEF MarketInv
<1>3. MarketInv /\ DealsApart /\ [Next]_vars =>
        [PM!PMNext]_<<PM!pieces, PM!purchases>>
  BY DealStepRefines
     DEF MarketDealInv, Refines, PM!pieces, PM!purchases, dealClaims, dealFates, dealHolders
<1> QED BY <1>1, <1>2, <1>3, MarketInvariant, PTL DEF Spec, ImplementsPieceMarket, PM!PMSpec

-----------------------------------------------------------------------------
(* Minting.  The rows first: what their types are, that a request that was *)
(* not made has nothing, and that what is settled is a row that was asked  *)
(* and paid for.                                                           *)

RowsSound == \A m \in Mints :
  /\ mint[m].status = "NONE" => pieces[m] = 0 /\ mint[m].address = "none"
  /\ mint[m].status = "OWNER" => mint[m].address = "none" /\ ~mint[m].free
  /\ mint[m].status = "DELETED" => wasReset

SettlesRow == \A n \in MintNotes : Settling(n) =>
  minting[n].mint \in Mints /\ mint[minting[n].mint].status \notin {"NONE", "OWNER"}

MintSound == MintTypeOK /\ RowsSound /\ SettlesRow

LEMMA MintLimits == /\ Supply \in Nat /\ WalletLimit \in Nat /\ FreeLimit \in Nat
                    /\ Quantities \subseteq Nat \ {0} /\ IsFiniteSet(Mints)
  BY MintLimitsAssumption, MintsAssumption

LEMMA CountNat == ASSUME MintTypeOK, NEW w \in Minters
                  PROVE  /\ MintCount(w) \in Nat
                         /\ \A status : IsFiniteSet(MintsOf(w, status)) /\ MintsOf(w, status) \subseteq Mints
<1>1. ASSUME NEW status PROVE IsFiniteSet(MintsOf(w, status)) /\ MintsOf(w, status) \subseteq Mints
  BY MintLimits, FS_Subset DEF MintsOf
<1>2. Cardinality(MintsOf(w, "CREATED")) \in Nat
  BY <1>1, FS_CardinalityType
<1>3. PiecesOf(MintsOf(w, "OWNED")) \in Nat
  <2>1. \A m \in MintsOf(w, "OWNED") : pieces[m] \in Nat
    BY <1>1 DEF MintTypeOK
  <2> QED
    BY <1>1, <2>1, SumNat DEF PiecesOf
<1> QED
  BY <1>1, <1>2, <1>3 DEF MintCount, MintTypeOK

\* What the route grants is within the limit, and an owner's mint is not free.
LEMMA Granted == ASSUME MintTypeOK, NEW m \in Mints, NEW w \in Minters, NEW q \in Quantities,
                        NEW phase \in Phases, AskMint(m, w, q, phase)
                 PROVE  \E row \in Mint :
                          /\ mint' = [mint EXCEPT ![m] = row]
                          /\ row.wallet = w /\ row.quantity <= WalletLimit - MintCount(w)
                          /\ \/ row.status = "PENDING" /\ row.address = "asked"
                             \/ row.status = "OWNER" /\ row.address = "none" /\ ~row.free
<1> DEFINE count == MintCount(w)
           freeLeft == FreeLimit - claimed[w]
           granted == Min2(q, WalletLimit - count)
           free == w \in Approved /\ freeLeft > 0
           quantity == IF free THEN Min2(granted, freeLeft) ELSE granted
           row == [status |-> "PENDING", wallet |-> w, free |-> free, address |-> "asked",
                   quantity |-> quantity]
           owners == [row EXCEPT !.status = "OWNER", !.address = "none"]
<1>1. count \in Nat /\ claimed[w] \in Nat /\ count < WalletLimit
  BY CountNat DEF AskMint, MintTypeOK
<1>2. mint' = [mint EXCEPT ![m] = IF ~free /\ w \in Owners THEN owners ELSE row]
  BY DEF AskMint
<1> HIDE DEF count
<1>3. quantity \in Nat /\ quantity <= WalletLimit - count
  BY <1>1, MintLimits DEF Min2
<1>4. free \in BOOLEAN
  OBVIOUS
<1> HIDE DEF quantity, free
<1>5. row \in Mint /\ owners \in Mint
  BY <1>3, <1>4 DEF Mint
<1>6. CASE ~free /\ w \in Owners
  <2>1. /\ owners.wallet = w /\ owners.quantity <= WalletLimit - count /\ owners.status = "OWNER"
        /\ owners.address = "none" /\ ~owners.free
    BY <1>3, <1>6
  <2>2. mint' = [mint EXCEPT ![m] = owners]
    BY <1>2, <1>6
  <2> HIDE DEF owners, row
  <2> QED
    BY <1>5, <2>1, <2>2 DEF count
<1>7. CASE ~(~free /\ w \in Owners)
  <2>1. /\ row.wallet = w /\ row.quantity <= WalletLimit - count /\ row.status = "PENDING"
        /\ row.address = "asked"
    BY <1>3
  <2>2. mint' = [mint EXCEPT ![m] = row]
    BY <1>2, <1>7
  <2> HIDE DEF owners, row
  <2> QED
    BY <1>5, <2>1, <2>2 DEF count
<1> QED
  BY <1>6, <1>7

LEMMA DoneTyped == /\ NotSettling \in Minting /\ NotSettling.at = "unseen"
                   /\ DoneSettling \in Minting /\ DoneSettling.at = "over"
  BY DEF NotSettling, DoneSettling, Minting

\* The rows that the steps beside a settlement write.
LEMMA RowSteps == ASSUME MintSound, NEW m \in Mints,
                         \/ \E w \in Minters, q \in Quantities, phase \in Phases : AskMint(m, w, q, phase)
                         \/ OwnerMint(m) \/ AddressMint(m) \/ NoMintAddress(m)
                  PROVE  MintSound'
<1> USE MintLimits DEF MintSound
<1>1. ASSUME NEW w \in Minters, NEW q \in Quantities, NEW phase \in Phases, AskMint(m, w, q, phase)
      PROVE  MintSound'
  <2>1. PICK row \in Mint : /\ mint' = [mint EXCEPT ![m] = row]
                            /\ row.status \in {"PENDING", "OWNER"}
                            /\ row.status = "OWNER" => row.address = "none" /\ ~row.free
    BY <1>1, Granted
  <2>2. /\ UNCHANGED <<unminted, pieces, tagged, minted, claimed, minting, disturbed, wasReset, mintFaults>>
        /\ stacked' \in {stacked, stacked \cup {w}} /\ mint[m].status = "NONE"
    BY <1>1 DEF AskMint
  <2>3. mint'[m] = row /\ \A x \in Mints \ {m} : mint'[x] = mint[x]
    BY <2>1 DEF MintTypeOK
  <2>4. MintTypeOK'
    BY <2>1, <2>2 DEF MintTypeOK
  <2>5. RowsSound'
    BY <2>1, <2>2, <2>3 DEF RowsSound
  <2>6. SettlesRow'
    BY <2>1, <2>2, <2>3 DEF SettlesRow, Settling
  <2> QED
    BY <2>4, <2>5, <2>6
<1>2. CASE OwnerMint(m)
  <2>1. PICK n \in 0..Min2(mint[m].quantity, unminted) :
          /\ mint[m].status = "OWNER"
          /\ mint' = [mint EXCEPT ![m].status = IF n > 0 THEN "OWNED" ELSE "FAILED"]
          /\ pieces' = [pieces EXCEPT ![m] = @ + n]
          /\ unminted' = unminted - n
          /\ minted' \in {minted, minted + n} /\ mintFaults' \in {mintFaults, mintFaults + 1}
          /\ UNCHANGED <<tagged, claimed, minting, disturbed, stacked, wasReset>>
    BY <1>2 DEF OwnerMint, MintFault, NoMintFault
  <2>2. n \in Nat /\ n <= unminted
    BY <2>1 DEF MintTypeOK, Mint, Min2
  <2>3. /\ mint'[m] = [mint[m] EXCEPT !.status = IF n > 0 THEN "OWNED" ELSE "FAILED"]
        /\ \A x \in Mints \ {m} : mint'[x] = mint[x] /\ pieces'[x] = pieces[x]
    BY <2>1 DEF MintTypeOK
  <2>4. MintTypeOK'
    BY <2>1, <2>2 DEF MintTypeOK, Mint
  <2>5. RowsSound'
    BY <2>1, <2>3 DEF RowsSound, MintTypeOK, Mint
  <2>6. SettlesRow'
    BY <2>1, <2>3 DEF SettlesRow, Settling, MintTypeOK, Mint
  <2> QED
    BY <2>4, <2>5, <2>6
<1>3. CASE AddressMint(m) \/ NoMintAddress(m)
  <2>1. /\ UNCHANGED <<unminted, pieces, tagged, minted, claimed, minting, disturbed, stacked, wasReset, mintFaults>>
        /\ mint[m].address = "asked"
        /\ \/ mint' = [mint EXCEPT ![m].address = "given"]
           \/ mint' = [mint EXCEPT ![m].status = "FAILED", ![m].address = "none"]
    BY <1>3 DEF AddressMint, NoMintAddress, mintHistory
  <2>2. /\ \A x \in Mints \ {m} : mint'[x] = mint[x]
        /\ mint'[m].status \in {mint[m].status, "FAILED"} /\ mint[m].status \notin {"NONE", "OWNER"}
        /\ mint'[m] \in Mint
    BY <2>1 DEF MintTypeOK, Mint, RowsSound
  <2>3. MintTypeOK'
    BY <2>1, <2>2 DEF MintTypeOK
  <2>4. RowsSound'
    BY <2>1, <2>2 DEF RowsSound
  <2>5. SettlesRow'
    BY <2>1, <2>2 DEF SettlesRow, Settling
  <2> QED
    BY <2>3, <2>4, <2>5
<1> QED
  BY <1>1, <1>2, <1>3

-----------------------------------------------------------------------------
(* MintedAsPaid.  Of a wallet that was not disturbed, one payment is       *)
(* settled at a time; what its row has then is what the settlement got     *)
(* (Underway), and a row that is not being settled has its pieces if it is *)
(* completed, and none if it is not (Resting).                             *)

HoldingAt(at) == at \in {"claim", "count", "create", "free"}
Done(row) == row.status \in {"CREATED", "OWNED"}

Underway(s, row, held) ==
  /\ row.address # "asked"
  /\ row.status = IF s.at = "free" THEN "CREATED" ELSE "PENDING"
  /\ s.at = "free" => row.free
  /\ held = s.got
  /\ HoldingAt(s.at) => s.got <= s.want /\ s.want <= row.quantity
  /\ s.at \in {"count", "create", "free"} => s.got > 0
  /\ ~HoldingAt(s.at) => s.got = 0

Resting(row, held) ==
  /\ IF Done(row) THEN held > 0 /\ held <= row.quantity ELSE held = 0
  /\ row.address = "asked" => row.status \in {"PENDING", "DELETED"}

SettlesAlone == \A n, k \in MintNotes :
  Settling(n) /\ Settling(k) /\ WalletOf(n) = WalletOf(k) /\ WalletOf(n) \notin disturbed => n = k

InOrder == \A n \in MintNotes : Settling(n) /\ WalletOf(n) \notin disturbed =>
  Underway(minting[n], mint[minting[n].mint], pieces[minting[n].mint])

AtRest == \A m \in Mints : mint[m].wallet \notin disturbed /\ ~InProgress(m) =>
  Resting(mint[m], pieces[m])

MintInv == MintSound /\ SettlesAlone /\ InOrder /\ AtRest

\* The limits.  The free pieces of a wallet are those counted for it and what one
\* settlement has in hand, which the allowance covers since the settlement started.
FreeOf(row, held, w) == IF row.wallet = w /\ row.free THEN held ELSE 0
FreePieces(w) == SumFunction([m \in Mints |-> FreeOf(mint[m], pieces[m], w)])
FreeHeld(n, w) == HoldingAt(minting[n].at) /\ WalletOf(n) = w /\ mint[minting[n].mint].free
FreeAt(w) ==
  /\ claimed[w] <= FreeLimit
  /\ \A n \in MintNotes : FreeHeld(n, w) =>
       FreePieces(w) <= claimed[w] + minting[n].got /\ claimed[w] + minting[n].want <= FreeLimit
  /\ (\A n \in MintNotes : ~FreeHeld(n, w)) => FreePieces(w) <= claimed[w]
FreeInv == ~wasReset => \A w \in Minters \ disturbed : FreeAt(w)

\* A wallet with k completed rows, minting one after the other, has no more pieces
\* than L + (L - 1) + ... + (L - k + 1), and its open row is for L - k at most.
DoneMints(w) == {m \in Mints : mint[m].wallet = w /\ Done(mint[m])}
DoneOf(row, held, w) == IF row.wallet = w /\ Done(row) THEN held ELSE 0
DonePieces(w) == SumFunction([m \in Mints |-> DoneOf(mint[m], pieces[m], w)])
OpenOf(row, w) == row.wallet = w /\ row.status \in {"PENDING", "OWNER"}
LimitAt(w) ==
  LET k == Cardinality(DoneMints(w)) IN
  /\ 2 * DonePieces(w) <= k * (2 * WalletLimit - k + 1)
  /\ \A m, o \in Mints : OpenOf(mint[m], w) /\ OpenOf(mint[o], w) => m = o
  /\ \A m \in Mints : OpenOf(mint[m], w) => mint[m].quantity <= WalletLimit - k
LimitInv == ~wasReset => \A w \in Minters \ (disturbed \cup stacked) : LimitAt(w)

\* The sums of a wallet, when one row and what it has are rewritten.
RowTo(m, row, held) == mint' = [mint EXCEPT ![m] = row] /\ pieces' = [pieces EXCEPT ![m] = held]

LEMMA RowWritten == ASSUME MintTypeOK, NEW m \in Mints, NEW row \in Mint, NEW held \in Nat, RowTo(m, row, held)
                    PROVE  /\ mint'[m] = row /\ pieces'[m] = held
                           /\ mint' \in [Mints -> Mint] /\ pieces' \in [Mints -> Nat]
                           /\ \A x \in Mints \ {m} : mint'[x] = mint[x] /\ pieces'[x] = pieces[x]
  BY DEF MintTypeOK, RowTo

LEMMA MintSum == ASSUME NEW f \in [Mints -> Nat]
                 PROVE  SumFunction(f) = SumFunctionOnSet(f, Mints) /\ SumFunction(f) \in Nat
<1>1. SumFunction(f) = SumFunctionOnSet(f, Mints)
  BY DEF SumFunction
<1> QED
  BY <1>1, SumNat, MintLimits

LEMMA SumMoves == ASSUME NEW f \in [Mints -> Nat], NEW g \in [Mints -> Nat], NEW m \in Mints,
                         \A x \in Mints \ {m} : g[x] = f[x]
                  PROVE  SumFunction(g) = SumFunction(f) - f[m] + g[m]
<1>1. (\A x \in Mints : f[x] \in Int) /\ g[m] \in Int
  OBVIOUS
<1>2. SumFunctionOnSet(g, Mints) = SumFunctionOnSet(f, Mints) - f[m] + g[m]
  BY <1>1, SumChange, MintLimits
<1> QED
  BY <1>2, MintSum

LEMMA FreeMoves == ASSUME MintTypeOK, NEW m \in Mints, NEW row \in Mint, NEW held \in Nat, RowTo(m, row, held), NEW w
                   PROVE  /\ FreePieces(w) \in Nat /\ FreePieces(w)' \in Nat
                          /\ FreePieces(w)' = FreePieces(w) - FreeOf(mint[m], pieces[m], w) + FreeOf(row, held, w)
<1> DEFINE f == [x \in Mints |-> FreeOf(mint[x], pieces[x], w)]
           g == [x \in Mints |-> FreeOf(mint'[x], pieces'[x], w)]
<1>1. f \in [Mints -> Nat] /\ g \in [Mints -> Nat]
  BY RowWritten DEF FreeOf, MintTypeOK
<1>2. /\ \A x \in Mints \ {m} : g[x] = f[x]
      /\ f[m] = FreeOf(mint[m], pieces[m], w) /\ g[m] = FreeOf(row, held, w)
  BY RowWritten
<1>3. FreePieces(w) = SumFunction(f) /\ FreePieces(w)' = SumFunction(g)
  BY DEF FreePieces
<1> HIDE DEF f, g
<1>4. SumFunction(f) \in Nat /\ SumFunction(g) \in Nat /\ SumFunction(g) = SumFunction(f) - f[m] + g[m]
  BY <1>1, <1>2, MintSum, SumMoves
<1> QED
  BY <1>2, <1>3, <1>4

LEMMA DoneMoves == ASSUME MintTypeOK, NEW m \in Mints, NEW row \in Mint, NEW held \in Nat, RowTo(m, row, held), NEW w
                   PROVE  /\ DonePieces(w) \in Nat /\ DonePieces(w)' \in Nat
                          /\ DonePieces(w)' = DonePieces(w) - DoneOf(mint[m], pieces[m], w) + DoneOf(row, held, w)
<1> DEFINE f == [x \in Mints |-> DoneOf(mint[x], pieces[x], w)]
           g == [x \in Mints |-> DoneOf(mint'[x], pieces'[x], w)]
<1>1. f \in [Mints -> Nat] /\ g \in [Mints -> Nat]
  BY RowWritten DEF DoneOf, MintTypeOK
<1>2. /\ \A x \in Mints \ {m} : g[x] = f[x]
      /\ f[m] = DoneOf(mint[m], pieces[m], w) /\ g[m] = DoneOf(row, held, w)
  BY RowWritten
<1>3. DonePieces(w) = SumFunction(f) /\ DonePieces(w)' = SumFunction(g)
  BY DEF DonePieces
<1> HIDE DEF f, g
<1>4. SumFunction(f) \in Nat /\ SumFunction(g) \in Nat /\ SumFunction(g) = SumFunction(f) - f[m] + g[m]
  BY <1>1, <1>2, MintSum, SumMoves
<1> QED
  BY <1>2, <1>3, <1>4

LEMMA DoneFinite == ASSUME NEW w PROVE IsFiniteSet(DoneMints(w)) /\ Cardinality(DoneMints(w)) \in Nat
  BY MintLimits, FS_Subset, FS_CardinalityType DEF DoneMints

\* A row that is rewritten keeps to the limit if it was completed before and after
\* with the same pieces, or neither, and was open if it is, for as many ...
LEMMA LimitStays == ASSUME MintTypeOK, NEW m \in Mints, NEW row \in Mint, NEW held \in Nat, RowTo(m, row, held),
                           NEW w, LimitAt(w),
                           DoneOf(row, held, w) = DoneOf(mint[m], pieces[m], w),
                           (row.wallet = w /\ Done(row)) <=> (mint[m].wallet = w /\ Done(mint[m])),
                           OpenOf(row, w) => OpenOf(mint[m], w) /\ row.quantity = mint[m].quantity
                    PROVE  LimitAt(w)'
<1>1. DoneMints(w)' = DoneMints(w)
  BY RowWritten DEF DoneMints
<1>2. DonePieces(w)' = DonePieces(w)
  <2>1. DoneOf(mint[m], pieces[m], w) \in Nat
    BY DEF DoneOf, MintTypeOK
  <2> QED
    BY <2>1, DoneMoves
<1>3. \A x \in Mints : OpenOf(mint'[x], w) => OpenOf(mint[x], w) /\ mint'[x].quantity = mint[x].quantity
  BY RowWritten
<1> QED
  BY <1>1, <1>2, <1>3 DEF LimitAt

\* ... and if it was the one that was open and is completed now, with no more
\* pieces than it was for.
LEMMA LimitGrows == ASSUME MintTypeOK, NEW m \in Mints, NEW row \in Mint, NEW held \in Nat, RowTo(m, row, held),
                           NEW w, LimitAt(w), OpenOf(mint[m], w), row.wallet = w, Done(row),
                           held <= mint[m].quantity
                    PROVE  LimitAt(w)'
<1> DEFINE k == Cardinality(DoneMints(w))
           j == Cardinality(DoneMints(w))'
<1>1. m \notin DoneMints(w) /\ DoneMints(w)' = DoneMints(w) \cup {m}
  BY RowWritten DEF DoneMints, OpenOf, Done
<1>2. j = k + 1 /\ k \in Nat
  BY <1>1, DoneFinite, FS_AddElement
<1>3. DoneOf(mint[m], pieces[m], w) = 0 /\ DoneOf(row, held, w) = held
  BY DEF DoneOf, OpenOf, Done
<1>4. DonePieces(w)' = DonePieces(w) + held /\ DonePieces(w) \in Nat
  BY <1>3, DoneMoves
<1>5. mint[m].quantity <= WalletLimit - k /\ 2 * DonePieces(w) <= k * (2 * WalletLimit - k + 1)
  BY DEF LimitAt
<1>6. \A x \in Mints : ~OpenOf(mint'[x], w)
  BY RowWritten DEF LimitAt, OpenOf, Done
<1> HIDE DEF k, j
<1>7. mint[m].quantity \in Nat /\ WalletLimit \in Nat
  BY MintLimits DEF MintTypeOK, Mint
<1>8. held <= WalletLimit - k
  BY <1>2, <1>5, <1>7
<1>9. j * (2 * WalletLimit - j + 1) = k * (2 * WalletLimit - k + 1) + 2 * (WalletLimit - k)
  BY <1>2, <1>7
<1>10. k * (2 * WalletLimit - k + 1) \in Int
  BY <1>2, <1>7
<1>11. 2 * DonePieces(w)' <= j * (2 * WalletLimit - j + 1)
  BY <1>2, <1>4, <1>5, <1>7, <1>8, <1>9, <1>10
<1> QED
  BY <1>6, <1>11 DEF LimitAt, j

-----------------------------------------------------------------------------
(* The steps of a settlement.                                              *)

Live(s) == s.at \notin {"unseen", "over"}

\* What a step of settlement n rewrites: its row, what the row has, and itself.
SettleTo(n, s, row, held) ==
  /\ Settling(n) /\ minting' = [minting EXCEPT ![n] = s]
  /\ RowTo(minting[n].mint, row, held)
  /\ row.wallet = mint[minting[n].mint].wallet /\ row.free = mint[minting[n].mint].free
  /\ Live(s) => s.mint = minting[n].mint
  /\ row.status \notin {"NONE", "OWNER"}
  /\ row.status = "DELETED" => mint[minting[n].mint].status = "DELETED"

\* Such a step keeps the rows sound, ...
LEMMA SettleSound ==
  ASSUME MintSound, NEW n \in MintNotes, NEW s \in Minting, NEW row \in Mint, NEW held \in Nat,
         SettleTo(n, s, row, held),
         unminted' \in Nat, tagged' \subseteq MintNotes, minted' \in Nat, claimed' \in [Minters -> Nat],
         disturbed' \subseteq Minters, UNCHANGED <<stacked, wasReset>>, mintFaults' \in Nat
  PROVE  MintSound' /\ minting[n].mint \in Mints
<1> DEFINE m == minting[n].mint
<1>1. m \in Mints /\ mint[m].status \notin {"NONE", "OWNER"}
  BY DEF MintSound, SettlesRow, SettleTo
<1> HIDE DEF m
<1>2. RowTo(m, row, held) /\ (Live(s) => s.mint = m) /\ row.status \notin {"NONE", "OWNER"}
      /\ (row.status = "DELETED" => mint[m].status = "DELETED")
      /\ minting' = [minting EXCEPT ![n] = s]
  BY DEF SettleTo, m
<1>3. /\ mint'[m] = row /\ pieces'[m] = held
      /\ mint' \in [Mints -> Mint] /\ pieces' \in [Mints -> Nat]
      /\ \A x \in Mints \ {m} : mint'[x] = mint[x] /\ pieces'[x] = pieces[x]
  BY <1>1, <1>2, RowWritten DEF MintSound
<1>4. /\ minting' \in [MintNotes -> Minting] /\ minting'[n] = s
      /\ \A k \in MintNotes \ {n} : minting'[k] = minting[k]
  BY <1>2 DEF MintSound, MintTypeOK
<1>5. MintTypeOK'
  BY <1>3, <1>4 DEF MintSound, MintTypeOK
<1>6. RowsSound'
  BY <1>1, <1>2, <1>3 DEF MintSound, RowsSound
<1>7. SettlesRow'
  BY <1>1, <1>2, <1>3, <1>4 DEF MintSound, SettlesRow, Settling, Live
<1> QED
  BY <1>1, <1>5, <1>6, <1>7 DEF MintSound, m

\* Whoever else is settled is on another row.
LEMMA OthersApart == ASSUME MintInv, NEW n \in MintNotes, Settling(n), NEW k \in MintNotes \ {n}, Settling(k),
                            WalletOf(k) \notin disturbed
                     PROVE  minting[k].mint # minting[n].mint
  BY DEF MintInv, SettlesAlone, WalletOf

\* ... the order of the settlements, ...
LEMMA SettleKeeps ==
  ASSUME MintInv, NEW n \in MintNotes, NEW s \in Minting, NEW row \in Mint, NEW held \in Nat,
         SettleTo(n, s, row, held), disturbed \subseteq disturbed',
         row.wallet \notin disturbed' =>
           IF Live(s) THEN Underway(s, row, held) ELSE Resting(row, held)
  PROVE  SettlesAlone' /\ InOrder' /\ AtRest'
<1> DEFINE m == minting[n].mint
<1>1. m \in Mints /\ MintTypeOK
  BY DEF MintInv, MintSound, SettlesRow, SettleTo
<1>2. RowTo(m, row, held) /\ (Live(s) => s.mint = m) /\ row.wallet = mint[m].wallet
      /\ minting' = [minting EXCEPT ![n] = s] /\ Settling(n)
  BY DEF SettleTo
<1>3. \A k \in MintNotes \ {n} : Settling(k) /\ WalletOf(k) \notin disturbed => minting[k].mint # m
  BY <1>2, OthersApart
<1>4. \A k \in MintNotes : Settling(k) => minting[k].mint \in Mints
  BY DEF MintInv, MintSound, SettlesRow
<1> HIDE DEF m
<1>5. /\ mint'[m] = row /\ pieces'[m] = held
      /\ \A x \in Mints \ {m} : mint'[x] = mint[x] /\ pieces'[x] = pieces[x]
  BY <1>1, <1>2, RowWritten
<1>6. minting'[n] = s /\ \A k \in MintNotes \ {n} : minting'[k] = minting[k]
  BY <1>1, <1>2 DEF MintTypeOK
<1>7. \A x \in Mints : mint'[x].wallet = mint[x].wallet
  BY <1>2, <1>5
<1>8. \A k \in MintNotes : Settling(k)' => Settling(k) /\ WalletOf(k)' = WalletOf(k)
  <2>1. ASSUME NEW k \in MintNotes \ {n}, Settling(k)' PROVE Settling(k) /\ WalletOf(k)' = WalletOf(k)
    BY <1>4, <1>6, <1>7, <2>1 DEF Settling, WalletOf
  <2>2. ASSUME Settling(n)' PROVE WalletOf(n)' = WalletOf(n)
    BY <1>1, <1>2, <1>6, <1>7, <2>2 DEF Settling, WalletOf, Live, m
  <2> QED
    BY <1>2, <2>1, <2>2
<1>9. SettlesAlone'
  BY <1>8 DEF MintInv, SettlesAlone
<1>10. InOrder'
  <2> SUFFICES ASSUME NEW k \in MintNotes, Settling(k)', WalletOf(k)' \notin disturbed'
               PROVE  Underway(minting[k], mint[minting[k].mint], pieces[minting[k].mint])'
    BY DEF InOrder
  <2>1. Settling(k) /\ WalletOf(k) \notin disturbed /\ WalletOf(k)' = WalletOf(k)
    BY <1>8
  <2>2. CASE k = n
    <3>1. Live(s) /\ minting'[k] = s /\ s.mint = m
      BY <1>2, <1>6, <2>2 DEF Settling, Live
    <3>2. row.wallet \notin disturbed'
      BY <1>5, <3>1 DEF WalletOf
    <3>3. Underway(s, row, held)
      BY <3>1, <3>2
    <3> QED
      BY <1>5, <3>1, <3>3
  <2>3. CASE k # n
    <3>1. minting'[k] = minting[k] /\ minting[k].mint \in Mints \ {m}
      BY <1>3, <1>4, <1>6, <2>1, <2>3
    <3>2. Underway(minting[k], mint[minting[k].mint], pieces[minting[k].mint])
      BY <2>1 DEF MintInv, InOrder
    <3> QED
      BY <1>5, <3>1, <3>2
  <2> QED
    BY <2>2, <2>3
<1>11. AtRest'
  <2> SUFFICES ASSUME NEW x \in Mints, mint'[x].wallet \notin disturbed', ~InProgress(x)'
               PROVE  Resting(mint[x], pieces[x])'
    BY DEF AtRest
  <2>1. CASE x = m
    <3>1. ~Live(s)
      BY <1>2, <1>6, <2>1 DEF InProgress, Settling, Live
    <3> QED
      BY <1>5, <2>1, <3>1
  <2>2. CASE x # m
    <3>1. ~InProgress(x)
      <4>1. ASSUME NEW k \in MintNotes, Settling(k), minting[k].mint = x PROVE FALSE
        <5>1. k # n
          BY <2>2, <4>1 DEF m
        <5> QED
          BY <1>6, <4>1, <5>1 DEF InProgress, Settling
      <4> QED
        BY <4>1 DEF InProgress
    <3>2. mint[x].wallet \notin disturbed /\ mint'[x] = mint[x] /\ pieces'[x] = pieces[x]
      BY <1>5, <2>2
    <3> QED
      BY <3>1, <3>2 DEF MintInv, AtRest
  <2> QED
    BY <2>1, <2>2
<1> QED
  BY <1>9, <1>10, <1>11

\* The free pieces of a wallet against its count and what is in hand.
FreeBound(free, count, s, isFree) ==
  /\ count <= FreeLimit
  /\ IF HoldingAt(s.at) /\ isFree THEN free <= count + s.got /\ count + s.want <= FreeLimit
     ELSE free <= count

\* ... the free allowance ...
LEMMA SettleFree ==
  ASSUME MintInv, FreeInv, NEW n \in MintNotes, NEW s \in Minting, NEW row \in Mint, NEW held \in Nat,
         SettleTo(n, s, row, held), disturbed \subseteq disturbed', wasReset' = wasReset,
         \A w \in Minters \ {row.wallet} : claimed'[w] = claimed[w],
         row.wallet \notin disturbed' /\ ~wasReset =>
           \A free \in Nat : FreeBound(free, claimed[row.wallet], minting[n], row.free) =>
             FreeBound(free - FreeOf(row, pieces[minting[n].mint], row.wallet) + FreeOf(row, held, row.wallet),
                       claimed'[row.wallet], s, row.free)
  PROVE  FreeInv'
<1> DEFINE m == minting[n].mint
<1>1. m \in Mints /\ MintTypeOK
  BY DEF MintInv, MintSound, SettlesRow, SettleTo
<1>2. RowTo(m, row, held) /\ (Live(s) => s.mint = m)
      /\ row.wallet = mint[m].wallet /\ row.free = mint[m].free
      /\ minting' = [minting EXCEPT ![n] = s] /\ Settling(n)
  BY DEF SettleTo
<1>4. \A k \in MintNotes : Settling(k) => minting[k].mint \in Mints
  BY DEF MintInv, MintSound, SettlesRow
<1> HIDE DEF m
<1>5. /\ mint'[m] = row /\ pieces'[m] = held
      /\ \A x \in Mints \ {m} : mint'[x] = mint[x] /\ pieces'[x] = pieces[x]
  BY <1>1, <1>2, RowWritten
<1>6. minting'[n] = s /\ \A k \in MintNotes \ {n} : minting'[k] = minting[k]
  BY <1>1, <1>2 DEF MintTypeOK
<1>7. \A x \in Mints : mint'[x].wallet = mint[x].wallet /\ mint'[x].free = mint[x].free
  BY <1>2, <1>5
<1>8. \A k \in MintNotes : HoldingAt(minting[k].at) => Settling(k)
  BY DEF HoldingAt, Settling
<1>9. \A k \in MintNotes \ {n}, w \in Minters : FreeHeld(k, w)' = FreeHeld(k, w)
  <2> SUFFICES ASSUME NEW k \in MintNotes \ {n}, NEW w \in Minters, HoldingAt(minting[k].at)
               PROVE  WalletOf(k)' = WalletOf(k) /\ mint'[minting[k].mint].free = mint[minting[k].mint].free
    BY <1>6 DEF FreeHeld
  <2> QED
    BY <1>4, <1>6, <1>7, <1>8 DEF WalletOf
<1>10. FreeHeld(n, row.wallet) <=> HoldingAt(minting[n].at) /\ row.free
  BY <1>2, <1>5, <1>8 DEF FreeHeld, WalletOf, m
<1>11. FreeHeld(n, row.wallet)' <=> HoldingAt(s.at) /\ row.free
  <2>1. HoldingAt(s.at) => s.mint = m
    BY <1>2 DEF HoldingAt, Live
  <2> QED
    BY <1>1, <1>5, <1>6, <2>1 DEF FreeHeld, WalletOf
<1>12. \A w \in Minters : w # row.wallet => ~FreeHeld(n, w) /\ ~FreeHeld(n, w)'
  <2>1. HoldingAt(s.at) => s.mint = m
    BY <1>2 DEF HoldingAt, Live
  <2>2. WalletOf(n) = row.wallet
    BY <1>2 DEF WalletOf, m
  <2> QED
    BY <1>5, <1>6, <2>1, <2>2 DEF FreeHeld, WalletOf
<1>13. \A w : /\ FreePieces(w) \in Nat /\ FreePieces(w)' \in Nat
              /\ FreePieces(w)' = FreePieces(w) - FreeOf(mint[m], pieces[m], w) + FreeOf(row, held, w)
  BY <1>1, <1>2, FreeMoves
<1> SUFFICES ASSUME ~wasReset, NEW w \in Minters \ disturbed' PROVE FreeAt(w)'
  BY DEF FreeInv
<1>14. FreeAt(w)
  BY DEF FreeInv
<1>15. CASE w = row.wallet
  <2>1. w \notin disturbed /\ WalletOf(n) = w
    BY <1>2, <1>15 DEF WalletOf, m
  <2>2. \A k \in MintNotes \ {n} : ~FreeHeld(k, w)
    BY <1>2, <1>8, <2>1 DEF FreeHeld, MintInv, SettlesAlone
  <2>3. FreeBound(FreePieces(w), claimed[w], minting[n], row.free)
    BY <1>10, <1>14, <1>15, <2>2 DEF FreeAt, FreeBound
  <2>4. FreeOf(row, pieces[m], w) = FreeOf(mint[m], pieces[m], w)
    BY <1>2 DEF FreeOf
  <2>5. FreeBound(FreePieces(w)', claimed'[w], s, row.free)
    BY <1>13, <1>15, <2>3, <2>4 DEF m
  <2> QED
    BY <1>6, <1>9, <1>11, <1>15, <2>2, <2>5 DEF FreeAt, FreeBound
<1>16. CASE w # row.wallet
  <2>1. FreePieces(w)' = FreePieces(w)
    BY <1>2, <1>13, <1>16 DEF FreeOf
  <2>2. claimed'[w] = claimed[w]
    BY <1>16
  <2>3. \A k \in MintNotes : FreeHeld(k, w)' => k # n /\ FreeHeld(k, w) /\ minting'[k] = minting[k]
    BY <1>6, <1>9, <1>12, <1>16
  <2>4. \A k \in MintNotes : FreeHeld(k, w) => FreeHeld(k, w)'
    BY <1>9, <1>12, <1>16
  <2> QED
    BY <1>14, <2>1, <2>2, <2>3, <2>4 DEF FreeAt
<1> QED
  BY <1>15, <1>16

MintsInv == MintInv /\ FreeInv /\ LimitInv

\* ... and the limit per wallet.
LEMMA SettleLimit ==
  ASSUME MintInv, LimitInv, NEW n \in MintNotes, NEW s \in Minting, NEW row \in Mint, NEW held \in Nat,
         SettleTo(n, s, row, held), disturbed \subseteq disturbed', UNCHANGED <<stacked, wasReset>>,
         LET m == minting[n].mint IN row.wallet \notin disturbed' =>
           \/ /\ Done(row) <=> Done(mint[m])
              /\ Done(row) => held = pieces[m]
              /\ row.status = "PENDING" => mint[m].status = "PENDING" /\ row.quantity = mint[m].quantity
           \/ mint[m].status = "PENDING" /\ Done(row) /\ held <= mint[m].quantity
  PROVE  LimitInv'
<1> DEFINE m == minting[n].mint
<1>1. m \in Mints /\ MintTypeOK
  BY DEF MintInv, MintSound, SettlesRow, SettleTo
<1>2. RowTo(m, row, held) /\ row.wallet = mint[m].wallet /\ row.status # "OWNER"
  BY DEF SettleTo
<1>3. row.wallet \notin disturbed' =>
        \/ /\ Done(row) <=> Done(mint[m])
           /\ Done(row) => held = pieces[m]
           /\ row.status = "PENDING" => mint[m].status = "PENDING" /\ row.quantity = mint[m].quantity
        \/ mint[m].status = "PENDING" /\ Done(row) /\ held <= mint[m].quantity
  OBVIOUS
<1> HIDE DEF m
<1> SUFFICES ASSUME ~wasReset, NEW w \in Minters \ (disturbed' \cup stacked) PROVE LimitAt(w)'
  BY DEF LimitInv
<1>4. LimitAt(w)
  BY DEF LimitInv
<1>5. CASE row.wallet # w
  BY <1>1, <1>2, <1>4, <1>5, LimitStays DEF DoneOf, OpenOf
<1>6. CASE row.wallet = w
  <2>1. CASE /\ Done(row) <=> Done(mint[m])
             /\ Done(row) => held = pieces[m]
             /\ row.status = "PENDING" => mint[m].status = "PENDING" /\ row.quantity = mint[m].quantity
    BY <1>1, <1>2, <1>4, <1>6, <2>1, LimitStays DEF DoneOf, OpenOf
  <2>2. CASE mint[m].status = "PENDING" /\ Done(row) /\ held <= mint[m].quantity
    BY <1>1, <1>2, <1>4, <1>6, <2>2, LimitGrows DEF OpenOf
  <2> QED
    BY <1>3, <1>6, <2>1, <2>2
<1> QED
  BY <1>5, <1>6

\* A settlement that is over, or left to fail, with what it has.
LEMMA UnsettledTo == ASSUME MintSound, NEW n \in MintNotes, Unsettled(n)
                     PROVE  \E s \in Minting :
                              /\ minting' = [minting EXCEPT ![n] = s]
                              /\ \/ s.at = "over"
                                 \/ s.at = "fail" /\ s.mint = minting[n].mint /\ s.got = minting[n].got
<1>1. minting[n] \in Minting
  BY DEF MintSound, MintTypeOK
<1>2. CASE minting[n].admin
  BY <1>2, DoneTyped DEF Unsettled, EndMint
<1>3. CASE ~minting[n].admin
  <2> DEFINE s == [minting[n] EXCEPT !.at = "fail"]
  <2>1. /\ s \in Minting /\ s.at = "fail" /\ s.mint = minting[n].mint /\ s.got = minting[n].got
        /\ minting' = [minting EXCEPT ![n] = s]
    BY <1>1, <1>3 DEF Unsettled, GoMint, Minting
  <2> HIDE DEF s
  <2> QED
    BY <2>1
<1> QED
  BY <1>2, <1>3

\* What is known of a settlement before its step.
LEMMA Before == ASSUME MintInv, NEW n \in MintNotes, Settling(n)
                PROVE  /\ minting[n].mint \in Mints /\ minting[n] \in Minting /\ Live(minting[n])
                       /\ mint[minting[n].mint] \in Mint /\ pieces[minting[n].mint] \in Nat
                       /\ mint[minting[n].mint].wallet \in Minters
                       /\ mint[minting[n].mint].status \notin {"NONE", "OWNER"}
                       /\ WalletOf(n) = mint[minting[n].mint].wallet
                       /\ mint[minting[n].mint].wallet \notin disturbed =>
                            Underway(minting[n], mint[minting[n].mint], pieces[minting[n].mint])
  BY DEF MintInv, MintSound, MintTypeOK, SettlesRow, InOrder, WalletOf, Live, Settling, Mint

\* A step that leaves the rows alone.
LEMMA RowsLeft == ASSUME MintInv, NEW n \in MintNotes, Settling(n), NEW s,
                         minting' = [minting EXCEPT ![n] = s], UNCHANGED <<mint, pieces>>,
                         Live(s) => s.mint = minting[n].mint
                  PROVE  SettleTo(n, s, mint[minting[n].mint], pieces[minting[n].mint])
<1>1. minting[n].mint \in Mints /\ mint[minting[n].mint].status \notin {"NONE", "OWNER"}
  BY Before
<1>2. \A m \in Mints : mint = [mint EXCEPT ![m] = mint[m]] /\ pieces = [pieces EXCEPT ![m] = pieces[m]]
  BY DEF MintInv, MintSound, MintTypeOK
<1> QED
  BY <1>1, <1>2 DEF SettleTo, RowTo

\* Such a step keeps everything if, for a wallet that is not disturbed, it takes the
\* settlement one step further.
LEMMA RowsLeftKeeps ==
  ASSUME MintsInv, NEW n \in MintNotes, Settling(n), NEW s \in Minting,
         minting' = [minting EXCEPT ![n] = s], UNCHANGED <<mint, pieces, stacked, wasReset>>,
         Live(s) => s.mint = minting[n].mint,
         unminted' \in Nat, tagged' \subseteq MintNotes, minted' \in Nat, mintFaults' \in Nat,
         claimed' \in [Minters -> Nat],
         disturbed \subseteq disturbed', disturbed' \subseteq Minters,
         LET row == mint[minting[n].mint]
             held == pieces[minting[n].mint] IN
         /\ \A w \in Minters \ {row.wallet} : claimed'[w] = claimed[w]
         /\ row.wallet \notin disturbed' =>
              /\ IF Live(s) THEN Underway(s, row, held) ELSE Resting(row, held)
              /\ \A free \in Nat : FreeBound(free, claimed[row.wallet], minting[n], row.free) =>
                   FreeBound(free, claimed'[row.wallet], s, row.free)
  PROVE  MintsInv'
<1> DEFINE m == minting[n].mint
           row == mint[m]
           held == pieces[m]
<1>1. SettleTo(n, s, row, held) /\ row \in Mint /\ held \in Nat
  BY Before, RowsLeft DEF MintsInv
<1>2. /\ \A w \in Minters \ {row.wallet} : claimed'[w] = claimed[w]
      /\ row.wallet \notin disturbed' =>
           IF Live(s) THEN Underway(s, row, held) ELSE Resting(row, held)
  OBVIOUS
<1>3. row.wallet \notin disturbed' =>
        \A free \in Nat : FreeBound(free, claimed[row.wallet], minting[n], row.free) =>
          FreeBound(free, claimed'[row.wallet], s, row.free)
  OBVIOUS
<1> HIDE DEF row, held
<1>4. \A free \in Nat : free - FreeOf(row, pieces[m], row.wallet) + FreeOf(row, held, row.wallet) = free
  BY <1>1 DEF FreeOf, held
<1>5. MintSound'
  BY <1>1, SettleSound DEF MintsInv, MintInv
<1>6. SettlesAlone' /\ InOrder' /\ AtRest'
  BY <1>1, <1>2, SettleKeeps DEF MintsInv
<1>7. FreeInv'
  <2>1. row.wallet \notin disturbed' /\ ~wasReset =>
          \A free \in Nat : FreeBound(free, claimed[row.wallet], minting[n], row.free) =>
            FreeBound(free - FreeOf(row, pieces[m], row.wallet) + FreeOf(row, held, row.wallet),
                      claimed'[row.wallet], s, row.free)
    BY <1>3, <1>4
  <2> QED
    BY <1>1, <1>2, <2>1, SettleFree DEF MintsInv
<1>8. LimitInv'
  <2>1. row = mint[m] /\ held = pieces[m]
    BY DEF row, held
  <2> QED
    BY <1>1, <2>1, SettleLimit DEF MintsInv
<1> QED
  BY <1>5, <1>6, <1>7, <1>8 DEF MintsInv, MintInv

\* A settlement reads what is wanted, or ends.
LEMMA StartKeeps == ASSUME MintsInv, NEW n \in MintNotes, StartMint(n) PROVE MintsInv'
<1> DEFINE m == minting[n].mint
           row == mint[m]
           w == row.wallet
           want == IF row.free THEN Min2(row.quantity, FreeLimit - claimed[w]) ELSE row.quantity
<1>1. minting[n].at = "start" /\ Settling(n) /\ UNCHANGED <<mintRows, mintHistory>>
  BY DEF StartMint, Settling
<1>2. MintTypeOK /\ MintInv /\ MintSound
  BY DEF MintsInv, MintInv, MintSound
<1>3. /\ minting[n] \in Minting /\ row \in Mint /\ w \in Minters
      /\ w \notin disturbed => Underway(minting[n], row, pieces[m])
  BY <1>1, <1>2, Before
<1>4. row.quantity \in Nat /\ claimed[w] \in Nat /\ FreeLimit \in Nat
  BY <1>2, <1>3, MintLimits DEF MintTypeOK, Mint
<1>5. w \notin disturbed => row.status = "PENDING" /\ row.address # "asked" /\ pieces[m] = 0
                            /\ minting[n].got = 0
  BY <1>1, <1>3 DEF Underway, HoldingAt
<1>6. PICK s \in Minting :
        /\ minting' = [minting EXCEPT ![n] = s]
        /\ \/ s = [minting[n] EXCEPT !.at = "claim", !.want = want] /\ want > 0
           \/ s.at = "over"
           \/ s.at = "fail" /\ s.mint = m /\ s.got = minting[n].got
  <2>1. CASE row.status = "PENDING" /\ want > 0
    <3> DEFINE s == [minting[n] EXCEPT !.at = "claim", !.want = want]
    <3>1. want \in Nat
      BY <1>4, <2>1 DEF Min2
    <3> HIDE DEF want
    <3>2. s \in Minting
      BY <1>3, <3>1 DEF Minting
    <3>3. minting' = [minting EXCEPT ![n] = s]
      BY <2>1 DEF StartMint, want
    <3> QED
      BY <2>1, <3>2, <3>3
  <2>2. CASE ~(row.status = "PENDING" /\ want > 0)
    <3>1. Unsettled(n)
      BY <2>2 DEF StartMint
    <3> QED
      BY <1>2, <3>1, UnsettledTo
  <2> QED
    BY <2>1, <2>2
<1>7. Live(s) => s.mint = m
  BY <1>3, <1>6 DEF Live, Minting
<1>8. w \notin disturbed =>
        /\ IF Live(s) THEN Underway(s, row, pieces[m]) ELSE Resting(row, pieces[m])
        /\ \A free \in Nat : FreeBound(free, claimed[w], minting[n], row.free) =>
             FreeBound(free, claimed[w], s, row.free)
  <2> SUFFICES ASSUME w \notin disturbed
               PROVE  /\ IF Live(s) THEN Underway(s, row, pieces[m]) ELSE Resting(row, pieces[m])
                      /\ \A free \in Nat : FreeBound(free, claimed[w], minting[n], row.free) =>
                           FreeBound(free, claimed[w], s, row.free)
    OBVIOUS
  <2>1. CASE s = [minting[n] EXCEPT !.at = "claim", !.want = want] /\ want > 0
    <3>1. s.at = "claim" /\ s.got = 0 /\ s.want = want
      BY <1>3, <1>5, <2>1 DEF Minting
    <3>2. want \in Nat /\ want <= row.quantity /\ (row.free => claimed[w] + want <= FreeLimit)
      BY <1>4, <2>1 DEF Min2
    <3> HIDE DEF want, w, row, m
    <3> QED
      BY <1>1, <1>4, <1>5, <3>1, <3>2 DEF Live, Underway, FreeBound, HoldingAt
  <2>2. CASE s.at = "over"
    BY <1>1, <1>5, <2>2 DEF Live, Resting, Done, FreeBound, HoldingAt
  <2>3. CASE s.at = "fail" /\ s.mint = m /\ s.got = minting[n].got
    BY <1>1, <1>5, <2>3 DEF Live, Underway, FreeBound, HoldingAt
  <2> QED
    BY <1>6, <2>1, <2>2, <2>3
<1> HIDE DEF want
<1> QED
  BY <1>1, <1>2, <1>6, <1>7, <1>8, RowsLeftKeeps DEF MintTypeOK, mintRows, mintHistory

\* It stops with what it got, or with nothing.
LEMMA StopKeeps == ASSUME MintsInv, NEW n \in MintNotes, StopClaiming(n) PROVE MintsInv'
<1> DEFINE m == minting[n].mint
           row == mint[m]
           w == row.wallet
<1>1. minting[n].at = "claim" /\ Settling(n) /\ UNCHANGED <<mintRows, mintHistory>>
  BY DEF StopClaiming, Settling
<1>2. MintTypeOK /\ MintInv /\ MintSound
  BY DEF MintsInv, MintInv, MintSound
<1>3. /\ minting[n] \in Minting /\ row \in Mint /\ w \in Minters
      /\ w \notin disturbed => Underway(minting[n], row, pieces[m])
  BY <1>1, <1>2, Before
<1>4. claimed[w] \in Nat /\ FreeLimit \in Nat /\ minting[n].got \in Nat
  BY <1>2, <1>3, MintLimits DEF MintTypeOK, Minting
<1>5. PICK s \in Minting :
        /\ minting' = [minting EXCEPT ![n] = s]
        /\ \/ s = [minting[n] EXCEPT !.at = "count"] /\ minting[n].got > 0
           \/ s.at = "over" /\ minting[n].got = 0
           \/ s.at = "fail" /\ s.mint = m /\ s.got = minting[n].got /\ minting[n].got = 0
  <2>1. CASE minting[n].got > 0
    <3> DEFINE s == [minting[n] EXCEPT !.at = "count"]
    <3>1. s \in Minting
      BY <1>3 DEF Minting
    <3>2. minting' = [minting EXCEPT ![n] = s]
      BY <2>1 DEF StopClaiming, GoMint
    <3> QED
      BY <2>1, <3>1, <3>2
  <2>2. CASE ~(minting[n].got > 0)
    <3>1. Unsettled(n) /\ minting[n].got = 0
      BY <1>4, <2>2 DEF StopClaiming
    <3> QED
      BY <1>2, <3>1, UnsettledTo
  <2> QED
    BY <2>1, <2>2
<1>6. Live(s) => s.mint = m
  BY <1>3, <1>5 DEF Live, Minting
<1>7. w \notin disturbed =>
        /\ IF Live(s) THEN Underway(s, row, pieces[m]) ELSE Resting(row, pieces[m])
        /\ \A free \in Nat : FreeBound(free, claimed[w], minting[n], row.free) =>
             FreeBound(free, claimed[w], s, row.free)
  <2> SUFFICES ASSUME w \notin disturbed
               PROVE  /\ IF Live(s) THEN Underway(s, row, pieces[m]) ELSE Resting(row, pieces[m])
                      /\ \A free \in Nat : FreeBound(free, claimed[w], minting[n], row.free) =>
                           FreeBound(free, claimed[w], s, row.free)
    OBVIOUS
  <2>1. Underway(minting[n], row, pieces[m])
    BY <1>3
  <2>2. CASE s = [minting[n] EXCEPT !.at = "count"] /\ minting[n].got > 0
    <3>1. s.at = "count" /\ s.got = minting[n].got /\ s.want = minting[n].want
      BY <1>3, <2>2 DEF Minting
    <3> QED
      BY <1>1, <2>1, <2>2, <3>1 DEF Live, Underway, FreeBound, HoldingAt
  <2>3. CASE s.at = "over" /\ minting[n].got = 0
    BY <1>1, <1>4, <2>1, <2>3 DEF Live, Underway, Resting, Done, FreeBound, HoldingAt
  <2>4. CASE s.at = "fail" /\ s.mint = m /\ s.got = minting[n].got /\ minting[n].got = 0
    BY <1>1, <1>4, <2>1, <2>4 DEF Live, Underway, FreeBound, HoldingAt
  <2> QED
    BY <1>5, <2>2, <2>3, <2>4
<1> QED
  BY <1>1, <1>2, <1>5, <1>6, <1>7, RowsLeftKeeps DEF MintTypeOK, mintRows, mintHistory

LEMMA CountKeeps == ASSUME MintsInv, NEW n \in MintNotes, CountPieces(n) PROVE MintsInv'
<1> DEFINE m == minting[n].mint
           row == mint[m]
           w == row.wallet
           s == [minting[n] EXCEPT !.at = "create"]
<1>1. /\ minting[n].at = "count" /\ Settling(n) /\ minting' = [minting EXCEPT ![n] = s]
      /\ UNCHANGED <<mint, unminted, pieces, tagged, claimed, disturbed, stacked, wasReset, mintFaults>>
      /\ minted' = minted + minting[n].got
  BY DEF CountPieces, Settling, GoMint, mintHistory
<1>2. MintTypeOK /\ MintInv
  BY DEF MintsInv, MintInv, MintSound
<1>3. /\ minting[n] \in Minting /\ w \in Minters
      /\ w \notin disturbed => Underway(minting[n], row, pieces[m])
  BY <1>1, <1>2, Before
<1>4. /\ s \in Minting /\ s.at = "create" /\ s.mint = m /\ s.got = minting[n].got
      /\ s.want = minting[n].want /\ minting[n].got \in Nat
  BY <1>3 DEF Minting
<1> HIDE DEF s
<1>5. w \notin disturbed =>
        /\ IF Live(s) THEN Underway(s, row, pieces[m]) ELSE Resting(row, pieces[m])
        /\ \A free \in Nat : FreeBound(free, claimed[w], minting[n], row.free) =>
             FreeBound(free, claimed[w], s, row.free)
  BY <1>1, <1>3, <1>4 DEF Live, Underway, FreeBound, HoldingAt
<1>6. /\ minted' \in Nat /\ unminted' \in Nat /\ tagged' \subseteq MintNotes /\ mintFaults' \in Nat
      /\ claimed' \in [Minters -> Nat] /\ disturbed' \subseteq Minters
  BY <1>1, <1>2, <1>4 DEF MintTypeOK
<1> QED
  BY <1>1, <1>2, <1>4, <1>5, <1>6, RowsLeftKeeps

\* What was got for free is counted; the count is within the limit.
LEMMA CountFreeKeeps == ASSUME MintsInv, NEW n \in MintNotes, CountFree(n) PROVE MintsInv'
<1> DEFINE m == minting[n].mint
           row == mint[m]
           w == row.wallet
           s == DoneSettling
<1>1. /\ minting[n].at = "free" /\ Settling(n) /\ minting' = [minting EXCEPT ![n] = s]
      /\ UNCHANGED <<mint, unminted, pieces, tagged, minted, disturbed, stacked, wasReset, mintFaults>>
      /\ claimed' = [claimed EXCEPT ![w] = @ + minting[n].got]
  BY DEF CountFree, Settling, EndMint, mintHistory, WalletOf
<1>2. MintTypeOK /\ MintInv
  BY DEF MintsInv, MintInv, MintSound
<1>3. /\ minting[n] \in Minting /\ w \in Minters /\ row \in Mint /\ m \in Mints
      /\ w \notin disturbed => Underway(minting[n], row, pieces[m])
  BY <1>1, <1>2, Before
<1>4. /\ minting[n].got \in Nat /\ minting[n].want \in Nat /\ claimed[w] \in Nat /\ FreeLimit \in Nat
      /\ row.quantity \in Nat
  BY <1>2, <1>3, MintLimits DEF Minting, MintTypeOK, Mint
<1>5. /\ s \in Minting /\ s.at = "over"
  BY DoneTyped
<1>6. /\ claimed'[w] = claimed[w] + minting[n].got
      /\ \A v \in Minters \ {w} : claimed'[v] = claimed[v]
      /\ claimed' \in [Minters -> Nat]
  BY <1>1, <1>2, <1>3, <1>4 DEF MintTypeOK
<1> HIDE DEF s
<1>7. w \notin disturbed =>
        /\ IF Live(s) THEN Underway(s, row, pieces[m]) ELSE Resting(row, pieces[m])
        /\ \A free \in Nat : FreeBound(free, claimed[w], minting[n], row.free) =>
             FreeBound(free, claimed'[w], s, row.free)
  <2> SUFFICES ASSUME w \notin disturbed
               PROVE  /\ IF Live(s) THEN Underway(s, row, pieces[m]) ELSE Resting(row, pieces[m])
                      /\ \A free \in Nat : FreeBound(free, claimed[w], minting[n], row.free) =>
                           FreeBound(free, claimed'[w], s, row.free)
    OBVIOUS
  <2>1. Underway(minting[n], row, pieces[m])
    BY <1>3
  <2>2. /\ row.status = "CREATED" /\ row.address # "asked" /\ row.free /\ pieces[m] = minting[n].got
        /\ minting[n].got > 0 /\ minting[n].got <= minting[n].want /\ minting[n].want <= row.quantity
    BY <1>1, <2>1 DEF Underway, HoldingAt
  <2> HIDE DEF m, row, w
  <2>3. IF Live(s) THEN Underway(s, row, pieces[m]) ELSE Resting(row, pieces[m])
    BY <1>4, <1>5, <2>2 DEF Live, Resting, Done
  <2>4. ASSUME NEW free \in Nat, FreeBound(free, claimed[w], minting[n], row.free)
        PROVE  FreeBound(free, claimed'[w], s, row.free)
    BY <1>1, <1>4, <1>5, <1>6, <2>2, <2>4 DEF FreeBound, HoldingAt
  <2> QED
    BY <2>3, <2>4
<1> QED
  BY <1>1, <1>2, <1>5, <1>6, <1>7, RowsLeftKeeps DEF MintTypeOK, Live

\* A wallet of which a statement throws is disturbed from then on.
LEMMA ThrowsKeeps == ASSUME MintsInv, NEW n \in MintNotes, MintThrows(n) PROVE MintsInv'
<1> DEFINE m == minting[n].mint
           w == mint[m].wallet
<1>1. /\ minting[n].at \in {"claim", "count", "create", "free"} /\ Settling(n) /\ Unsettled(n)
      /\ UNCHANGED <<mint, unminted, pieces, tagged, minted, claimed, stacked, wasReset>>
      /\ disturbed' = disturbed \cup {w} /\ mintFaults' = mintFaults + 1
  BY DEF MintThrows, Settling, WalletOf, mintRows, MintFault
<1>2. MintTypeOK /\ MintInv /\ MintSound
  BY DEF MintsInv, MintInv, MintSound
<1>3. w \in Minters
  BY <1>1, <1>2, Before
<1>4. PICK s \in Minting : /\ minting' = [minting EXCEPT ![n] = s]
                           /\ s.at = "over" \/ (s.at = "fail" /\ s.mint = m)
  BY <1>1, <1>2, UnsettledTo
<1>5. /\ minted' \in Nat /\ unminted' \in Nat /\ tagged' \subseteq MintNotes /\ mintFaults' \in Nat
      /\ claimed' \in [Minters -> Nat] /\ disturbed' \subseteq Minters
  BY <1>1, <1>2, <1>3 DEF MintTypeOK
<1>6. Live(s) => s.mint = m
  BY <1>4 DEF Live
<1> QED
  BY <1>1, <1>4, <1>5, <1>6, RowsLeftKeeps

\* Nor does a step that writes its row break anything, under the same condition.
LEMMA RowWritesKeep ==
  ASSUME MintsInv, NEW n \in MintNotes, NEW s \in Minting, NEW row \in Mint, NEW held \in Nat,
         SettleTo(n, s, row, held), UNCHANGED <<minted, claimed, mintHistory>>,
         unminted' \in Nat, tagged' \subseteq MintNotes,
         LET old == mint[minting[n].mint]
             had == pieces[minting[n].mint] IN
         row.wallet \notin disturbed =>
           /\ IF Live(s) THEN Underway(s, row, held) ELSE Resting(row, held)
           /\ \A free \in Nat : FreeBound(free, claimed[row.wallet], minting[n], row.free) =>
                FreeBound(IF row.free THEN free - had + held ELSE free, claimed[row.wallet], s, row.free)
           /\ \/ /\ Done(row) <=> Done(old)
                 /\ Done(row) => held = had
                 /\ row.status = "PENDING" => old.status = "PENDING" /\ row.quantity = old.quantity
              \/ old.status = "PENDING" /\ Done(row) /\ held <= old.quantity
  PROVE  MintsInv'
<1> DEFINE m == minting[n].mint
           old == mint[m]
           had == pieces[m]
<1>1. MintInv /\ MintSound /\ MintTypeOK /\ FreeInv /\ LimitInv
  BY DEF MintsInv, MintInv, MintSound
<1>2. /\ minted' \in Nat /\ claimed' \in [Minters -> Nat] /\ mintFaults' \in Nat /\ disturbed' \subseteq Minters
      /\ UNCHANGED <<stacked, wasReset>> /\ disturbed' = disturbed /\ claimed' = claimed
  BY <1>1 DEF MintTypeOK, mintHistory
<1>3. row.wallet \notin disturbed =>
        IF Live(s) THEN Underway(s, row, held) ELSE Resting(row, held)
  OBVIOUS
<1>4. row.wallet \notin disturbed =>
        \A free \in Nat : FreeBound(free, claimed[row.wallet], minting[n], row.free) =>
          FreeBound(IF row.free THEN free - had + held ELSE free, claimed[row.wallet], s, row.free)
  OBVIOUS
<1>5. LET x == minting[n].mint IN row.wallet \notin disturbed =>
           \/ /\ Done(row) <=> Done(mint[x])
              /\ Done(row) => held = pieces[x]
              /\ row.status = "PENDING" => mint[x].status = "PENDING" /\ row.quantity = mint[x].quantity
           \/ mint[x].status = "PENDING" /\ Done(row) /\ held <= mint[x].quantity
  OBVIOUS
<1>6. had \in Nat
  BY <1>1, Before DEF SettleTo
<1>7. \A free \in Nat : IF row.free THEN free - had + held = free - FreeOf(row, had, row.wallet) + FreeOf(row, held, row.wallet)
                        ELSE free = free - FreeOf(row, had, row.wallet) + FreeOf(row, held, row.wallet)
  BY <1>6 DEF FreeOf
<1>8. row.wallet \notin disturbed /\ ~wasReset =>
        \A free \in Nat : FreeBound(free, claimed[row.wallet], minting[n], row.free) =>
          FreeBound(free - FreeOf(row, pieces[minting[n].mint], row.wallet) + FreeOf(row, held, row.wallet),
                    claimed'[row.wallet], s, row.free)
  BY <1>2, <1>4, <1>7
<1> HIDE DEF had, old, m
<1>9. MintSound'
  BY <1>1, <1>2, SettleSound
<1>10. SettlesAlone' /\ InOrder' /\ AtRest'
  BY <1>1, <1>2, <1>3, SettleKeeps
<1>11. FreeInv'
  BY <1>1, <1>2, <1>8, SettleFree
<1>12. LimitInv'
  BY <1>1, <1>2, <1>5, SettleLimit
<1> QED
  BY <1>9, <1>10, <1>11, <1>12 DEF MintsInv, MintInv

\* One more piece is in hand and on the row, within what was wanted.
LEMMA ClaimKeeps == ASSUME MintsInv, NEW n \in MintNotes, ClaimPiece(n) PROVE MintsInv'
<1> DEFINE m == minting[n].mint
           row == mint[m]
           held == pieces[m] + 1
           s == [minting[n] EXCEPT !.got = @ + 1]
<1>1. /\ minting[n].at = "claim" /\ Settling(n) /\ minting' = [minting EXCEPT ![n] = s]
      /\ UNCHANGED <<mint, minted, claimed, mintHistory>> /\ pieces' = [pieces EXCEPT ![m] = held]
      /\ minting[n].got < minting[n].want /\ unminted > 0 /\ unminted' = unminted - 1
      /\ tagged' = tagged \cup {n}
  BY DEF ClaimPiece, Settling
<1>2. MintTypeOK /\ MintInv
  BY DEF MintsInv, MintInv, MintSound
<1>3. /\ minting[n] \in Minting /\ row \in Mint /\ m \in Mints /\ pieces[m] \in Nat
      /\ row.status \notin {"NONE", "OWNER"}
      /\ row.wallet \notin disturbed => Underway(minting[n], row, pieces[m])
  BY <1>1, <1>2, Before
<1>4. /\ s \in Minting /\ s.at = "claim" /\ s.got = minting[n].got + 1 /\ s.want = minting[n].want
      /\ s.mint = m /\ minting[n].got \in Nat /\ minting[n].want \in Nat
  BY <1>1, <1>3 DEF Minting
<1>5. mint' = [mint EXCEPT ![m] = row] /\ held \in Nat
  BY <1>1, <1>2, <1>3 DEF MintTypeOK
<1>6. unminted' \in Nat /\ tagged' \subseteq MintNotes
  BY <1>1, <1>2 DEF MintTypeOK
<1> HIDE DEF s
<1>7. SettleTo(n, s, row, held)
  BY <1>1, <1>3, <1>4, <1>5 DEF SettleTo, RowTo
<1>8. claimed \in [Minters -> Nat] /\ row.wallet \in Minters
  BY <1>2, <1>3 DEF MintTypeOK, Mint
<1>9. row.wallet \notin disturbed =>
        /\ IF Live(s) THEN Underway(s, row, held) ELSE Resting(row, held)
        /\ \A free \in Nat : FreeBound(free, claimed[row.wallet], minting[n], row.free) =>
             FreeBound(IF row.free THEN free - pieces[m] + held ELSE free, claimed[row.wallet], s, row.free)
        /\ Done(row) => held = pieces[m]
  <2> SUFFICES ASSUME row.wallet \notin disturbed
               PROVE  /\ IF Live(s) THEN Underway(s, row, held) ELSE Resting(row, held)
                      /\ \A free \in Nat : FreeBound(free, claimed[row.wallet], minting[n], row.free) =>
                           FreeBound(IF row.free THEN free - pieces[m] + held ELSE free, claimed[row.wallet], s, row.free)
                      /\ Done(row) => held = pieces[m]
    OBVIOUS
  <2>1. Underway(minting[n], row, pieces[m])
    BY <1>3
  <2>2. claimed[row.wallet] \in Nat /\ row.quantity \in Nat
    BY <1>3, <1>8 DEF Mint
  <2>3. held = pieces[m] + 1
    OBVIOUS
  <2>4. IF Live(s) THEN Underway(s, row, held) ELSE Resting(row, held)
    BY <1>1, <1>3, <1>4, <2>1, <2>2, <2>3 DEF Live, Underway, HoldingAt
  <2>5. Done(row) => held = pieces[m]
    BY <1>1, <2>1 DEF Underway, Done
  <2> HIDE DEF row, held, m
  <2>6. ASSUME NEW free \in Nat, FreeBound(free, claimed[row.wallet], minting[n], row.free)
        PROVE  FreeBound(IF row.free THEN free - pieces[m] + held ELSE free, claimed[row.wallet], s, row.free)
    <3>1. CASE row.free
      BY <1>1, <1>3, <1>4, <2>2, <2>3, <2>6, <3>1 DEF FreeBound, HoldingAt
    <3>2. CASE ~row.free
      BY <1>1, <1>4, <2>6, <3>2 DEF FreeBound, HoldingAt
    <3> QED
      BY <3>1, <3>2
  <2> QED
    BY <2>4, <2>5, <2>6
<1>10. row = mint[minting[n].mint] /\ pieces[m] = pieces[minting[n].mint]
  OBVIOUS
<1> HIDE DEF row, held, m
<1> QED
  BY <1>1, <1>3, <1>4, <1>5, <1>6, <1>7, <1>9, <1>10, RowWritesKeep

\* The row is completed with what was got; a free one is counted yet.
LEMMA CompleteKeeps == ASSUME MintsInv, NEW n \in MintNotes, CompleteMint(n) PROVE MintsInv'
<1> DEFINE m == minting[n].mint
           old == mint[m]
           row == [old EXCEPT !.status = "CREATED"]
           held == pieces[m]
           w == old.wallet
<1>1. /\ minting[n].at = "create" /\ Settling(n)
      /\ UNCHANGED <<unminted, pieces, tagged, minted, claimed, mintHistory>>
  BY DEF CompleteMint, Settling
<1>2. MintTypeOK /\ MintInv /\ MintSound
  BY DEF MintsInv, MintInv, MintSound
<1>3. /\ minting[n] \in Minting /\ old \in Mint /\ m \in Mints /\ held \in Nat /\ w \in Minters
      /\ w \notin disturbed => Underway(minting[n], old, held)
  BY <1>1, <1>2, Before
<1>4. w \notin disturbed =>
        /\ old.status = "PENDING" /\ old.address # "asked" /\ held = minting[n].got /\ held > 0
        /\ held <= minting[n].want /\ minting[n].want <= old.quantity
  BY <1>1, <1>3 DEF Underway, HoldingAt
<1>5. /\ minted' \in Nat /\ unminted' \in Nat /\ tagged' \subseteq MintNotes /\ mintFaults' \in Nat
      /\ claimed' \in [Minters -> Nat] /\ disturbed' \subseteq Minters
      /\ UNCHANGED <<stacked, wasReset>> /\ disturbed' = disturbed
  BY <1>1, <1>2 DEF MintTypeOK, mintHistory
<1>6. CASE old.status = "DELETED"
  <2>1. mint' = mint /\ Unsettled(n)
    BY <1>6 DEF CompleteMint
  <2>2. PICK s \in Minting : /\ minting' = [minting EXCEPT ![n] = s]
                             /\ s.at = "over" \/ (s.at = "fail" /\ s.mint = m)
    BY <1>2, <2>1, UnsettledTo
  <2>3. w \in disturbed /\ (Live(s) => s.mint = m)
    BY <1>4, <1>6, <2>2 DEF Live
  <2> QED
    BY <1>1, <1>5, <2>1, <2>2, <2>3, RowsLeftKeeps
<1>7. CASE old.status # "DELETED"
  <2>1. /\ row \in Mint /\ row.status = "CREATED" /\ row.wallet = w /\ row.free = old.free
        /\ row.quantity = old.quantity /\ row.address = old.address
    BY <1>3 DEF Mint
  <2>2. mint' = [mint EXCEPT ![m] = row] /\ pieces' = [pieces EXCEPT ![m] = held]
    BY <1>1, <1>2, <1>7 DEF CompleteMint, MintTypeOK
  <2>3. PICK s \in Minting : /\ minting' = [minting EXCEPT ![n] = s]
                             /\ IF old.free THEN s = [minting[n] EXCEPT !.at = "free"] ELSE s.at = "over"
    <3>1. CASE old.free
      <4>1. [minting[n] EXCEPT !.at = "free"] \in Minting
        BY <1>3 DEF Minting
      <4> QED
        BY <1>7, <3>1, <4>1 DEF CompleteMint, GoMint
    <3>2. CASE ~old.free
      BY <1>7, <3>2, DoneTyped DEF CompleteMint, EndMint
    <3> QED
      BY <3>1, <3>2
  <2>4. /\ old.free => s.at = "free" /\ s.mint = m /\ s.got = minting[n].got /\ s.want = minting[n].want
        /\ ~old.free => s.at = "over"
    BY <1>3, <2>3 DEF Minting
  <2>5. SettleTo(n, s, row, held)
    BY <1>1, <2>1, <2>2, <2>3, <2>4 DEF SettleTo, RowTo, Live
  <2>6. minting[n].got \in Nat /\ minting[n].want \in Nat /\ old.quantity \in Nat
    BY <1>3 DEF Minting, Mint
  <2> HIDE DEF row
  <2>7. w \notin disturbed =>
          /\ IF Live(s) THEN Underway(s, row, held) ELSE Resting(row, held)
          /\ \A free \in Nat : FreeBound(free, claimed[w], minting[n], row.free) =>
               FreeBound(IF row.free THEN free - held + held ELSE free, claimed[w], s, row.free)
          /\ old.status = "PENDING" /\ Done(row) /\ held <= old.quantity
    <3> SUFFICES ASSUME w \notin disturbed
                 PROVE  /\ IF Live(s) THEN Underway(s, row, held) ELSE Resting(row, held)
                        /\ \A free \in Nat : FreeBound(free, claimed[w], minting[n], row.free) =>
                             FreeBound(IF row.free THEN free - held + held ELSE free, claimed[w], s, row.free)
                        /\ old.status = "PENDING" /\ Done(row) /\ held <= old.quantity
      OBVIOUS
    <3> HIDE DEF held, old, m, w
    <3>1. \A free \in Nat : (IF row.free THEN free - held + held ELSE free) = free
      BY <1>3
    <3>2. IF Live(s) THEN Underway(s, row, held) ELSE Resting(row, held)
      BY <1>3, <1>4, <2>1, <2>4, <2>6 DEF Live, Underway, Resting, Done, HoldingAt
    <3>3. old.status = "PENDING" /\ Done(row) /\ held <= old.quantity
      BY <1>3, <1>4, <2>1, <2>6 DEF Done
    <3>4. ASSUME NEW free \in Nat, FreeBound(free, claimed[w], minting[n], row.free)
          PROVE  FreeBound(free, claimed[w], s, row.free)
      BY <1>1, <2>1, <2>4, <3>4 DEF FreeBound, HoldingAt
    <3> QED
      BY <3>1, <3>2, <3>3, <3>4
  <2>8. old = mint[minting[n].mint] /\ held = pieces[minting[n].mint] /\ row.wallet = w
    BY <2>1
  <2> HIDE DEF old, held, m, w
  <2> QED
    BY <1>1, <1>3, <1>5, <2>1, <2>3, <2>5, <2>7, <2>8, RowWritesKeep
<1> QED
  BY <1>6, <1>7

\* What fails has nothing.
LEMMA FailKeeps == ASSUME MintsInv, NEW n \in MintNotes, FailMint(n) PROVE MintsInv'
<1> DEFINE m == minting[n].mint
           old == mint[m]
           row == [old EXCEPT !.status = IF @ = "DELETED" THEN @ ELSE "FAILED"]
           held == pieces[m]
           w == old.wallet
           s == DoneSettling
<1>1. /\ minting[n].at = "fail" /\ Settling(n)
      /\ UNCHANGED <<unminted, pieces, tagged, minted, claimed, mintHistory>>
      /\ mint' = [mint EXCEPT ![m].status = IF @ = "DELETED" THEN @ ELSE "FAILED"]
      /\ minting' = [minting EXCEPT ![n] = s]
  BY DEF FailMint, Settling, EndMint
<1>2. MintTypeOK /\ MintInv
  BY DEF MintsInv, MintInv, MintSound
<1>3. /\ minting[n] \in Minting /\ old \in Mint /\ m \in Mints /\ held \in Nat /\ w \in Minters
      /\ w \notin disturbed => Underway(minting[n], old, held)
  BY <1>1, <1>2, Before
<1>4. w \notin disturbed => old.status = "PENDING" /\ old.address # "asked" /\ held = 0
  BY <1>1, <1>3 DEF Underway, HoldingAt
<1>5. unminted' \in Nat /\ tagged' \subseteq MintNotes
  BY <1>1, <1>2 DEF MintTypeOK
<1>6. /\ row \in Mint /\ row.status = (IF old.status = "DELETED" THEN "DELETED" ELSE "FAILED")
      /\ row.wallet = w /\ row.free = old.free /\ row.address = old.address
  BY <1>3 DEF Mint
<1>7. mint' = [mint EXCEPT ![m] = row] /\ pieces' = [pieces EXCEPT ![m] = held]
  BY <1>1, <1>2 DEF MintTypeOK
<1>8. s \in Minting /\ s.at = "over"
  BY DoneTyped
<1> HIDE DEF row, s
<1>9. SettleTo(n, s, row, held)
  BY <1>1, <1>6, <1>7, <1>8 DEF SettleTo, RowTo, Live
<1>10. w \notin disturbed =>
        /\ IF Live(s) THEN Underway(s, row, held) ELSE Resting(row, held)
        /\ \A free \in Nat : FreeBound(free, claimed[w], minting[n], row.free) =>
             FreeBound(IF row.free THEN free - held + held ELSE free, claimed[w], s, row.free)
        /\ (Done(row) <=> Done(old)) /\ ~Done(row) /\ row.status # "PENDING"
  <2> SUFFICES ASSUME w \notin disturbed
               PROVE  /\ IF Live(s) THEN Underway(s, row, held) ELSE Resting(row, held)
                      /\ \A free \in Nat : FreeBound(free, claimed[w], minting[n], row.free) =>
                           FreeBound(IF row.free THEN free - held + held ELSE free, claimed[w], s, row.free)
                      /\ (Done(row) <=> Done(old)) /\ ~Done(row) /\ row.status # "PENDING"
    OBVIOUS
  <2> HIDE DEF held, old, m, w
  <2>1. \A free \in Nat : (IF row.free THEN free - held + held ELSE free) = free
    BY <1>3
  <2>2. IF Live(s) THEN Underway(s, row, held) ELSE Resting(row, held)
    BY <1>3, <1>4, <1>6, <1>8 DEF Live, Resting, Done
  <2>3. (Done(row) <=> Done(old)) /\ ~Done(row) /\ row.status # "PENDING"
    BY <1>3, <1>4, <1>6 DEF Done
  <2>4. ASSUME NEW free \in Nat, FreeBound(free, claimed[w], minting[n], row.free)
        PROVE  FreeBound(free, claimed[w], s, row.free)
    BY <1>1, <1>8, <2>4 DEF FreeBound, HoldingAt
  <2> QED
    BY <2>1, <2>2, <2>3, <2>4
<1>11. old = mint[minting[n].mint] /\ held = pieces[minting[n].mint] /\ row.wallet = w
  BY <1>6
<1> HIDE DEF old, held, m, w
<1> QED
  BY <1>1, <1>3, <1>5, <1>6, <1>8, <1>9, <1>10, <1>11, RowWritesKeep

-----------------------------------------------------------------------------
(* What happens beside the settlements.                                    *)

\* A settlement that begins beside no other one of its wallet finds its row at rest.
LEMMA BeginKeeps == ASSUME MintsInv, NEW n \in MintNotes, NEW m \in Mints, NEW admin \in BOOLEAN, BeginMint(n, m, admin)
                    PROVE  MintsInv'
<1> DEFINE s == [NotSettling EXCEPT !.mint = m, !.admin = admin, !.at = "start"]
           w == mint[m].wallet
<1>1. MintTypeOK /\ MintInv /\ MintSound /\ FreeInv /\ LimitInv
  BY DEF MintsInv, MintInv, MintSound
<1>2. /\ ~Settling(n) /\ mint[m].status = "PENDING" /\ minting' = [minting EXCEPT ![n] = s]
      /\ disturbed' \in {disturbed, disturbed \cup {w}} /\ (Busy(w) => w \in disturbed')
      /\ UNCHANGED <<mint, unminted, pieces, tagged, minted, claimed, stacked, wasReset, mintFaults>>
  BY DEF BeginMint, mintRows
<1>3. s \in Minting /\ s.mint = m /\ s.at = "start" /\ s.got = 0
  BY DEF NotSettling, Minting
<1> HIDE DEF s
<1>4. minting'[n] = s /\ \A k \in MintNotes \ {n} : minting'[k] = minting[k]
  BY <1>1, <1>2 DEF MintTypeOK
<1>5. w \in Minters
  BY <1>1 DEF MintTypeOK, Mint
<1>6. MintSound'
  <2>1. MintTypeOK'
    BY <1>1, <1>2, <1>3, <1>4, <1>5 DEF MintTypeOK
  <2>2. RowsSound'
    BY <1>1, <1>2 DEF MintSound, RowsSound
  <2>3. SettlesRow'
    BY <1>1, <1>2, <1>3, <1>4 DEF MintSound, SettlesRow, Settling
  <2> QED
    BY <2>1, <2>2, <2>3 DEF MintSound
<1>7. Settling(n)' /\ WalletOf(n)' = w
  BY <1>2, <1>3, <1>4 DEF Settling, WalletOf
<1>8. \A k \in MintNotes \ {n} : (Settling(k)' <=> Settling(k)) /\ WalletOf(k)' = WalletOf(k)
  BY <1>2, <1>4 DEF Settling, WalletOf
<1>9. w \notin disturbed' => /\ \A k \in MintNotes : Settling(k) => WalletOf(k) # w
                             /\ mint[m].address # "asked"
  BY <1>2 DEF Busy
<1>10. SettlesAlone'
  BY <1>1, <1>2, <1>7, <1>8, <1>9 DEF MintInv, SettlesAlone
<1>11. InOrder'
  <2>1. ASSUME w \notin disturbed' PROVE Underway(s, mint[m], pieces[m])
    <3>1. ~InProgress(m)
      BY <1>9, <2>1 DEF InProgress, WalletOf
    <3>2. Resting(mint[m], pieces[m])
      BY <1>1, <1>2, <2>1, <3>1 DEF MintInv, AtRest
    <3> QED
      BY <1>2, <1>3, <1>9, <2>1, <3>2 DEF Resting, Underway, HoldingAt, Done
  <2>2. ASSUME NEW k \in MintNotes \ {n}, Settling(k)', WalletOf(k)' \notin disturbed'
        PROVE  Underway(minting[k], mint[minting[k].mint], pieces[minting[k].mint])'
    <3>1. Settling(k) /\ WalletOf(k) \notin disturbed
      BY <1>2, <1>8, <2>2
    <3>2. Underway(minting[k], mint[minting[k].mint], pieces[minting[k].mint])
      BY <1>1, <3>1 DEF MintInv, InOrder
    <3> QED
      BY <1>2, <1>4, <3>2
  <2>3. w \notin disturbed' => Underway(minting[n], mint[minting[n].mint], pieces[minting[n].mint])'
    BY <1>2, <1>3, <1>4, <2>1
  <2> QED
    BY <1>7, <2>2, <2>3 DEF InOrder
<1>12. AtRest'
  <2> SUFFICES ASSUME NEW x \in Mints, mint'[x].wallet \notin disturbed', ~InProgress(x)'
               PROVE  Resting(mint[x], pieces[x])'
    BY DEF AtRest
  <2>1. ~InProgress(x)
    BY <1>2, <1>4, <1>8 DEF InProgress
  <2>2. Resting(mint[x], pieces[x])
    BY <1>1, <1>2, <2>1 DEF MintInv, AtRest
  <2> QED
    BY <1>2, <2>2
<1>13. FreeInv'
  <2>1. \A v : FreePieces(v)' = FreePieces(v)
    BY <1>2 DEF FreePieces
  <2>2. \A v : \A k \in MintNotes : FreeHeld(k, v)' <=> FreeHeld(k, v)
    <3>1. \A v : ~FreeHeld(n, v) /\ ~FreeHeld(n, v)'
      BY <1>2, <1>3, <1>4 DEF FreeHeld, HoldingAt, Settling
    <3>2. \A v : \A k \in MintNotes \ {n} : FreeHeld(k, v)' <=> FreeHeld(k, v)
      BY <1>2, <1>4, <1>8 DEF FreeHeld
    <3> QED
      BY <3>1, <3>2
  <2>3. \A v : \A k \in MintNotes : FreeHeld(k, v) => minting'[k] = minting[k]
    BY <1>2, <1>4 DEF FreeHeld, HoldingAt, Settling
  <2> SUFFICES ASSUME ~wasReset, NEW v \in Minters \ disturbed' PROVE FreeAt(v)'
    BY <1>2 DEF FreeInv
  <2>4. FreeAt(v)
    BY <1>1, <1>2 DEF FreeInv
  <2> QED
    BY <1>2, <2>1, <2>2, <2>3, <2>4 DEF FreeAt
<1>14. LimitInv'
  <2>1. \A v : LimitAt(v)' <=> LimitAt(v)
    BY <1>2 DEF LimitAt, DoneMints, DonePieces
  <2> QED
    BY <1>1, <1>2, <2>1 DEF LimitInv
<1> QED
  BY <1>6, <1>10, <1>11, <1>12, <1>13, <1>14 DEF MintsInv, MintInv

\* A row that is written while nobody settles it, or by a wallet that was disturbed.
RowBeside(m, row, held) ==
  /\ RowTo(m, row, held) /\ UNCHANGED <<claimed, minting, disturbed, wasReset>>
  /\ row.wallet # mint[m].wallet \/ row.free # mint[m].free => ~InProgress(m)
  /\ row.wallet \notin disturbed => ~InProgress(m) /\ Resting(row, held)
  /\ \A w \in Minters \ disturbed : FreeOf(row, held, w) = FreeOf(mint[m], pieces[m], w)

LEMMA BesideKeeps == ASSUME MintsInv, NEW m \in Mints, NEW row \in Mint, NEW held \in Nat, RowBeside(m, row, held)
                     PROVE  SettlesAlone' /\ InOrder' /\ AtRest' /\ FreeInv'
<1>1. MintTypeOK /\ MintInv /\ FreeInv
  BY DEF MintsInv, MintInv, MintSound
<1>2. RowTo(m, row, held) /\ UNCHANGED <<claimed, minting, disturbed, wasReset>>
  BY DEF RowBeside
<1>3. /\ mint'[m] = row /\ pieces'[m] = held
      /\ \A x \in Mints \ {m} : mint'[x] = mint[x] /\ pieces'[x] = pieces[x]
  BY <1>1, <1>2, RowWritten
<1>4. \A k \in MintNotes : Settling(k)' <=> Settling(k)
  BY <1>2 DEF Settling
<1>5. \A k \in MintNotes : Settling(k) => minting[k].mint \in Mints
  BY <1>1 DEF MintInv, MintSound, SettlesRow
<1>6. \A k \in MintNotes : Settling(k) => /\ WalletOf(k)' = WalletOf(k)
                                          /\ mint'[minting[k].mint].free = mint[minting[k].mint].free
  <2> SUFFICES ASSUME NEW k \in MintNotes, Settling(k)
               PROVE  WalletOf(k)' = WalletOf(k) /\ mint'[minting[k].mint].free = mint[minting[k].mint].free
    OBVIOUS
  <2>1. CASE minting[k].mint = m
    BY <1>2, <1>3, <2>1 DEF RowBeside, InProgress, WalletOf
  <2>2. CASE minting[k].mint # m
    BY <1>2, <1>3, <1>5, <2>2 DEF WalletOf
  <2> QED
    BY <2>1, <2>2
<1>7. SettlesAlone'
  BY <1>1, <1>2, <1>4, <1>6 DEF MintInv, SettlesAlone
<1>8. InOrder'
  <2> SUFFICES ASSUME NEW k \in MintNotes, Settling(k), WalletOf(k) \notin disturbed
               PROVE  Underway(minting[k], mint[minting[k].mint], pieces[minting[k].mint])'
    BY <1>2, <1>4, <1>6 DEF InOrder
  <2>1. minting[k].mint \in Mints \ {m}
    BY <1>3, <1>5, <1>6 DEF RowBeside, InProgress, WalletOf
  <2>2. Underway(minting[k], mint[minting[k].mint], pieces[minting[k].mint])
    BY <1>1 DEF MintInv, InOrder
  <2> QED
    BY <1>2, <1>3, <2>1, <2>2
<1>9. AtRest'
  <2> SUFFICES ASSUME NEW x \in Mints, mint'[x].wallet \notin disturbed, ~InProgress(x)
               PROVE  Resting(mint[x], pieces[x])'
    BY <1>2, <1>4 DEF AtRest, InProgress
  <2>1. CASE x = m
    BY <1>3, <2>1 DEF RowBeside
  <2>2. CASE x # m
    BY <1>1, <1>3, <2>2 DEF MintInv, AtRest
  <2> QED
    BY <2>1, <2>2
<1>10. FreeInv'
  <2> SUFFICES ASSUME ~wasReset, NEW w \in Minters \ disturbed PROVE FreeAt(w)'
    BY <1>2 DEF FreeInv
  <2>1. FreeOf(row, held, w) = FreeOf(mint[m], pieces[m], w)
    BY DEF RowBeside
  <2>2. FreeOf(mint[m], pieces[m], w) \in Nat
    BY <1>1 DEF MintTypeOK, FreeOf
  <2>3. FreePieces(w)' = FreePieces(w)
    BY <1>1, <1>2, <2>1, <2>2, FreeMoves
  <2>4. \A k \in MintNotes : FreeHeld(k, w)' <=> FreeHeld(k, w)
    <3>1. \A k \in MintNotes : HoldingAt(minting[k].at) => Settling(k)
      BY DEF HoldingAt, Settling
    <3> QED
      BY <1>2, <1>6, <3>1 DEF FreeHeld
  <2>5. FreeAt(w)
    BY <1>1 DEF FreeInv
  <2> QED
    BY <1>2, <2>3, <2>4, <2>5 DEF FreeAt
<1> QED
  BY <1>7, <1>8, <1>9, <1>10

\* Completed rows of a wallet that was not disturbed have pieces, and a row that nobody
\* asked for or that an owner asked for is not settled by anyone.
LEMMA RowKnown == ASSUME MintInv, NEW m \in Mints
                  PROVE  /\ mint[m] \in Mint /\ pieces[m] \in Nat /\ mint[m].wallet \in Minters
                         /\ mint[m].status \in {"NONE", "OWNER"} => ~InProgress(m)
                         /\ mint[m].wallet \notin disturbed =>
                              /\ mint[m].address = "asked" => ~InProgress(m)
                              /\ mint[m].status = "OWNED" => ~InProgress(m)
                              /\ ~InProgress(m) => Resting(mint[m], pieces[m])
                              /\ Done(mint[m]) => pieces[m] > 0
<1>1. mint[m] \in Mint /\ pieces[m] \in Nat /\ mint[m].wallet \in Minters
  BY DEF MintInv, MintSound, MintTypeOK, Mint
<1>2. mint[m].status \in {"NONE", "OWNER"} => ~InProgress(m)
  BY DEF MintInv, MintSound, SettlesRow, InProgress
<1>3. ASSUME mint[m].wallet \notin disturbed, InProgress(m)
      PROVE  /\ mint[m].address # "asked" /\ mint[m].status # "OWNED"
             /\ Done(mint[m]) => pieces[m] > 0
  <2>1. PICK n \in MintNotes : Settling(n) /\ minting[n].mint = m
    BY <1>3 DEF InProgress
  <2>2. Underway(minting[n], mint[m], pieces[m])
    BY <1>3, <2>1 DEF MintInv, InOrder, WalletOf
  <2> QED
    BY <2>2 DEF Underway, Done
<1>4. mint[m].wallet \notin disturbed /\ ~InProgress(m) => Resting(mint[m], pieces[m])
  BY DEF MintInv, AtRest
<1> QED
  BY <1>1, <1>2, <1>3, <1>4 DEF Resting

\* The route counts at least as many as the wallet has completed rows.
LEMMA CountsDone == ASSUME MintInv, NEW w \in Minters \ disturbed
                    PROVE  Cardinality(DoneMints(w)) <= MintCount(w)
<1> DEFINE C == MintsOf(w, "CREATED")
           O == MintsOf(w, "OWNED")
<1>1. MintTypeOK
  BY DEF MintInv, MintSound
<1>2. IsFiniteSet(C) /\ IsFiniteSet(O) /\ O \subseteq Mints
  BY <1>1, CountNat
<1>3. DoneMints(w) = C \cup O /\ C \cap O = {}
  BY DEF DoneMints, Done, MintsOf
<1>4. \A m \in O : pieces[m] \in Nat \ {0}
  <2>1. ASSUME NEW m \in O PROVE pieces[m] \in Nat /\ pieces[m] > 0
    BY <1>2, RowKnown DEF MintsOf, Done
  <2> QED
    BY <2>1
<1>5. claimed[w] \in Nat
  BY <1>1 DEF MintTypeOK
<1>6. Cardinality(C) \in Nat /\ Cardinality(O) \in Nat
  BY <1>2, FS_CardinalityType
<1> HIDE DEF C, O
<1>7. Cardinality(C \cup O) = Cardinality(C) + Cardinality(O)
  <2>1. Cardinality(C \cap O) = 0
    BY <1>3, FS_EmptySet
  <2>2. Cardinality(C \cup O) = Cardinality(C) + Cardinality(O) - Cardinality(C \cap O)
    BY <1>2, FS_Union
  <2> QED
    BY <1>6, <2>1, <2>2
<1>8. SumFunctionOnSet(pieces, O) \in Nat /\ Cardinality(O) <= SumFunctionOnSet(pieces, O)
  BY <1>2, <1>4, SumCard, SumNat
<1>9. MintCount(w) = Cardinality(C) + claimed[w] + SumFunctionOnSet(pieces, O)
  BY DEF MintCount, PiecesOf, C, O
<1> QED
  BY <1>3, <1>5, <1>6, <1>7, <1>8, <1>9

\* The request that the route lets through is for what the wallet's count leaves.
LEMMA AskKeeps == ASSUME MintsInv, NEW m \in Mints, NEW w \in Minters, NEW q \in Quantities, NEW phase \in Phases,
                         AskMint(m, w, q, phase)
                  PROVE  MintsInv'
<1>1. MintTypeOK /\ MintInv /\ MintSound /\ LimitInv
  BY DEF MintsInv, MintInv, MintSound
<1>2. PICK row \in Mint : /\ mint' = [mint EXCEPT ![m] = row]
                          /\ row.wallet = w /\ row.quantity <= WalletLimit - MintCount(w)
                          /\ \/ row.status = "PENDING" /\ row.address = "asked"
                             \/ row.status = "OWNER" /\ row.address = "none" /\ ~row.free
  BY <1>1, Granted
<1>3. /\ mint[m].status = "NONE" /\ stacked' = (IF Open(w) THEN stacked \cup {w} ELSE stacked)
      /\ UNCHANGED <<unminted, pieces, tagged, minted, claimed, minting, disturbed, wasReset, mintFaults>>
  BY DEF AskMint
<1>4. pieces[m] = 0 /\ ~InProgress(m) /\ ~Done(mint[m])
  BY <1>1, <1>3, RowKnown DEF MintSound, RowsSound, Done
<1>5. RowTo(m, row, 0)
  BY <1>1, <1>2, <1>3, <1>4 DEF RowTo, MintTypeOK
<1>6. Resting(row, 0) /\ ~Done(row)
  BY <1>2 DEF Resting, Done
<1>7. RowBeside(m, row, 0)
  BY <1>3, <1>4, <1>5, <1>6 DEF RowBeside, FreeOf
<1>8. MintSound'
  BY <1>1, RowSteps
<1>9. SettlesAlone' /\ InOrder' /\ AtRest' /\ FreeInv'
  BY <1>7, BesideKeeps
<1>10. LimitInv'
  <2> SUFFICES ASSUME ~wasReset, NEW v \in Minters \ (disturbed \cup stacked') PROVE LimitAt(v)'
    BY <1>3 DEF LimitInv
  <2>1. LimitAt(v) /\ v \notin disturbed
    BY <1>1, <1>3 DEF LimitInv
  <2>2. DoneOf(row, 0, v) = 0 /\ DoneOf(mint[m], pieces[m], v) = 0
    BY <1>4, <1>6 DEF DoneOf
  <2>3. CASE v # w
    BY <1>1, <1>2, <1>4, <1>5, <1>6, <2>1, <2>2, <2>3, LimitStays DEF OpenOf
  <2>4. CASE v = w
    <3>1. \A x \in Mints : ~OpenOf(mint[x], w)
      BY <1>3, <2>4 DEF Open, OpenOf, MintsOf
    <3>2. mint'[m] = row /\ \A x \in Mints \ {m} : mint'[x] = mint[x]
      BY <1>1, <1>2 DEF MintTypeOK
    <3>3. \A x, o \in Mints : OpenOf(mint'[x], w) /\ OpenOf(mint'[o], w) => x = o
      BY <3>1, <3>2
    <3>4. DoneMints(w)' = DoneMints(w)
      BY <1>4, <1>6, <3>2 DEF DoneMints
    <3>5. DonePieces(w)' = DonePieces(w)
      BY <1>1, <1>5, <2>2, <2>4, DoneMoves
    <3>6. row.quantity <= WalletLimit - Cardinality(DoneMints(w))
      <4>1. Cardinality(DoneMints(w)) <= MintCount(w)
        BY <1>1, <2>1, <2>4, CountsDone
      <4>2. MintCount(w) \in Nat /\ Cardinality(DoneMints(w)) \in Nat /\ row.quantity \in Nat /\ WalletLimit \in Nat
        BY <1>1, <1>2, CountNat, DoneFinite, MintLimits DEF Mint
      <4> QED
        BY <1>2, <4>1, <4>2
    <3>7. \A x \in Mints : OpenOf(mint'[x], w) => mint'[x].quantity <= WalletLimit - Cardinality(DoneMints(w))
      BY <3>1, <3>2, <3>6
    <3> QED
      BY <2>1, <2>4, <3>3, <3>4, <3>5, <3>7 DEF LimitAt
  <2> QED
    BY <2>3, <2>4
<1> QED
  BY <1>8, <1>9, <1>10 DEF MintsInv, MintInv

\* An owner's request is done, or has nothing.
LEMMA OwnerKeeps == ASSUME MintsInv, NEW m \in Mints, OwnerMint(m) PROVE MintsInv'
<1> DEFINE old == mint[m]
           w == old.wallet
<1>1. MintTypeOK /\ MintInv /\ MintSound /\ LimitInv
  BY DEF MintsInv, MintInv, MintSound
<1>2. PICK n \in 0..Min2(old.quantity, unminted) :
        /\ old.status = "OWNER"
        /\ mint' = [mint EXCEPT ![m].status = IF n > 0 THEN "OWNED" ELSE "FAILED"]
        /\ pieces' = [pieces EXCEPT ![m] = @ + n]
        /\ UNCHANGED <<claimed, minting, disturbed, stacked, wasReset>>
  BY DEF OwnerMint
<1> DEFINE row == [old EXCEPT !.status = IF n > 0 THEN "OWNED" ELSE "FAILED"]
           held == pieces[m] + n
<1>3. /\ old \in Mint /\ old.quantity \in Nat /\ pieces[m] \in Nat /\ unminted \in Nat
      /\ ~InProgress(m) /\ old.address = "none" /\ ~old.free
      /\ w \notin disturbed => pieces[m] = 0
  BY <1>1, <1>2, RowKnown DEF MintSound, RowsSound, MintTypeOK, Mint, Resting, Done
<1>4. n \in Nat /\ n <= old.quantity
  BY <1>2, <1>3 DEF Min2
<1>5. /\ row \in Mint /\ row.status = (IF n > 0 THEN "OWNED" ELSE "FAILED") /\ row.wallet = w
      /\ row.free = old.free /\ row.address = "none" /\ row.quantity = old.quantity
  BY <1>3 DEF Mint
<1>6. RowTo(m, row, held) /\ held \in Nat
  BY <1>1, <1>2, <1>3, <1>4 DEF RowTo, MintTypeOK
<1>7. held = pieces[m] + n
  OBVIOUS
<1> HIDE DEF row, held
<1>8. RowBeside(m, row, held)
  <2>1. w \notin disturbed => Resting(row, held)
    BY <1>3, <1>4, <1>5, <1>7 DEF Resting, Done
  <2> QED
    BY <1>2, <1>3, <1>5, <1>6, <2>1 DEF RowBeside, FreeOf
<1>9. MintSound'
  BY <1>1, RowSteps
<1>10. SettlesAlone' /\ InOrder' /\ AtRest' /\ FreeInv'
  BY <1>5, <1>6, <1>8, BesideKeeps
<1>11. LimitInv'
  <2> SUFFICES ASSUME ~wasReset, NEW v \in Minters \ (disturbed \cup stacked) PROVE LimitAt(v)'
    BY <1>2 DEF LimitInv
  <2>1. LimitAt(v)
    BY <1>1 DEF LimitInv
  <2>2. CASE v # w \/ n = 0
    <3>1. DoneOf(row, held, v) = 0 /\ DoneOf(old, pieces[m], v) = 0 /\ ~OpenOf(row, v)
          /\ ~(row.wallet = v /\ Done(row)) /\ ~(old.wallet = v /\ Done(old))
      BY <1>2, <1>4, <1>5, <2>2 DEF DoneOf, OpenOf, Done
    <3> QED
      BY <1>1, <1>5, <1>6, <2>1, <3>1, LimitStays
  <2>3. CASE v = w /\ n # 0
    <3>1. OpenOf(old, v) /\ row.wallet = v /\ Done(row) /\ held <= old.quantity
      BY <1>2, <1>3, <1>4, <1>5, <1>7, <2>3 DEF OpenOf, Done
    <3> QED
      BY <1>1, <1>5, <1>6, <2>1, <3>1, LimitGrows
  <2> QED
    BY <2>2, <2>3
<1> QED
  BY <1>9, <1>10, <1>11 DEF MintsInv, MintInv

\* A row gets its address, or fails for want of one.
LEMMA AddressKeeps == ASSUME MintsInv, NEW m \in Mints, AddressMint(m) \/ NoMintAddress(m) PROVE MintsInv'
<1> DEFINE old == mint[m]
           w == old.wallet
           held == pieces[m]
<1>1. MintTypeOK /\ MintInv /\ MintSound /\ LimitInv
  BY DEF MintsInv, MintInv, MintSound
<1>2. /\ old.address = "asked" /\ old.status # "DELETED"
      /\ UNCHANGED <<unminted, pieces, tagged, minted, claimed, minting, disturbed, stacked, wasReset, mintFaults>>
      /\ \/ mint' = [mint EXCEPT ![m].address = "given"]
         \/ mint' = [mint EXCEPT ![m].status = "FAILED", ![m].address = "none"]
  BY DEF AddressMint, NoMintAddress, mintHistory
<1>3. old \in Mint /\ held \in Nat
  BY <1>1, RowKnown
<1>4. w \notin disturbed => ~InProgress(m) /\ old.status = "PENDING" /\ held = 0 /\ ~Done(old)
  BY <1>1, <1>2, RowKnown DEF Resting, Done
<1>5. PICK row \in Mint : /\ mint' = [mint EXCEPT ![m] = row]
                          /\ row.wallet = w /\ row.free = old.free /\ row.quantity = old.quantity
                          /\ row.status \in {old.status, "FAILED"} /\ row.address # "asked"
  <2> DEFINE given == [old EXCEPT !.address = "given"]
             failed == [old EXCEPT !.status = "FAILED", !.address = "none"]
  <2>1. given \in Mint /\ failed \in Mint
    BY <1>3 DEF Mint
  <2>2. /\ given.wallet = w /\ given.free = old.free /\ given.quantity = old.quantity
        /\ given.status = old.status /\ given.address = "given"
        /\ failed.wallet = w /\ failed.free = old.free /\ failed.quantity = old.quantity
        /\ failed.status = "FAILED" /\ failed.address = "none"
    BY <1>3 DEF Mint
  <2>3. mint' = [mint EXCEPT ![m] = given] \/ mint' = [mint EXCEPT ![m] = failed]
    BY <1>1, <1>2 DEF MintTypeOK
  <2> HIDE DEF given, failed
  <2> QED
    BY <2>1, <2>2, <2>3
<1>6. RowTo(m, row, held)
  BY <1>1, <1>2, <1>5 DEF RowTo, MintTypeOK
<1>7. w \notin disturbed => Resting(row, held) /\ ~Done(row)
  BY <1>4, <1>5 DEF Resting, Done
<1>8. RowBeside(m, row, held)
  BY <1>2, <1>4, <1>5, <1>6, <1>7 DEF RowBeside, FreeOf
<1>9. MintSound'
  BY <1>1, RowSteps
<1>10. SettlesAlone' /\ InOrder' /\ AtRest' /\ FreeInv'
  BY <1>3, <1>5, <1>8, BesideKeeps
<1>11. LimitInv'
  <2> SUFFICES ASSUME ~wasReset, NEW v \in Minters \ (disturbed \cup stacked) PROVE LimitAt(v)'
    BY <1>2 DEF LimitInv
  <2>1. LimitAt(v)
    BY <1>1 DEF LimitInv
  <2>2. DoneOf(row, held, v) = 0 /\ DoneOf(old, pieces[m], v) = 0
        /\ ~(row.wallet = v /\ Done(row)) /\ ~(old.wallet = v /\ Done(old))
    BY <1>4, <1>5, <1>7 DEF DoneOf
  <2>3. OpenOf(row, v) => OpenOf(old, v) /\ row.quantity = old.quantity
    BY <1>5 DEF OpenOf
  <2> QED
    BY <1>1, <1>3, <1>6, <2>1, <2>2, <2>3, LimitStays
<1> QED
  BY <1>9, <1>10, <1>11 DEF MintsInv, MintInv

\* Settlements that are broken off leave their wallets disturbed; the rows of the others
\* are at rest, and an owner's request that is dropped has nothing.
LEMMA RestartKeeps == ASSUME MintsInv, RestartMints PROVE MintsInv'
<1> DEFINE after(x) == [mint[x] EXCEPT !.address = IF @ = "asked" THEN "none" ELSE @,
                                       !.status = IF @ = "OWNER" THEN "FAILED" ELSE @]
<1>1. MintTypeOK /\ MintInv /\ MintSound /\ FreeInv /\ LimitInv
  BY DEF MintsInv, MintInv, MintSound
<1>2. /\ mint' = [x \in Mints |-> after(x)] /\ mintFaults' = mintFaults + 1
      /\ minting' = [k \in MintNotes |-> IF k \in tagged THEN DoneSettling ELSE NotSettling]
      /\ disturbed' = disturbed \cup Interrupted
      /\ UNCHANGED <<unminted, pieces, tagged, minted, claimed, stacked, wasReset>>
  BY DEF RestartMints, MintFault
<1>3. \A x \in Mints : /\ mint'[x] \in Mint /\ mint'[x].wallet = mint[x].wallet /\ mint'[x].free = mint[x].free
                       /\ mint'[x].quantity = mint[x].quantity /\ mint'[x].address # "asked"
                       /\ mint[x].address = "none" => mint'[x].address = "none"
                       /\ mint'[x].status = IF mint[x].status = "OWNER" THEN "FAILED" ELSE mint[x].status
  BY <1>1, <1>2 DEF MintTypeOK, Mint
<1> HIDE DEF after
<1>4. \A k \in MintNotes : ~Settling(k)' /\ ~HoldingAt(minting'[k].at)
  BY <1>2, DoneTyped DEF Settling, HoldingAt
<1>5. \A k \in MintNotes : Settling(k) => WalletOf(k) \in disturbed' /\ WalletOf(k) \in Minters
  <2>1. \A k \in MintNotes : Settling(k) => WalletOf(k) \in Minters
    BY <1>1, Before
  <2>2. \A k \in MintNotes : Settling(k) => WalletOf(k) \in disturbed'
    BY <1>2 DEF Interrupted, WalletOf
  <2> QED
    BY <2>1, <2>2
<1>6. Interrupted \subseteq Minters
  BY <1>5 DEF Interrupted, WalletOf
<1>7. MintSound'
  <2>1. MintTypeOK'
    <3>1. mint' \in [Mints -> Mint]
      BY <1>2, <1>3
    <3>2. minting' \in [MintNotes -> Minting]
      BY <1>2, DoneTyped
    <3>3. mintFaults' \in Nat /\ disturbed' \subseteq Minters
      BY <1>1, <1>2, <1>6 DEF MintTypeOK
    <3> QED
      BY <1>1, <1>2, <3>1, <3>2, <3>3 DEF MintTypeOK
  <2>2. RowsSound'
    <3> SUFFICES ASSUME NEW x \in Mints
                 PROVE  /\ mint'[x].status = "NONE" => pieces'[x] = 0 /\ mint'[x].address = "none"
                        /\ mint'[x].status = "OWNER" => mint'[x].address = "none" /\ ~mint'[x].free
                        /\ mint'[x].status = "DELETED" => wasReset'
      BY DEF RowsSound
    <3> QED
      BY <1>1, <1>2, <1>3 DEF MintSound, RowsSound
  <2>3. SettlesRow'
    BY <1>4 DEF SettlesRow
  <2> QED
    BY <2>1, <2>2, <2>3 DEF MintSound
<1>8. SettlesAlone' /\ InOrder'
  BY <1>4 DEF SettlesAlone, InOrder
<1>9. AtRest'
  <2> SUFFICES ASSUME NEW x \in Mints, mint'[x].wallet \notin disturbed' PROVE Resting(mint[x], pieces[x])'
    BY DEF AtRest
  <2>1. mint[x].wallet \notin disturbed' /\ disturbed \subseteq disturbed'
    BY <1>2, <1>3
  <2>2. ~InProgress(x)
    BY <1>5, <2>1 DEF InProgress, WalletOf
  <2>3. Resting(mint[x], pieces[x])
    BY <1>1, <2>1, <2>2 DEF MintInv, AtRest
  <2>4. Resting(mint'[x], pieces[x])
    BY <1>3, <2>3 DEF Resting, Done
  <2> QED
    BY <1>2, <2>4
<1>10. FreeInv'
  <2> SUFFICES ASSUME ~wasReset, NEW w \in Minters \ disturbed' PROVE FreeAt(w)'
    BY <1>2 DEF FreeInv
  <2>1. FreeAt(w)
    BY <1>1, <1>2 DEF FreeInv
  <2>2. \A k \in MintNotes : ~FreeHeld(k, w)
    BY <1>5 DEF FreeHeld, HoldingAt, Settling
  <2>3. \A k \in MintNotes : ~FreeHeld(k, w)'
    BY <1>4 DEF FreeHeld
  <2>4. FreePieces(w)' = FreePieces(w)
    <3>1. [x \in Mints |-> FreeOf(mint'[x], pieces'[x], w)] = [x \in Mints |-> FreeOf(mint[x], pieces[x], w)]
      BY <1>2, <1>3 DEF FreeOf
    <3> QED
      BY <3>1 DEF FreePieces
  <2> QED
    BY <1>2, <2>1, <2>2, <2>3, <2>4 DEF FreeAt
<1>11. LimitInv'
  <2> SUFFICES ASSUME ~wasReset, NEW w \in Minters \ (disturbed' \cup stacked) PROVE LimitAt(w)'
    BY <1>2 DEF LimitInv
  <2>1. LimitAt(w)
    BY <1>1, <1>2 DEF LimitInv
  <2>2. \A x \in Mints : Done(mint'[x]) <=> Done(mint[x])
    BY <1>3 DEF Done
  <2>3. DonePieces(w)' = DonePieces(w)
    <3>1. [x \in Mints |-> DoneOf(mint'[x], pieces'[x], w)] = [x \in Mints |-> DoneOf(mint[x], pieces[x], w)]
      BY <1>2, <1>3, <2>2 DEF DoneOf
    <3> QED
      BY <3>1 DEF DonePieces
  <2>4. DoneMints(w)' = DoneMints(w)
    BY <1>3, <2>2 DEF DoneMints
  <2>5. \A x \in Mints : OpenOf(mint'[x], w) => OpenOf(mint[x], w) /\ mint'[x].quantity = mint[x].quantity
    BY <1>3 DEF OpenOf
  <2> QED
    BY <2>1, <2>3, <2>4, <2>5 DEF LimitAt
<1> QED
  BY <1>7, <1>8, <1>9, <1>10, <1>11 DEF MintsInv, MintInv

\* Once the collection is reset nothing has pieces, and only what the rows say remains.
LEMMA ResetKeeps == ASSUME MintsInv, ResetMints PROVE MintsInv'
<1>1. MintTypeOK /\ MintInv /\ MintSound
  BY DEF MintsInv, MintInv, MintSound
<1>2. /\ mintFaults' = mintFaults + 1 /\ wasReset' = TRUE
      /\ mint' = [x \in Mints |-> IF mint[x].status \in {"NONE", "OWNER"} THEN mint[x]
                                  ELSE [mint[x] EXCEPT !.status = "DELETED"]]
      /\ pieces' = [x \in Mints |-> 0] /\ unminted' = Supply /\ tagged' = {} /\ minted' = 0
      /\ disturbed' = disturbed \cup Interrupted
      /\ claimed' \in {claimed, [w \in Minters |-> 0]} /\ UNCHANGED <<minting, stacked>>
  BY DEF ResetMints, MintFault
<1>3. \A x \in Mints :
        /\ mint'[x] \in Mint /\ mint'[x].wallet = mint[x].wallet
        /\ mint'[x].address = mint[x].address /\ mint'[x].free = mint[x].free
        /\ mint'[x].status = IF mint[x].status \in {"NONE", "OWNER"} THEN mint[x].status ELSE "DELETED"
  BY <1>1, <1>2 DEF MintTypeOK, Mint
<1>4. \A k \in MintNotes : (Settling(k)' <=> Settling(k)) /\ minting'[k] = minting[k]
  BY <1>2 DEF Settling
<1>5. \A k \in MintNotes : Settling(k) => /\ minting[k].mint \in Mints /\ WalletOf(k) \in Minters
                                          /\ mint[minting[k].mint].status \notin {"NONE", "OWNER"}
                                          /\ WalletOf(k) = mint[minting[k].mint].wallet
  BY <1>1, Before
<1>6. \A k \in MintNotes : Settling(k) => WalletOf(k)' \in disturbed'
  BY <1>2, <1>3, <1>5 DEF Interrupted, WalletOf
<1>7. Interrupted \subseteq Minters
  BY <1>5 DEF Interrupted
<1>8. MintTypeOK'
  <2>1. mint' \in [Mints -> Mint] /\ pieces' \in [Mints -> Nat]
    BY <1>2, <1>3
  <2>2. claimed' \in [Minters -> Nat]
    BY <1>1, <1>2 DEF MintTypeOK
  <2> QED
    BY <1>1, <1>2, <1>7, <2>1, <2>2, MintLimits DEF MintTypeOK
<1>9. RowsSound'
  <2> SUFFICES ASSUME NEW x \in Mints
               PROVE  /\ mint'[x].status = "NONE" => pieces'[x] = 0 /\ mint'[x].address = "none"
                      /\ mint'[x].status = "OWNER" => mint'[x].address = "none" /\ ~mint'[x].free
                      /\ mint'[x].status = "DELETED" => wasReset'
    BY DEF RowsSound
  <2> QED
    BY <1>1, <1>2, <1>3 DEF MintSound, RowsSound
<1>10. SettlesRow'
  BY <1>3, <1>4, <1>5 DEF SettlesRow
<1>11. SettlesAlone' /\ InOrder'
  BY <1>4, <1>6 DEF SettlesAlone, InOrder
<1>12. AtRest'
  <2> SUFFICES ASSUME NEW x \in Mints PROVE Resting(mint[x], pieces[x])'
    BY DEF AtRest
  <2>1. mint[x].status \in {"NONE", "OWNER"} => mint[x].address = "none"
    BY <1>1 DEF MintSound, RowsSound
  <2> QED
    BY <1>2, <1>3, <2>1 DEF Resting, Done
<1>13. FreeInv' /\ LimitInv'
  BY <1>2 DEF FreeInv, LimitInv
<1> QED
  BY <1>8, <1>9, <1>10, <1>11, <1>12, <1>13 DEF MintsInv, MintInv, MintSound

LEMMA MintsStart == MintInit => MintsInv
<1> SUFFICES ASSUME MintInit PROVE MintsInv
  OBVIOUS
<1> DEFINE w0 == CHOOSE w \in Minters : TRUE
<1>1. w0 \in Minters
  BY MintersAssumption
<1> HIDE DEF w0
<1>2. /\ mint = [m \in Mints |-> [status |-> "NONE", wallet |-> w0, quantity |-> 0, free |-> FALSE, address |-> "none"]]
      /\ unminted = Supply /\ pieces = [m \in Mints |-> 0]
      /\ tagged = {} /\ minted = 0 /\ claimed = [w \in Minters |-> 0]
      /\ minting = [n \in MintNotes |-> NotSettling]
      /\ disturbed = {} /\ stacked = {} /\ wasReset = FALSE /\ mintFaults = 0
  BY DEF MintInit, w0
<1>3. \A m \in Mints : mint[m].status = "NONE" /\ mint[m].address = "none" /\ mint[m].free = FALSE /\ pieces[m] = 0
  BY <1>2
<1>4. MintSound
  <2>1. MintTypeOK
    BY <1>1, <1>2, DoneTyped, MintLimits DEF MintTypeOK, Mint
  <2>2. RowsSound /\ SettlesRow
    BY <1>2, <1>3, DoneTyped DEF RowsSound, SettlesRow, Settling
  <2> QED
    BY <2>1, <2>2 DEF MintSound
<1>5. \A n \in MintNotes : ~Settling(n) /\ ~HoldingAt(minting[n].at)
  BY <1>2, DoneTyped DEF Settling, HoldingAt
<1>6. SettlesAlone /\ InOrder /\ AtRest
  BY <1>3, <1>5 DEF SettlesAlone, InOrder, AtRest, Resting, Done
<1>7. FreeInv
  <2> SUFFICES ASSUME NEW w \in Minters PROVE FreeAt(w)
    BY DEF FreeInv
  <2>1. FreePieces(w) = 0
    <3> DEFINE f == [m \in Mints |-> FreeOf(mint[m], pieces[m], w)]
    <3>1. \A m \in Mints : f[m] = 0
      BY <1>3 DEF FreeOf
    <3>2. f \in [Mints -> Nat] /\ FreePieces(w) = SumFunction(f)
      BY <3>1 DEF FreePieces
    <3> HIDE DEF f
    <3> QED
      BY <3>1, <3>2, MintSum, SumZero, MintLimits
  <2> QED
    BY <1>2, <1>5, <2>1, MintLimits DEF FreeAt, FreeHeld
<1>8. LimitInv
  <2> SUFFICES ASSUME NEW w \in Minters PROVE LimitAt(w)
    BY DEF LimitInv
  <2>1. DonePieces(w) = 0
    <3> DEFINE f == [m \in Mints |-> DoneOf(mint[m], pieces[m], w)]
    <3>1. \A m \in Mints : f[m] = 0
      BY <1>3 DEF DoneOf
    <3>2. f \in [Mints -> Nat] /\ DonePieces(w) = SumFunction(f)
      BY <3>1 DEF DonePieces
    <3> HIDE DEF f
    <3> QED
      BY <3>1, <3>2, MintSum, SumZero, MintLimits
  <2>2. DoneMints(w) = {}
    BY <1>3 DEF DoneMints, Done
  <2>3. Cardinality(DoneMints(w)) = 0
    BY <2>2, FS_EmptySet
  <2>4. \A m \in Mints : ~OpenOf(mint[m], w)
    BY <1>3 DEF OpenOf
  <2> QED
    BY <2>1, <2>3, <2>4, MintLimits DEF LimitAt
<1> QED
  BY <1>4, <1>6, <1>7, <1>8 DEF MintsInv, MintInv

-----------------------------------------------------------------------------
(* Theorems about minting.                                                 *)

LEMMA MintsNext == MintsInv /\ [MintNext]_mintVars => MintsInv'
<1> SUFFICES ASSUME MintsInv, [MintNext]_mintVars PROVE MintsInv'
  OBVIOUS
<1>1. ASSUME NEW m \in Mints, NEW w \in Minters, NEW q \in Quantities, NEW phase \in Phases, AskMint(m, w, q, phase)
      PROVE  MintsInv'
  BY <1>1, AskKeeps
<1>2. ASSUME NEW m \in Mints, OwnerMint(m) \/ AddressMint(m) \/ NoMintAddress(m) PROVE MintsInv'
  BY <1>2, OwnerKeeps, AddressKeeps
<1>3. ASSUME NEW n \in MintNotes, NEW m \in Mints, MintPaid(n, m) \/ ForceMint(n, m) PROVE MintsInv'
  BY <1>3, BeginKeeps DEF MintPaid, ForceMint
<1>4. ASSUME NEW n \in MintNotes,
             \/ StartMint(n) \/ ClaimPiece(n) \/ StopClaiming(n) \/ CountPieces(n)
             \/ CompleteMint(n) \/ CountFree(n) \/ MintThrows(n) \/ FailMint(n)
      PROVE  MintsInv'
  BY <1>4, StartKeeps, ClaimKeeps, StopKeeps, CountKeeps, CompleteKeeps, CountFreeKeeps, ThrowsKeeps, FailKeeps
<1>5. CASE RestartMints \/ ResetMints
  BY <1>5, RestartKeeps, ResetKeeps
<1>6. CASE UNCHANGED mintVars
  <2>1. UNCHANGED <<mint, unminted, pieces, tagged, minted, claimed, minting, disturbed, stacked, wasReset, mintFaults>>
    BY <1>6 DEF mintVars, mintRows, mintHistory
  <2>2. MintSound'
    BY <2>1 DEF MintsInv, MintInv, MintSound, MintTypeOK, RowsSound, SettlesRow, Settling
  <2>3. SettlesAlone' /\ InOrder' /\ AtRest'
    BY <2>1 DEF MintsInv, MintInv, SettlesAlone, InOrder, AtRest, InProgress, Settling, WalletOf
  <2>4. FreeInv'
    BY <2>1 DEF MintsInv, FreeInv, FreeAt, FreeHeld, FreePieces, WalletOf
  <2>5. LimitInv'
    BY <2>1 DEF MintsInv, LimitInv, LimitAt, DoneMints, DonePieces
  <2> QED
    BY <2>2, <2>3, <2>4, <2>5 DEF MintsInv, MintInv
<1> QED
  BY <1>1, <1>2, <1>3, <1>4, <1>5, <1>6 DEF MintNext

LEMMA PaidMinted == MintsInv => MintedAsPaid
<1> SUFFICES ASSUME MintsInv, NEW m \in Mints, mint[m].wallet \notin disturbed
             PROVE  /\ pieces[m] <= mint[m].quantity
                    /\ mint[m].status = "CREATED" => pieces[m] > 0
                    /\ pieces[m] > 0 => mint[m].status \in {"CREATED", "OWNED"} \/ InProgress(m)
  BY DEF MintedAsPaid
<1>1. MintInv /\ MintTypeOK
  BY DEF MintsInv, MintInv, MintSound
<1>2. pieces[m] \in Nat /\ mint[m].quantity \in Nat
  BY <1>1 DEF MintTypeOK, Mint
<1>3. CASE InProgress(m)
  <2>1. PICK n \in MintNotes : Settling(n) /\ minting[n].mint = m
    BY <1>3 DEF InProgress
  <2>2. Underway(minting[n], mint[m], pieces[m]) /\ minting[n] \in Minting
    BY <1>1, <2>1, Before
  <2>3. minting[n].want \in Nat /\ minting[n].got \in Nat
    BY <2>2 DEF Minting
  <2>4. pieces[m] <= mint[m].quantity
    BY <1>2, <2>2, <2>3 DEF Underway
  <2>5. mint[m].status = "CREATED" => pieces[m] > 0
    BY <2>2 DEF Underway
  <2> QED
    BY <1>3, <2>4, <2>5
<1>4. CASE ~InProgress(m)
  <2>1. Resting(mint[m], pieces[m])
    BY <1>1, <1>4, RowKnown
  <2> QED
    BY <1>2, <2>1 DEF Resting, Done
<1> QED
  BY <1>3, <1>4

\* What is in hand is within the allowance that the settlement read.
LEMMA FreeKept == MintsInv => FreeAllowanceKept
<1> SUFFICES ASSUME MintsInv, NEW w \in Minters \ disturbed, ~wasReset
             PROVE  PiecesOf({m \in Mints : mint[m].wallet = w /\ mint[m].free}) <= FreeLimit
  BY DEF FreeAllowanceKept
<1> DEFINE T == {m \in Mints : mint[m].wallet = w /\ mint[m].free}
<1>1. MintInv /\ MintTypeOK /\ FreeAt(w)
  BY DEF MintsInv, MintInv, MintSound, FreeInv
<1>2. PiecesOf(T) = FreePieces(w)
  <2> DEFINE f == [m \in Mints |-> FreeOf(mint[m], pieces[m], w)]
  <2>1. T \in SUBSET Mints /\ \A m \in Mints : pieces[m] \in Int
    BY <1>1 DEF MintTypeOK
  <2>2. [m \in Mints |-> IF m \in T THEN pieces[m] ELSE 0] = f
    BY DEF FreeOf
  <2>3. f \in [Mints -> Nat] /\ FreePieces(w) = SumFunction(f)
    BY <1>1 DEF FreeOf, FreePieces, MintTypeOK
  <2> HIDE DEF T, f
  <2>4. SumFunctionOnSet(pieces, T) = SumFunctionOnSet(f, Mints)
    BY <2>1, <2>2, SumWithin, MintLimits
  <2>5. SumFunction(f) = SumFunctionOnSet(f, Mints)
    BY <2>3, MintSum
  <2> QED
    BY <2>3, <2>4, <2>5 DEF PiecesOf
<1>3. FreePieces(w) \in Nat /\ claimed[w] \in Nat /\ FreeLimit \in Nat
  <2> DEFINE f == [m \in Mints |-> FreeOf(mint[m], pieces[m], w)]
  <2>1. f \in [Mints -> Nat] /\ FreePieces(w) = SumFunction(f)
    BY <1>1 DEF FreeOf, FreePieces, MintTypeOK
  <2> HIDE DEF f
  <2> QED
    BY <1>1, <2>1, MintSum, MintLimits DEF MintTypeOK
<1>4. FreePieces(w) <= FreeLimit
  <2>1. CASE \A n \in MintNotes : ~FreeHeld(n, w)
    BY <1>1, <1>3, <2>1 DEF FreeAt
  <2>2. CASE \E n \in MintNotes : FreeHeld(n, w)
    <3>1. PICK n \in MintNotes : FreeHeld(n, w)
      BY <2>2
    <3>2. Settling(n) /\ WalletOf(n) = w /\ HoldingAt(minting[n].at)
      BY <3>1 DEF FreeHeld, HoldingAt, Settling
    <3>3. Underway(minting[n], mint[minting[n].mint], pieces[minting[n].mint]) /\ minting[n] \in Minting
      BY <1>1, <3>2, Before DEF WalletOf
    <3>4. minting[n].got <= minting[n].want /\ minting[n].got \in Nat /\ minting[n].want \in Nat
      BY <3>2, <3>3 DEF Underway, Minting
    <3>5. FreePieces(w) <= claimed[w] + minting[n].got /\ claimed[w] + minting[n].want <= FreeLimit
      BY <1>1, <3>1 DEF FreeAt
    <3> QED
      BY <1>3, <3>4, <3>5
  <2> QED
    BY <2>1, <2>2
<1> QED
  BY <1>2, <1>4

LEMMA Triangle == ASSUME NEW L \in Int, NEW k \in Int
                  PROVE  k * (2 * L - k + 1) <= L * (L + 1)
<1> DEFINE d == L - k
<1>1. d \in Int /\ d * (d + 1) >= 0
  <2>1. CASE d >= 0
    BY <2>1
  <2>2. CASE d <= -1
    <3>1. (-d) * (-(d + 1)) >= 0
      BY <2>2
    <3> QED
      BY <3>1
  <2> QED
    BY <2>1, <2>2
<1>2. L * (L + 1) = k * (2 * L - k + 1) + d * (d + 1)
  OBVIOUS
<1> HIDE DEF d
<1>3. L * (L + 1) \in Int /\ k * (2 * L - k + 1) \in Int /\ d * (d + 1) \in Int
  BY <1>1
<1> QED
  BY <1>1, <1>2, <1>3

\* Beside its completed rows a wallet has at most one with pieces, the one that is open.
LEMMA LimitKept == MintsInv => WalletLimitKept
<1> SUFFICES ASSUME MintsInv, NEW w \in Minters \ (disturbed \cup stacked), ~wasReset
             PROVE  PiecesOf({m \in Mints : mint[m].wallet = w}) <= (WalletLimit * (WalletLimit + 1)) \div 2
  BY DEF WalletLimitKept
<1> DEFINE T == {m \in Mints : mint[m].wallet = w}
           g == [m \in Mints |-> IF mint[m].wallet = w THEN pieces[m] ELSE 0]
           f == [m \in Mints |-> DoneOf(mint[m], pieces[m], w)]
           k == Cardinality(DoneMints(w))
           L == WalletLimit
<1>1. MintInv /\ MintTypeOK /\ LimitAt(w)
  BY DEF MintsInv, MintInv, MintSound, LimitInv
<1>2. f \in [Mints -> Nat] /\ g \in [Mints -> Nat] /\ k \in Nat /\ L \in Nat
  BY <1>1, DoneFinite, MintLimits DEF DoneOf, MintTypeOK
<1>3. PiecesOf(T) = SumFunction(g)
  <2>1. T \in SUBSET Mints /\ \A m \in Mints : pieces[m] \in Int
    BY <1>1 DEF MintTypeOK
  <2>2. [m \in Mints |-> IF m \in T THEN pieces[m] ELSE 0] = g
    OBVIOUS
  <2> HIDE DEF T, g
  <2>3. SumFunctionOnSet(pieces, T) = SumFunctionOnSet(g, Mints)
    BY <2>1, <2>2, SumWithin, MintLimits
  <2> QED
    BY <1>2, <2>3, MintSum DEF PiecesOf
<1>4. SumFunction(f) \in Nat /\ SumFunction(g) \in Nat /\ 2 * SumFunction(f) <= k * (2 * L - k + 1)
  <2>1. DonePieces(w) = SumFunction(f)
    BY DEF DonePieces
  <2>2. 2 * DonePieces(w) <= k * (2 * L - k + 1)
    BY <1>1 DEF LimitAt
  <2> HIDE DEF f, g
  <2> QED
    BY <1>2, <2>1, <2>2, MintSum
<1>5. ASSUME NEW m \in Mints, mint[m].wallet = w, ~Done(mint[m]), pieces[m] # 0
      PROVE  OpenOf(mint[m], w) /\ pieces[m] <= L - k
  <2>1. mint[m] \in Mint /\ pieces[m] \in Nat
    BY <1>1, RowKnown
  <2>2. InProgress(m)
    BY <1>1, <1>5, RowKnown DEF Resting
  <2>3. PICK n \in MintNotes : Settling(n) /\ minting[n].mint = m
    BY <2>2 DEF InProgress
  <2>4. Underway(minting[n], mint[m], pieces[m])
    BY <1>1, <1>5, <2>3, Before
  <2>5. OpenOf(mint[m], w)
    BY <1>5, <2>4 DEF Underway, OpenOf, Done
  <2>6. mint[m].quantity <= L - k
    BY <1>1, <2>5 DEF LimitAt
  <2>7. pieces[m] <= mint[m].quantity
    BY <1>5, PaidMinted DEF MintedAsPaid
  <2>8. mint[m].quantity \in Nat
    BY <2>1 DEF Mint
  <2> HIDE DEF k, L
  <2> QED
    BY <1>2, <2>1, <2>5, <2>6, <2>7, <2>8
<1>6. 2 * SumFunction(g) <= L * (L + 1)
  <2>1. CASE \E o \in Mints : mint[o].wallet = w /\ ~Done(mint[o]) /\ pieces[o] # 0
    <3>1. PICK o \in Mints : mint[o].wallet = w /\ ~Done(mint[o]) /\ pieces[o] # 0
      BY <2>1
    <3>2. OpenOf(mint[o], w) /\ pieces[o] <= L - k
      BY <1>5, <3>1
    <3>3. \A m \in Mints \ {o} : g[m] = f[m]
      <4> SUFFICES ASSUME NEW m \in Mints \ {o}, mint[m].wallet = w, ~Done(mint[m]) PROVE pieces[m] = 0
        BY DEF DoneOf
      <4> QED
        BY <1>1, <1>5, <3>2 DEF LimitAt
    <3>4. f[o] = 0 /\ g[o] = pieces[o] /\ pieces[o] \in Nat
      BY <1>1, <3>1 DEF DoneOf, MintTypeOK
    <3> HIDE DEF f, g, k, L
    <3>5. SumFunction(g) = SumFunction(f) + pieces[o]
      <4>1. SumFunction(g) = SumFunction(f) - f[o] + g[o]
        BY <1>2, <3>3, SumMoves
      <4> QED
        BY <1>4, <3>4, <4>1
    <3> DEFINE j == k + 1
    <3>6. j * (2 * L - j + 1) = k * (2 * L - k + 1) + 2 * (L - k)
      BY <1>2
    <3>7. j \in Int /\ k * (2 * L - k + 1) \in Int /\ L \in Int /\ L * (L + 1) \in Int /\ j * (2 * L - j + 1) \in Int
      BY <1>2
    <3> HIDE DEF j
    <3>8. j * (2 * L - j + 1) <= L * (L + 1)
      BY <3>7, Triangle
    <3> QED
      BY <1>2, <1>4, <3>2, <3>4, <3>5, <3>6, <3>7, <3>8
  <2>2. CASE ~\E o \in Mints : mint[o].wallet = w /\ ~Done(mint[o]) /\ pieces[o] # 0
    <3>1. g = f
      BY <2>2 DEF DoneOf
    <3> HIDE DEF f, g, k, L
    <3>2. k * (2 * L - k + 1) <= L * (L + 1)
      BY <1>2, Triangle
    <3>3. k * (2 * L - k + 1) \in Int /\ L * (L + 1) \in Int
      BY <1>2
    <3> QED
      BY <1>4, <3>1, <3>2, <3>3
  <2> QED
    BY <2>1, <2>2
<1> HIDE DEF f, g, T
<1>7. SumFunction(g) <= (L * (L + 1)) \div 2
  <2> DEFINE X == L * (L + 1)
  <2>1. X \in Int
    BY <1>2
  <2>2. 2 * SumFunction(g) <= X
    BY <1>6
  <2> HIDE DEF X
  <2>3. SumFunction(g) <= X \div 2
    BY <1>4, <2>1, <2>2
  <2> QED
    BY <2>3 DEF X
<1> QED
  BY <1>3, <1>7 DEF T

LEMMA MintsAlways == MintSpec => []MintsInv
  BY MintsStart, MintsNext, PTL DEF MintSpec

\* A paid mint hands out what it granted, in claims, a count and a completion of
\* their own (claimRandomUnmintedNftItems, completePendingNftMint), and a failed one
\* nothing, for every number of wallets, requests and payments.
THEOREM MintedAsPaidAlways == MintSpec => []MintedAsPaid
  BY MintsAlways, PaidMinted, PTL

\* Neither the allowance of free pieces nor what the limit per wallet (counted in
\* completed rows by getWalletNftMintCount) allows is exceeded.
THEOREM MintLimitsAlways == MintSpec => []MintLimitsKept
<1>1. MintsInv => MintLimitsKept
  BY FreeKept, LimitKept DEF MintLimitsKept
<1> QED
  BY <1>1, MintsAlways, PTL

-----------------------------------------------------------------------------
(* The whitelist.  What a request has read is still so unless it is stale  *)
(* (RequestSound); a handle that no stale request wrote has one entry, and *)
(* an entry of a listed handle is as the list says, or a listing of the    *)
(* handle is on its way to it.                                             *)

RequestSound(r) ==
  /\ r.at \in {"handle", "list", "write"} =>
       /\ r.address \in Addresses /\ r.handle \in Handles
       /\ ~r.stale => entry[r.address].status # "APPROVED"
  /\ r.at \in {"list", "write"} /\ ~r.stale => EntriesOf(r.handle) \subseteq {r.address}
  /\ r.at = "write" /\ ~r.stale => r.tier = preapproved[r.handle]
  /\ r.at \in {"find", "approve"} =>
       /\ r.handle \in Handles /\ r.tier \in Tiers
       /\ ~r.stale => r.tier = preapproved[r.handle]
  /\ r.at = "approve" =>
       /\ r.address \in Addresses /\ Present(r.address)
       /\ ~r.stale => /\ entry[r.address].handle = r.handle
                      /\ r.approved <=> entry[r.address].status = "APPROVED"
  /\ r.at = "rebind" => r.address \in Addresses /\ Present(r.address)
  /\ r.at \in {"listed", "address", "create"} =>
       r.handle \in Handles /\ (~r.stale => EntriesOf(r.handle) = {})
  /\ r.at = "create" => r.address \in Addresses

RequestsSound == \A q \in Applications : RequestSound(application[q])

ApprovalsStand == \A a \in Addresses \ raced : a \in standing <=> entry[a].status = "APPROVED"

OneEntry == \A h \in Handles \ raced : \A a, b \in EntriesOf(h) : a = b

OnItsWay(r, a, h) == r.handle = h /\ (r.at = "find" \/ (r.at = "approve" /\ r.address = a))
AsListed(e) == e.status # "PENDING" /\ e.tier \in {preapproved[e.handle], "APROBBED"}
ListKept == \A a \in Addresses :
  Present(a) /\ entry[a].handle \notin raced /\ preapproved[entry[a].handle] # "none" =>
    AsListed(entry[a]) \/ \E q \in Applications : OnItsWay(application[q], a, entry[a].handle)

WhitelistInv == WhitelistTypeOK /\ RequestsSound /\ ApprovalsStand /\ OneEntry /\ ListKept

\* What is not touched by a write is as it was for whoever read it.
LEMMA EntryWritten ==
  ASSUME WhitelistTypeOK, NEW a \in Addresses, NEW new \in Entry, new.status # "ABSENT",
         entry' = [entry EXCEPT ![a] = new]
  PROVE  /\ entry' \in [Addresses -> Entry] /\ entry'[a] = new
         /\ \A b \in Addresses \ {a} : entry'[b] = entry[b]
         /\ \A b \in Addresses : Present(b) => Present(b)'
         /\ \A h : EntriesOf(h)' = (EntriesOf(h) \ {a}) \cup (IF new.handle = h THEN {a} ELSE {})
<1>1. /\ entry' \in [Addresses -> Entry] /\ entry'[a] = new
      /\ \A b \in Addresses \ {a} : entry'[b] = entry[b]
  BY DEF WhitelistTypeOK
<1>2. \A b \in Addresses : Present(b) => Present(b)'
  BY <1>1 DEF Present
<1>3. ASSUME NEW h PROVE EntriesOf(h)' = (EntriesOf(h) \ {a}) \cup (IF new.handle = h THEN {a} ELSE {})
  BY <1>1 DEF EntriesOf, Present
<1> QED
  BY <1>1, <1>2, <1>3

LEMMA EndedSound == EndedApplication \in Application /\ EndedApplication.at = "over"
  BY DEF EndedApplication, NoApplication, Application

LEMMA WritesKeep ==
  ASSUME WhitelistInv, NEW q \in Applications, NEW a \in Addresses, NEW new \in Entry, new.status # "ABSENT",
         WriteEntry(q, a, new),
         application[q].at # "find", application[q].at = "approve" => application[q].address = a,
         a \notin raced' => new.status = "APPROVED" \/ a \notin standing,
         new.handle \notin raced' => EntriesOf(new.handle) \subseteq {a},
         new.handle \notin raced' /\ preapproved[new.handle] # "none" =>
           AsListed(new) \/ \E r \in Applications \ {q} : OnItsWay(application[r], a, new.handle)
  PROVE  WhitelistInv'
<1> DEFINE touched == {a, new.handle} \cup (IF Present(a) THEN {entry[a].handle} ELSE {})
<1>1. /\ entry' = [entry EXCEPT ![a] = new] /\ application' = Ended(q, touched)
      /\ standing' = (IF new.status = "APPROVED" THEN standing \cup {a} ELSE standing)
      /\ raced' = (IF application[q].stale THEN raced \cup {a, new.handle} ELSE raced)
      /\ preapproved' = preapproved
  BY DEF WriteEntry
<1>2. WhitelistTypeOK
  BY DEF WhitelistInv
<1>3. /\ entry' \in [Addresses -> Entry] /\ entry'[a] = new
      /\ \A b \in Addresses \ {a} : entry'[b] = entry[b]
      /\ \A b \in Addresses : Present(b) => Present(b)'
      /\ \A h : EntriesOf(h)' = (EntriesOf(h) \ {a}) \cup (IF new.handle = h THEN {a} ELSE {})
  BY <1>1, <1>2, EntryWritten
<1>4. /\ application'[q] = EndedApplication
      /\ \A r \in Applications \ {q} :
           /\ application'[r] = [application[r] EXCEPT !.stale =
                @ \/ application[r].address \in touched \/ application[r].handle \in touched]
           /\ application[r] \in Application
  BY <1>1, <1>2 DEF Ended, WhitelistTypeOK
<1>5. a \in touched /\ new.handle \in touched /\ (Present(a) => entry[a].handle \in touched)
  OBVIOUS
<1> HIDE DEF touched
<1>6. \A r \in Applications \ {q} :
        /\ application'[r] \in Application
        /\ application'[r].at = application[r].at /\ application'[r].address = application[r].address
        /\ application'[r].handle = application[r].handle /\ application'[r].tier = application[r].tier
        /\ application'[r].approved = application[r].approved
        /\ ~application'[r].stale => /\ ~application[r].stale /\ application[r].address # a
                                     /\ application[r].handle # new.handle
                                     /\ Present(a) => application[r].handle # entry[a].handle
  <2> SUFFICES ASSUME NEW r \in Applications \ {q}
               PROVE  /\ application'[r] \in Application
                      /\ application'[r].at = application[r].at /\ application'[r].address = application[r].address
                      /\ application'[r].handle = application[r].handle /\ application'[r].tier = application[r].tier
                      /\ application'[r].approved = application[r].approved
                      /\ ~application'[r].stale => /\ ~application[r].stale /\ application[r].address # a
                                                   /\ application[r].handle # new.handle
                                                   /\ Present(a) => application[r].handle # entry[a].handle
    OBVIOUS
  <2>1. PICK stale \in BOOLEAN :
          /\ application'[r] = [application[r] EXCEPT !.stale = stale]
          /\ ~stale => /\ ~application[r].stale /\ application[r].address \notin touched
                       /\ application[r].handle \notin touched
    <3> DEFINE stale == application[r].stale \/ application[r].address \in touched \/ application[r].handle \in touched
    <3>1. stale \in BOOLEAN /\ application'[r] = [application[r] EXCEPT !.stale = stale]
      BY <1>4
    <3> QED
      BY <3>1
  <2>2. application[r] \in Application
    BY <1>4
  <2> QED
    BY <1>5, <2>1, <2>2 DEF Application
<1>7. raced \subseteq raced' /\ new.handle \in Handles
  BY <1>1 DEF Entry
<1>8. WhitelistTypeOK'
  <2>1. application' \in [Applications -> Application]
    <3>1. \A r \in Applications : application'[r] \in Application
      BY <1>4, <1>6, EndedSound
    <3>2. application' = [r \in Applications |-> application'[r]]
      BY <1>1 DEF Ended
    <3> QED
      BY <3>1, <3>2
  <2> QED
    BY <1>1, <1>2, <1>3, <1>7, <2>1 DEF WhitelistTypeOK
<1>9. RequestsSound'
  <2> SUFFICES ASSUME NEW r \in Applications PROVE RequestSound(application[r])'
    BY DEF RequestsSound
  <2>1. CASE r = q
    BY <1>4, <2>1, EndedSound DEF RequestSound
  <2>2. CASE r # q
    <3>1. RequestSound(application[r])
      BY DEF WhitelistInv, RequestsSound
    <3>2. \A b \in Addresses : b # a => entry'[b] = entry[b]
      BY <1>3
    <3>3. PICK h : h = application[r].handle
      OBVIOUS
    <3>4. /\ application'[r].at = application[r].at /\ application'[r].address = application[r].address
          /\ application'[r].handle = h /\ application'[r].tier = application[r].tier
          /\ application'[r].approved = application[r].approved
          /\ ~application'[r].stale => /\ ~application[r].stale /\ application[r].address # a
                                       /\ EntriesOf(h)' = EntriesOf(h)
      <4>1. ~application'[r].stale => h # new.handle /\ a \notin EntriesOf(h)
        BY <1>6, <2>2, <3>3 DEF EntriesOf
      <4>2. EntriesOf(h)' = (EntriesOf(h) \ {a}) \cup (IF new.handle = h THEN {a} ELSE {})
        BY <1>3
      <4> QED
        BY <1>6, <2>2, <3>3, <4>1, <4>2
    <3>5. /\ preapproved' = preapproved
          /\ \A b \in Addresses : Present(b) => Present(b)'
      BY <1>1, <1>3
    <3> QED
      BY <3>1, <3>2, <3>3, <3>4, <3>5 DEF RequestSound
  <2> QED
    BY <2>1, <2>2
<1>10. ApprovalsStand'
  <2>1. \A b \in Addresses \ raced : b \in standing <=> entry[b].status = "APPROVED"
    BY DEF WhitelistInv, ApprovalsStand
  <2> QED
    BY <1>1, <1>3, <1>7, <2>1 DEF ApprovalsStand
<1>11. OneEntry'
  <2> SUFFICES ASSUME NEW h \in Handles, h \notin raced', NEW b \in EntriesOf(h)', NEW c \in EntriesOf(h)'
               PROVE  b = c
    BY DEF OneEntry
  <2>1. \A x, y \in EntriesOf(h) : x = y
    BY <1>7 DEF WhitelistInv, OneEntry
  <2> QED
    BY <1>3, <2>1
<1>12. ListKept'
  <2> SUFFICES ASSUME NEW b \in Addresses, Present(b)', entry'[b].handle \notin raced',
                      preapproved[entry'[b].handle] # "none"
               PROVE  \/ AsListed(entry'[b])
                      \/ \E r \in Applications \ {q} : OnItsWay(application[r], b, entry'[b].handle)
    BY <1>1, <1>6 DEF ListKept, AsListed, OnItsWay
  <2>1. CASE b = a
    BY <1>3, <2>1
  <2>2. CASE b # a
    <3>1. entry'[b] = entry[b] /\ Present(b)
      BY <1>3, <2>2 DEF Present
    <3>2. AsListed(entry[b]) \/ \E r \in Applications : OnItsWay(application[r], b, entry[b].handle)
      BY <1>7, <3>1 DEF WhitelistInv, ListKept
    <3>3. ~OnItsWay(application[q], b, entry[b].handle)
      BY <2>2 DEF OnItsWay
    <3> QED
      BY <3>1, <3>2, <3>3
  <2> QED
    BY <2>1, <2>2
<1> QED
  BY <1>8, <1>9, <1>10, <1>11, <1>12 DEF WhitelistInv

\* A request goes on, and writes nothing.
LEMMA ProceedsKeep ==
  ASSUME WhitelistInv, NEW q \in Applications, NEW new \in Application, Proceed(q, new), RequestSound(new),
         \A a \in Addresses : Present(a) /\ entry[a].handle \notin raced
                              /\ OnItsWay(application[q], a, entry[a].handle) => OnItsWay(new, a, entry[a].handle)
  PROVE  WhitelistInv'
<1>1. /\ application' = [application EXCEPT ![q] = new] /\ UNCHANGED <<entry, preapproved, standing, raced>>
      /\ WhitelistTypeOK
  BY DEF Proceed, WhitelistInv
<1>2. /\ application' \in [Applications -> Application] /\ application'[q] = new
      /\ \A r \in Applications \ {q} : application'[r] = application[r]
  BY <1>1 DEF WhitelistTypeOK
<1>3. WhitelistTypeOK'
  BY <1>1, <1>2 DEF WhitelistTypeOK
<1>4. \A h : EntriesOf(h)' = EntriesOf(h)
  BY <1>1 DEF EntriesOf, Present
<1>5. RequestsSound'
  <2> SUFFICES ASSUME NEW r \in Applications PROVE RequestSound(application[r])'
    BY DEF RequestsSound
  <2>1. RequestSound(application'[r])
    BY <1>2 DEF WhitelistInv, RequestsSound
  <2> QED
    BY <1>1, <1>4, <2>1 DEF RequestSound, Present
<1>6. ApprovalsStand' /\ OneEntry'
  BY <1>1, <1>4 DEF WhitelistInv, ApprovalsStand, OneEntry
<1>7. ListKept'
  <2> SUFFICES ASSUME NEW b \in Addresses, Present(b), entry[b].handle \notin raced,
                      preapproved[entry[b].handle] # "none", ~AsListed(entry[b])
               PROVE  \E r \in Applications : OnItsWay(application'[r], b, entry[b].handle)
    BY <1>1 DEF ListKept, AsListed, OnItsWay, Present
  <2>1. PICK r \in Applications : OnItsWay(application[r], b, entry[b].handle)
    BY DEF WhitelistInv, ListKept
  <2> QED
    BY <1>2, <2>1
<1> QED
  BY <1>3, <1>5, <1>6, <1>7 DEF WhitelistInv

LEMMA RefusesKeep ==
  ASSUME WhitelistInv, NEW q \in Applications, Refuse(q),
         \A a \in Addresses : Present(a) => ~OnItsWay(application[q], a, entry[a].handle)
  PROVE  WhitelistInv'
<1>1. EndedApplication \in Application /\ RequestSound(EndedApplication)
  BY EndedSound DEF RequestSound
<1> QED
  BY <1>1, ProceedsKeep DEF Refuse

LEMMA Known == ASSUME WhitelistInv, NEW q \in Applications
               PROVE  /\ application[q] \in Application /\ RequestSound(application[q])
                      /\ \A a \in Addresses : entry[a] \in Entry
                      /\ \A h \in Handles : preapproved[h] \in Tiers \cup {"none"}
  BY DEF WhitelistInv, WhitelistTypeOK, RequestsSound

\* What is read is noted.
LEMMA ReadsKeep ==
  ASSUME WhitelistInv, NEW q \in Applications,
         \/ \E a \in Addresses, h \in Handles : Submit(q, a, h)
         \/ CheckHandle(q) \/ ReadList(q) \/ ClaimListed(q)
         \/ \E a \in Addresses : ClaimWithAddress(q, a)
         \/ \E w \in Holders, h \in Handles : ClaimByHandle(q, w, h)
  PROVE  WhitelistInv'
<1> DEFINE old == application[q]
<1>1. /\ old \in Application /\ RequestSound(old)
      /\ \A a \in Addresses : entry[a] \in Entry
      /\ \A h \in Handles : preapproved[h] \in Tiers \cup {"none"}
  BY Known
<1>2. old.at \in {"idle", "handle", "list", "listed", "address"}
  BY DEF Submit, CheckHandle, ReadList, ClaimListed, ClaimWithAddress, ClaimByHandle
<1>3. \A a \in Addresses : ~OnItsWay(old, a, entry[a].handle)
  BY <1>2 DEF OnItsWay
<1>4. CASE Refuse(q)
  BY <1>3, <1>4, RefusesKeep
<1>5. ASSUME NEW new \in Application, Proceed(q, new), RequestSound(new) PROVE WhitelistInv'
  BY <1>3, <1>5, ProceedsKeep
<1>6. ASSUME NEW a \in Addresses, NEW h \in Handles, Submit(q, a, h) PROVE WhitelistInv'
  <2> DEFINE new == [old EXCEPT !.at = "handle", !.address = a, !.handle = h]
  <2>1. new \in Application /\ new.at = "handle" /\ new.address = a /\ new.handle = h
    BY <1>1 DEF Application
  <2>2. Refuse(q) \/ (Proceed(q, new) /\ entry[a].status # "APPROVED")
    BY <1>6 DEF Submit, To
  <2> HIDE DEF new
  <2>3. entry[a].status # "APPROVED" => RequestSound(new)
    BY <2>1 DEF RequestSound
  <2> QED
    BY <1>4, <1>5, <2>1, <2>2, <2>3
<1>7. CASE CheckHandle(q)
  <2> DEFINE new == [old EXCEPT !.at = "list"]
  <2>1. /\ new \in Application /\ new.at = "list" /\ new.address = old.address /\ new.handle = old.handle
        /\ new.stale = old.stale /\ old.at = "handle"
    BY <1>1, <1>7 DEF Application, CheckHandle
  <2>2. Refuse(q) \/ (Proceed(q, new) /\ EntriesOf(old.handle) \subseteq {old.address})
    BY <1>7 DEF CheckHandle, To
  <2> HIDE DEF new, old
  <2>3. EntriesOf(old.handle) \subseteq {old.address} => RequestSound(new)
    BY <1>1, <2>1 DEF RequestSound
  <2> QED
    BY <1>4, <1>5, <2>1, <2>2, <2>3
<1>8. CASE ReadList(q)
  <2> DEFINE new == [old EXCEPT !.at = "write", !.tier = preapproved[old.handle]]
  <2>1. old.at = "list" /\ old.handle \in Handles /\ Proceed(q, new)
    BY <1>1, <1>8 DEF ReadList, RequestSound, To
  <2>2. /\ new \in Application /\ new.at = "write" /\ new.address = old.address /\ new.handle = old.handle
        /\ new.stale = old.stale /\ new.tier = preapproved[old.handle]
    BY <1>1, <2>1 DEF Application
  <2> HIDE DEF new, old
  <2>3. RequestSound(new)
    BY <1>1, <2>1, <2>2 DEF RequestSound
  <2> QED
    BY <1>5, <2>1, <2>2, <2>3
<1>9. CASE ClaimListed(q)
  <2> DEFINE new == [old EXCEPT !.at = "address"]
  <2>1. /\ new \in Application /\ new.at = "address" /\ new.handle = old.handle /\ new.stale = old.stale
        /\ old.at = "listed"
    BY <1>1, <1>9 DEF Application, ClaimListed
  <2>2. Refuse(q) \/ Proceed(q, new)
    BY <1>9 DEF ClaimListed, To
  <2> HIDE DEF new, old
  <2>3. RequestSound(new)
    BY <1>1, <2>1 DEF RequestSound
  <2> QED
    BY <1>4, <1>5, <2>1, <2>2, <2>3
<1>10. ASSUME NEW a \in Addresses, ClaimWithAddress(q, a) PROVE WhitelistInv'
  <2> DEFINE new == [old EXCEPT !.at = "create", !.address = a]
  <2>1. /\ new \in Application /\ new.at = "create" /\ new.handle = old.handle /\ new.stale = old.stale
        /\ new.address = a /\ old.at = "address"
    BY <1>1, <1>10 DEF Application, ClaimWithAddress
  <2>2. Refuse(q) \/ Proceed(q, new)
    BY <1>10 DEF ClaimWithAddress, To
  <2> HIDE DEF new, old
  <2>3. RequestSound(new)
    BY <1>1, <2>1 DEF RequestSound
  <2> QED
    BY <1>4, <1>5, <2>1, <2>2, <2>3
<1>11. ASSUME NEW w \in Holders, NEW h \in Handles, ClaimByHandle(q, w, h) PROVE WhitelistInv'
  <2>1. CASE EntriesOf(h) = {} /\ Proceed(q, [To(q, "listed") EXCEPT !.handle = h, !.holder = w])
    <3> DEFINE new == [old EXCEPT !.at = "listed", !.handle = h, !.holder = w]
    <3>1. new \in Application /\ new.at = "listed" /\ new.handle = h /\ Proceed(q, new)
      BY <1>1, <2>1 DEF Application, To
    <3> HIDE DEF new
    <3>2. RequestSound(new)
      BY <2>1, <3>1 DEF RequestSound
    <3> QED
      BY <1>5, <3>1, <3>2
  <2>2. ASSUME NEW a \in EntriesOf(h),
               Proceed(q, [To(q, "rebind") EXCEPT !.address = a, !.handle = h, !.holder = w])
        PROVE  WhitelistInv'
    <3> DEFINE new == [old EXCEPT !.at = "rebind", !.address = a, !.handle = h, !.holder = w]
    <3>1. a \in Addresses /\ Present(a)
      BY <2>2 DEF EntriesOf
    <3>2. new \in Application /\ new.at = "rebind" /\ new.address = a /\ Proceed(q, new)
      BY <1>1, <2>2, <3>1 DEF Application, To
    <3> HIDE DEF new
    <3>3. RequestSound(new)
      BY <3>1, <3>2 DEF RequestSound
    <3> QED
      BY <1>5, <3>2, <3>3
  <2> QED
    BY <1>4, <1>11, <2>1, <2>2 DEF ClaimByHandle
<1> QED
  BY <1>6, <1>7, <1>8, <1>9, <1>10, <1>11

\* A listing goes on to the one entry of its handle, or there is none.
LEMMA FindsKeep ==
  ASSUME WhitelistInv, NEW q \in Applications, FindNoEntry(q) \/ \E a \in Addresses : FindEntry(q, a)
  PROVE  WhitelistInv'
<1> DEFINE old == application[q]
<1>1. /\ old \in Application /\ RequestSound(old)
      /\ \A a \in Addresses : entry[a] \in Entry
  BY Known
<1>2. old.at = "find"
  BY DEF FindNoEntry, FindEntry
<1>3. CASE FindNoEntry(q)
  <2>1. Refuse(q) /\ EntriesOf(old.handle) = {}
    BY <1>3 DEF FindNoEntry
  <2>2. \A a \in Addresses : Present(a) => ~OnItsWay(old, a, entry[a].handle)
    BY <2>1 DEF OnItsWay, EntriesOf
  <2> QED
    BY <2>1, <2>2, RefusesKeep
<1>4. ASSUME NEW a \in Addresses, FindEntry(q, a) PROVE WhitelistInv'
  <2> DEFINE new == [old EXCEPT !.at = "approve", !.address = a, !.approved = (entry[a].status = "APPROVED")]
  <2>1. Proceed(q, new) /\ a \in EntriesOf(old.handle)
    BY <1>4 DEF FindEntry, To
  <2>2. /\ new \in Application /\ new.at = "approve" /\ new.address = a /\ new.handle = old.handle
        /\ new.tier = old.tier /\ new.stale = old.stale /\ (new.approved <=> entry[a].status = "APPROVED")
    BY <1>1 DEF Application
  <2> HIDE DEF new, old
  <2>3. RequestSound(new)
    BY <1>1, <1>2, <2>1, <2>2 DEF RequestSound, EntriesOf
  <2>4. ASSUME NEW b \in Addresses, Present(b), entry[b].handle \notin raced, OnItsWay(old, b, entry[b].handle)
        PROVE  OnItsWay(new, b, entry[b].handle)
    <3>1. old.handle = entry[b].handle /\ b \in EntriesOf(old.handle) /\ old.handle \in Handles \ raced
      BY <1>1, <1>2, <2>4 DEF OnItsWay, EntriesOf, RequestSound
    <3>2. a = b
      BY <2>1, <3>1 DEF WhitelistInv, OneEntry
    <3> QED
      BY <2>2, <3>1, <3>2 DEF OnItsWay
  <2> QED
    BY <2>1, <2>2, <2>3, <2>4, ProceedsKeep DEF old
<1> QED
  BY <1>3, <1>4

LEMMA UpsertKeeps == ASSUME WhitelistInv, NEW q \in Applications, UpsertEntry(q) PROVE WhitelistInv'
<1> DEFINE r == application[q]
           a == r.address
           h == r.handle
<1>1. r \in Application /\ r.at = "write" /\ RequestSound(r)
  BY Known DEF UpsertEntry
<1>2. /\ a \in Addresses /\ h \in Handles
      /\ ~r.stale => /\ entry[a].status # "APPROVED" /\ EntriesOf(h) \subseteq {a}
                     /\ r.tier = preapproved[h]
  BY <1>1 DEF RequestSound
<1>3. entry[a] \in Entry
  BY <1>2, Known
<1> DEFINE new == IF r.tier = "none" THEN [entry[a] EXCEPT !.status = "PENDING", !.handle = h]
                  ELSE [entry[a] EXCEPT !.status = "APPROVED", !.handle = h, !.tier = r.tier]
<1>4. /\ new \in Entry /\ new.handle = h
      /\ IF r.tier = "none" THEN new.status = "PENDING" ELSE new.status = "APPROVED" /\ new.tier = r.tier
  BY <1>1, <1>2, <1>3 DEF Application, Entry
<1>5. WriteEntry(q, a, new)
  BY DEF UpsertEntry
<1> HIDE DEF new
<1>6. raced' = (IF r.stale THEN raced \cup {a, h} ELSE raced)
  BY <1>4, <1>5 DEF WriteEntry
<1>7. a \notin raced' => a \notin standing
  BY <1>2, <1>6 DEF WhitelistInv, ApprovalsStand
<1>8. h \notin raced' => EntriesOf(h) \subseteq {a} /\ r.tier = preapproved[h]
  BY <1>2, <1>6
<1>9. h \notin raced' /\ preapproved[h] # "none" => AsListed(new)
  BY <1>4, <1>8 DEF AsListed
<1> HIDE DEF a, h
<1> QED
  BY <1>1, <1>2, <1>4, <1>5, <1>7, <1>8, <1>9, WritesKeep

LEMMA ApproveKeeps == ASSUME WhitelistInv, NEW q \in Applications, ApproveEntry(q) PROVE WhitelistInv'
<1> DEFINE r == application[q]
           a == r.address
           e == entry[a]
           h == e.handle
<1>1. r \in Application /\ r.at = "approve" /\ RequestSound(r)
  BY Known DEF ApproveEntry
<1>2. /\ a \in Addresses /\ Present(a) /\ r.tier \in Tiers
      /\ ~r.stale => h = r.handle /\ r.tier = preapproved[h] /\ (r.approved <=> e.status = "APPROVED")
  BY <1>1 DEF RequestSound
<1>3. e \in Entry
  BY <1>2, Known
<1> DEFINE new == [e EXCEPT !.tier = r.tier, !.status = IF r.approved THEN @ ELSE "APPROVED"]
<1>4. /\ new \in Entry /\ new.handle = h /\ new.tier = r.tier /\ new.status # "ABSENT"
      /\ new.status = IF r.approved THEN e.status ELSE "APPROVED"
  BY <1>1, <1>2, <1>3 DEF Application, Entry, Present
<1>5. WriteEntry(q, a, new)
  BY DEF ApproveEntry
<1> HIDE DEF new
<1>6. raced' = (IF r.stale THEN raced \cup {a, h} ELSE raced)
  BY <1>4, <1>5 DEF WriteEntry
<1>7. a \notin raced' => new.status = "APPROVED" \/ a \notin standing
  BY <1>2, <1>4, <1>6 DEF WhitelistInv, ApprovalsStand
<1>8. h \notin raced' => EntriesOf(h) \subseteq {a}
  <2>1. a \in EntriesOf(h) /\ h \in Handles
    BY <1>2, <1>3 DEF EntriesOf, Entry
  <2> QED
    BY <1>6, <2>1 DEF WhitelistInv, OneEntry
<1>9. h \notin raced' => AsListed(new)
  BY <1>2, <1>4, <1>6 DEF AsListed
<1> HIDE DEF e, h
<1> QED
  BY <1>1, <1>2, <1>4, <1>5, <1>7, <1>8, <1>9, WritesKeep

LEMMA RebindKeeps == ASSUME WhitelistInv, NEW q \in Applications, Rebind(q) PROVE WhitelistInv'
<1> DEFINE r == application[q]
           a == r.address
           e == entry[a]
           h == e.handle
<1>1. r \in Application /\ r.at = "rebind" /\ RequestSound(r)
  BY Known DEF Rebind
<1>2. a \in Addresses /\ Present(a)
  BY <1>1 DEF RequestSound
<1>3. e \in Entry
  BY <1>2, Known
<1> DEFINE new == [e EXCEPT !.holder = r.holder]
<1>4. new \in Entry /\ new.handle = h /\ new.tier = e.tier /\ new.status = e.status /\ new.status # "ABSENT"
  BY <1>1, <1>2, <1>3 DEF Application, Entry, Present
<1>5. WriteEntry(q, a, new)
  BY DEF Rebind
<1> HIDE DEF new
<1>6. raced \subseteq raced'
  BY <1>5 DEF WriteEntry
<1>7. a \notin raced' => new.status = "APPROVED" \/ a \notin standing
  BY <1>2, <1>4, <1>6 DEF WhitelistInv, ApprovalsStand
<1>8. h \notin raced' => EntriesOf(h) \subseteq {a}
  <2>1. a \in EntriesOf(h) /\ h \in Handles
    BY <1>2, <1>3 DEF EntriesOf, Entry
  <2> QED
    BY <1>6, <2>1 DEF WhitelistInv, OneEntry
<1>9. h \notin raced' /\ preapproved[h] # "none" =>
        AsListed(new) \/ \E x \in Applications \ {q} : OnItsWay(application[x], a, h)
  <2> SUFFICES ASSUME h \notin raced, preapproved[h] # "none"
               PROVE  AsListed(new) \/ \E x \in Applications \ {q} : OnItsWay(application[x], a, h)
    BY <1>6
  <2>1. AsListed(e) \/ \E x \in Applications : OnItsWay(application[x], a, h)
    BY <1>2 DEF WhitelistInv, ListKept
  <2>2. ~OnItsWay(r, a, h)
    BY <1>1 DEF OnItsWay
  <2>3. AsListed(e) => AsListed(new)
    BY <1>4 DEF AsListed
  <2> QED
    BY <2>1, <2>2, <2>3
<1> HIDE DEF e, h
<1> QED
  BY <1>1, <1>2, <1>4, <1>5, <1>7, <1>8, <1>9, WritesKeep

LEMMA EntryKeeps == ASSUME WhitelistInv, NEW q \in Applications, CreateEntry(q) PROVE WhitelistInv'
<1> DEFINE r == application[q]
           a == r.address
           h == r.handle
           new == [status |-> "APPROVED", handle |-> h, tier |-> "APROBBED", holder |-> r.holder]
<1>1. r \in Application /\ r.at = "create" /\ RequestSound(r)
  BY Known DEF CreateEntry
<1>2. a \in Addresses /\ h \in Handles /\ (~r.stale => EntriesOf(h) = {})
  BY <1>1 DEF RequestSound
<1>3. new \in Entry /\ new.handle = h /\ new.tier = "APROBBED" /\ new.status = "APPROVED"
  BY <1>1, <1>2 DEF Application, Entry, Tiers
<1>4. CASE Refuse(q)
  BY <1>1, <1>4, RefusesKeep DEF OnItsWay
<1>5. CASE WriteEntry(q, a, new)
  <2> HIDE DEF new
  <2>1. raced' = (IF r.stale THEN raced \cup {a, h} ELSE raced)
    BY <1>3, <1>5 DEF WriteEntry
  <2>2. h \notin raced' => EntriesOf(h) \subseteq {a}
    BY <1>2, <2>1
  <2>3. AsListed(new)
    BY <1>3 DEF AsListed
  <2> HIDE DEF a, h
  <2> QED
    BY <1>1, <1>2, <1>3, <1>5, <2>2, <2>3, WritesKeep
<1> QED
  BY <1>4, <1>5 DEF CreateEntry

\* A handle goes on the list: what was read of it is stale, and its entry is looked for.
LEMMA AdminListKeeps == ASSUME WhitelistInv, NEW q \in Applications, NEW h \in Handles, NEW tier \in Tiers,
                          ListHandle(q, h, tier)
                   PROVE  WhitelistInv'
<1> DEFINE new == [application[q] EXCEPT !.at = "find", !.handle = h, !.tier = tier]
<1>1. /\ application[q].at = "idle" /\ preapproved' = [preapproved EXCEPT ![h] = tier]
      /\ application' = [Ended(q, {h}) EXCEPT ![q] = new] /\ UNCHANGED <<entry, standing, raced>>
  BY DEF ListHandle, To
<1>2. WhitelistTypeOK
  BY DEF WhitelistInv
<1>3. new \in Application /\ new.at = "find" /\ new.handle = h /\ new.tier = tier
  BY <1>2 DEF WhitelistTypeOK, Application
<1> HIDE DEF new
<1>4. preapproved' \in [Handles -> Tiers \cup {"none"}] /\ preapproved'[h] = tier
      /\ \A g \in Handles \ {h} : preapproved'[g] = preapproved[g]
  BY <1>1, <1>2 DEF WhitelistTypeOK
<1>5. /\ application'[q] = new
      /\ \A r \in Applications \ {q} :
           /\ application'[r] = [application[r] EXCEPT !.stale =
                @ \/ application[r].address \in {h} \/ application[r].handle \in {h}]
           /\ application[r] \in Application
  BY <1>1, <1>2 DEF Ended, WhitelistTypeOK
<1>6. \A r \in Applications \ {q} :
        /\ application'[r] \in Application
        /\ application'[r].at = application[r].at /\ application'[r].address = application[r].address
        /\ application'[r].handle = application[r].handle /\ application'[r].tier = application[r].tier
        /\ application'[r].approved = application[r].approved
        /\ ~application'[r].stale => ~application[r].stale /\ application[r].handle # h
  <2> SUFFICES ASSUME NEW r \in Applications \ {q}
               PROVE  /\ application'[r] \in Application
                      /\ application'[r].at = application[r].at /\ application'[r].address = application[r].address
                      /\ application'[r].handle = application[r].handle /\ application'[r].tier = application[r].tier
                      /\ application'[r].approved = application[r].approved
                      /\ ~application'[r].stale => ~application[r].stale /\ application[r].handle # h
    OBVIOUS
  <2>1. PICK stale \in BOOLEAN : /\ application'[r] = [application[r] EXCEPT !.stale = stale]
                                 /\ ~stale => ~application[r].stale /\ application[r].handle # h
    <3> DEFINE stale == application[r].stale \/ application[r].address \in {h} \/ application[r].handle \in {h}
    <3>1. stale \in BOOLEAN /\ application'[r] = [application[r] EXCEPT !.stale = stale]
      BY <1>5
    <3> QED
      BY <3>1
  <2>2. application[r] \in Application
    BY <1>5
  <2> QED
    BY <2>1, <2>2 DEF Application
<1>7. WhitelistTypeOK'
  <2>1. application' \in [Applications -> Application]
    <3>1. \A r \in Applications : application'[r] \in Application
      BY <1>3, <1>5, <1>6
    <3>2. application' = [r \in Applications |-> application'[r]]
      BY <1>1 DEF Ended
    <3> QED
      BY <3>1, <3>2
  <2> QED
    BY <1>1, <1>2, <1>4, <2>1 DEF WhitelistTypeOK
<1>8. \A g : EntriesOf(g)' = EntriesOf(g)
  BY <1>1 DEF EntriesOf, Present
<1>9. RequestsSound'
  <2> SUFFICES ASSUME NEW r \in Applications PROVE RequestSound(application[r])'
    BY DEF RequestsSound
  <2>1. CASE r = q
    BY <1>3, <1>4, <1>5, <2>1 DEF RequestSound
  <2>2. CASE r # q
    <3>1. RequestSound(application[r])
      BY Known
    <3>2. /\ application'[r].at = application[r].at /\ application'[r].address = application[r].address
          /\ application'[r].handle = application[r].handle /\ application'[r].tier = application[r].tier
          /\ application'[r].approved = application[r].approved
          /\ ~application'[r].stale => ~application[r].stale /\ application[r].handle # h
      BY <1>6, <2>2
    <3> QED
      BY <1>1, <1>4, <1>8, <3>1, <3>2 DEF RequestSound, Present
  <2> QED
    BY <2>1, <2>2
<1>10. ApprovalsStand' /\ OneEntry'
  BY <1>1, <1>8 DEF WhitelistInv, ApprovalsStand, OneEntry
<1>11. ListKept'
  <2>0. entry' = entry /\ raced' = raced
    BY <1>1
  <2> SUFFICES ASSUME NEW b \in Addresses, Present(b), entry[b].handle \notin raced,
                      preapproved'[entry[b].handle] # "none"
               PROVE  AsListed(entry[b])' \/ \E r \in Applications : OnItsWay(application'[r], b, entry[b].handle)
    BY <2>0 DEF ListKept, OnItsWay, Present, AsListed
  <2>1. CASE entry[b].handle = h
    BY <1>3, <1>5, <2>1 DEF OnItsWay
  <2>2. CASE entry[b].handle # h
    <3>1. entry[b].handle \in Handles
      BY <1>2 DEF WhitelistTypeOK, Entry
    <3>2. AsListed(entry[b]) \/ \E r \in Applications : OnItsWay(application[r], b, entry[b].handle)
      BY <1>4, <2>2, <3>1 DEF WhitelistInv, ListKept
    <3>3. AsListed(entry[b]) => AsListed(entry[b])'
      BY <1>1, <1>4, <2>2, <3>1 DEF AsListed
    <3>4. \A r \in Applications : OnItsWay(application[r], b, entry[b].handle) => OnItsWay(application'[r], b, entry[b].handle)
      BY <1>1, <1>6 DEF OnItsWay
    <3> QED
      BY <3>2, <3>3, <3>4
  <2> QED
    BY <2>1, <2>2
<1> QED
  BY <1>7, <1>9, <1>10, <1>11 DEF WhitelistInv

LEMMA ReviewKeeps == ASSUME WhitelistInv, NEW a \in Addresses, NEW status \in {"APPROVED", "REJECTED"},
                            ReviewEntry(a, status)
                     PROVE  WhitelistInv'
<1> DEFINE new == [entry[a] EXCEPT !.status = status]
<1>1. WhitelistTypeOK /\ entry[a] \in Entry
  BY DEF WhitelistInv, WhitelistTypeOK
<1>2. /\ Present(a) /\ entry' = [entry EXCEPT ![a] = new]
      /\ application' = [q \in Applications |->
           [application[q] EXCEPT !.stale = @ \/ application[q].address = a
                                              \/ application[q].handle = entry[a].handle]]
      /\ standing' = (IF status = "APPROVED" THEN standing \cup {a} ELSE standing \ {a})
      /\ UNCHANGED <<preapproved, raced>>
  BY <1>1 DEF ReviewEntry, WhitelistTypeOK
<1>3. /\ new \in Entry /\ new.status = status /\ new.handle = entry[a].handle /\ new.tier = entry[a].tier
      /\ new.status # "ABSENT"
  BY <1>1 DEF Entry
<1> HIDE DEF new
<1>4. /\ entry' \in [Addresses -> Entry] /\ entry'[a] = new
      /\ \A b \in Addresses \ {a} : entry'[b] = entry[b]
      /\ \A b \in Addresses : Present(b)' <=> Present(b)
  BY <1>1, <1>2, <1>3, EntryWritten DEF Present
<1>5. \A h : EntriesOf(h)' = EntriesOf(h)
  <2>1. \A b \in Addresses : entry'[b].handle = entry[b].handle
    BY <1>3, <1>4
  <2> QED
    BY <1>4, <2>1 DEF EntriesOf
<1>6. \A r \in Applications :
        /\ application'[r] \in Application
        /\ application'[r].at = application[r].at /\ application'[r].address = application[r].address
        /\ application'[r].handle = application[r].handle /\ application'[r].tier = application[r].tier
        /\ application'[r].approved = application[r].approved
        /\ ~application'[r].stale => ~application[r].stale /\ application[r].address # a
  <2> SUFFICES ASSUME NEW r \in Applications
               PROVE  /\ application'[r] \in Application
                      /\ application'[r].at = application[r].at /\ application'[r].address = application[r].address
                      /\ application'[r].handle = application[r].handle /\ application'[r].tier = application[r].tier
                      /\ application'[r].approved = application[r].approved
                      /\ ~application'[r].stale => ~application[r].stale /\ application[r].address # a
    OBVIOUS
  <2>1. application[r] \in Application
    BY <1>1 DEF WhitelistTypeOK
  <2>2. PICK stale \in BOOLEAN : /\ application'[r] = [application[r] EXCEPT !.stale = stale]
                                 /\ ~stale => ~application[r].stale /\ application[r].address # a
    <3> DEFINE stale == application[r].stale \/ application[r].address = a \/ application[r].handle = entry[a].handle
    <3>1. stale \in BOOLEAN /\ application'[r] = [application[r] EXCEPT !.stale = stale]
      BY <1>2
    <3> QED
      BY <3>1
  <2> QED
    BY <2>1, <2>2 DEF Application
<1>7. WhitelistTypeOK'
  <2>1. application' \in [Applications -> Application]
    <3>1. application' = [r \in Applications |-> application'[r]]
      BY <1>2
    <3> QED
      BY <1>6, <3>1
  <2> QED
    BY <1>1, <1>2, <1>4, <2>1 DEF WhitelistTypeOK
<1>8. RequestsSound'
  <2> SUFFICES ASSUME NEW r \in Applications PROVE RequestSound(application[r])'
    BY DEF RequestsSound
  <2>1. RequestSound(application[r])
    BY Known
  <2>2. /\ application'[r].at = application[r].at /\ application'[r].address = application[r].address
        /\ application'[r].handle = application[r].handle /\ application'[r].tier = application[r].tier
        /\ application'[r].approved = application[r].approved
        /\ ~application'[r].stale => ~application[r].stale /\ application[r].address # a
    BY <1>6
  <2> QED
    BY <1>2, <1>4, <1>5, <2>1, <2>2 DEF RequestSound
<1>9. ApprovalsStand'
  BY <1>2, <1>3, <1>4 DEF WhitelistInv, ApprovalsStand
<1>10. OneEntry'
  BY <1>2, <1>5 DEF WhitelistInv, OneEntry
<1>11. ListKept'
  <2> SUFFICES ASSUME NEW b \in Addresses, Present(b), entry'[b].handle \notin raced,
                      preapproved[entry'[b].handle] # "none"
               PROVE  AsListed(entry'[b]) \/ \E r \in Applications : OnItsWay(application'[r], b, entry'[b].handle)
    BY <1>2, <1>4 DEF ListKept, OnItsWay, AsListed
  <2>1. entry'[b].handle = entry[b].handle /\ (AsListed(entry[b]) => AsListed(entry'[b]))
    BY <1>3, <1>4 DEF AsListed
  <2>2. AsListed(entry[b]) \/ \E r \in Applications : OnItsWay(application[r], b, entry[b].handle)
    BY <2>1 DEF WhitelistInv, ListKept
  <2>3. \A r \in Applications : OnItsWay(application[r], b, entry[b].handle) => OnItsWay(application'[r], b, entry[b].handle)
    BY <1>6 DEF OnItsWay
  <2> QED
    BY <2>1, <2>2, <2>3
<1> QED
  BY <1>7, <1>8, <1>9, <1>10, <1>11 DEF WhitelistInv

LEMMA ResetsKeep == ASSUME WhitelistInv, NEW S \in SUBSET Addresses, ResetClaims(S) PROVE WhitelistInv'
<1>1. /\ WhitelistTypeOK /\ UNCHANGED <<preapproved, application, standing, raced>>
      /\ entry' = [a \in Addresses |-> IF a \in S THEN [entry[a] EXCEPT !.holder = "nobody"] ELSE entry[a]]
  BY DEF WhitelistInv, ResetClaims
<1>2. \A a \in Addresses : /\ entry'[a] \in Entry /\ entry'[a].status = entry[a].status
                           /\ entry'[a].handle = entry[a].handle /\ entry'[a].tier = entry[a].tier
  BY <1>1 DEF WhitelistTypeOK, Entry
<1>3. \A a \in Addresses : Present(a)' <=> Present(a)
  BY <1>2 DEF Present
<1>4. \A h : EntriesOf(h)' = EntriesOf(h)
  BY <1>2, <1>3 DEF EntriesOf
<1>5. WhitelistTypeOK'
  <2>1. entry' \in [Addresses -> Entry]
    BY <1>1, <1>2
  <2> QED
    BY <1>1, <2>1 DEF WhitelistTypeOK
<1>6. RequestsSound'
  <2> SUFFICES ASSUME NEW r \in Applications PROVE RequestSound(application[r])'
    BY DEF RequestsSound
  <2>1. RequestSound(application[r])
    BY Known
  <2> QED
    BY <1>1, <1>2, <1>3, <1>4, <2>1 DEF RequestSound
<1>7. ApprovalsStand' /\ OneEntry'
  BY <1>1, <1>2, <1>4 DEF WhitelistInv, ApprovalsStand, OneEntry
<1>8. ListKept'
  <2> SUFFICES ASSUME NEW b \in Addresses, Present(b), entry[b].handle \notin raced,
                      preapproved[entry[b].handle] # "none"
               PROVE  AsListed(entry[b]) \/ \E r \in Applications : OnItsWay(application[r], b, entry[b].handle)
    BY <1>1, <1>2, <1>3 DEF ListKept, OnItsWay, AsListed
  <2> QED
    BY DEF WhitelistInv, ListKept
<1> QED
  BY <1>5, <1>6, <1>7, <1>8 DEF WhitelistInv

\* A listing that is broken off leaves its handle to nobody.
LEMMA BreaksKeep == ASSUME WhitelistInv, NEW q \in Applications, BreakOff(q) PROVE WhitelistInv'
<1> DEFINE old == application[q]
<1>1. /\ application' = [application EXCEPT ![q] = EndedApplication] /\ UNCHANGED <<entry, preapproved, standing>>
      /\ raced' = (IF old.at \in {"find", "approve"} THEN raced \cup {old.handle} ELSE raced)
      /\ WhitelistTypeOK
  BY DEF BreakOff, WhitelistInv
<1>2. /\ application' \in [Applications -> Application] /\ application'[q] = EndedApplication
      /\ \A r \in Applications \ {q} : application'[r] = application[r]
  BY <1>1, EndedSound DEF WhitelistTypeOK
<1>3. RequestSound(old)
  BY Known
<1>4. WhitelistTypeOK'
  BY <1>1, <1>2, <1>3 DEF WhitelistTypeOK, RequestSound
<1>5. \A h : EntriesOf(h)' = EntriesOf(h)
  BY <1>1 DEF EntriesOf, Present
<1>6. RequestsSound'
  <2> SUFFICES ASSUME NEW r \in Applications PROVE RequestSound(application[r])'
    BY DEF RequestsSound
  <2>1. CASE r = q
    BY <1>2, <2>1, EndedSound DEF RequestSound
  <2>2. CASE r # q
    <3>1. RequestSound(application[r]) /\ application'[r] = application[r]
      BY <1>2, <2>2, Known
    <3> QED
      BY <1>1, <1>5, <3>1 DEF RequestSound, Present
  <2> QED
    BY <2>1, <2>2
<1>7. raced \subseteq raced'
  BY <1>1
<1>8. ApprovalsStand' /\ OneEntry'
  BY <1>1, <1>5, <1>7 DEF WhitelistInv, ApprovalsStand, OneEntry
<1>9. ListKept'
  <2> SUFFICES ASSUME NEW b \in Addresses, Present(b), entry[b].handle \notin raced',
                      preapproved[entry[b].handle] # "none"
               PROVE  AsListed(entry[b]) \/ \E r \in Applications : OnItsWay(application'[r], b, entry[b].handle)
    BY <1>1 DEF ListKept, OnItsWay, AsListed, Present
  <2>1. AsListed(entry[b]) \/ \E r \in Applications : OnItsWay(application[r], b, entry[b].handle)
    BY <1>7 DEF WhitelistInv, ListKept
  <2>2. ~OnItsWay(old, b, entry[b].handle)
    BY <1>1 DEF OnItsWay
  <2> QED
    BY <1>2, <2>1, <2>2
<1> QED
  BY <1>4, <1>6, <1>8, <1>9 DEF WhitelistInv

LEMMA WhitelistStart == WhitelistInit => WhitelistInv
<1> SUFFICES ASSUME WhitelistInit PROVE WhitelistInv
  OBVIOUS
<1> DEFINE h0 == CHOOSE h \in Handles : TRUE
<1>1. h0 \in Handles
  BY HandlesAssumption
<1> HIDE DEF h0
<1>2. /\ entry = [a \in Addresses |-> [status |-> "ABSENT", handle |-> h0, tier |-> "APROBBED", holder |-> "nobody"]]
      /\ preapproved = [h \in Handles |-> "none"]
      /\ application = [q \in Applications |-> NoApplication]
      /\ standing = {} /\ raced = {}
  BY DEF WhitelistInit, h0
<1>3. NoApplication \in Application /\ NoApplication.at = "idle"
  BY DEF NoApplication, Application
<1>4. \A a \in Addresses : ~Present(a) /\ entry[a].status = "ABSENT"
  BY <1>2 DEF Present
<1>5. WhitelistTypeOK
  BY <1>1, <1>2, <1>3 DEF WhitelistTypeOK, Entry, Tiers
<1>6. RequestsSound
  BY <1>2, <1>3 DEF RequestsSound, RequestSound
<1>7. ApprovalsStand /\ OneEntry /\ ListKept
  BY <1>2, <1>4 DEF ApprovalsStand, OneEntry, ListKept, EntriesOf
<1> QED
  BY <1>5, <1>6, <1>7 DEF WhitelistInv

LEMMA WhitelistSteps == WhitelistInv /\ [WhitelistNext]_whitelistVars => WhitelistInv'
<1> SUFFICES ASSUME WhitelistInv, [WhitelistNext]_whitelistVars PROVE WhitelistInv'
  OBVIOUS
<1>1. ASSUME NEW q \in Applications,
             \/ CheckHandle(q) \/ ReadList(q) \/ ClaimListed(q)
             \/ \E a \in Addresses : ClaimWithAddress(q, a)
             \/ \E a \in Addresses, h \in Handles : Submit(q, a, h)
             \/ \E w \in Holders, h \in Handles : ClaimByHandle(q, w, h)
      PROVE  WhitelistInv'
  BY <1>1, ReadsKeep
<1>2. ASSUME NEW q \in Applications, FindNoEntry(q) \/ \E a \in Addresses : FindEntry(q, a) PROVE WhitelistInv'
  BY <1>2, FindsKeep
<1>3. ASSUME NEW q \in Applications, UpsertEntry(q) \/ ApproveEntry(q) \/ Rebind(q) \/ CreateEntry(q) \/ BreakOff(q)
      PROVE  WhitelistInv'
  BY <1>3, UpsertKeeps, ApproveKeeps, RebindKeeps, EntryKeeps, BreaksKeep
<1>4. ASSUME NEW q \in Applications, NEW h \in Handles, NEW tier \in Tiers, ListHandle(q, h, tier)
      PROVE  WhitelistInv'
  BY <1>4, AdminListKeeps
<1>5. ASSUME NEW a \in Addresses, NEW status \in {"APPROVED", "REJECTED"}, ReviewEntry(a, status)
      PROVE  WhitelistInv'
  BY <1>5, ReviewKeeps
<1>6. ASSUME NEW S \in SUBSET {a \in Addresses : entry[a].holder # "nobody"}, ResetClaims(S) PROVE WhitelistInv'
  <2>1. S \in SUBSET Addresses
    OBVIOUS
  <2> QED
    BY <1>6, <2>1, ResetsKeep
<1>7. CASE UNCHANGED whitelistVars
  <2>1. UNCHANGED <<entry, preapproved, application, standing, raced>>
    BY <1>7 DEF whitelistVars
  <2>2. \A h : EntriesOf(h)' = EntriesOf(h)
    BY <2>1 DEF EntriesOf, Present
  <2>3. WhitelistTypeOK' /\ ApprovalsStand' /\ OneEntry'
    BY <2>1, <2>2 DEF WhitelistInv, WhitelistTypeOK, ApprovalsStand, OneEntry
  <2>4. RequestsSound' /\ ListKept'
    BY <2>1, <2>2 DEF WhitelistInv, RequestsSound, RequestSound, ListKept, OnItsWay, AsListed, Present
  <2> QED
    BY <2>3, <2>4 DEF WhitelistInv
<1> QED
  BY <1>1, <1>2, <1>3, <1>4, <1>5, <1>6, <1>7 DEF WhitelistNext

LEMMA WhitelistAlways == WhitelistSpec => []WhitelistInv
  BY WhitelistStart, WhitelistSteps, PTL DEF WhitelistSpec

\* Approvals are taken back by reviews only, a handle has one entry and the entry of
\* a listed handle is as the list says, unless one of its writes followed from a
\* stale read (submitNftWhitelistEntry, preapproveNftWhitelistHandles and
\* claimNftWhitelistByVerifiedHandle read and write in statements of their own).
THEOREM WhitelistToldAlways == WhitelistSpec => []WhitelistTold
<1>1. WhitelistInv => WhitelistTold
  <2> SUFFICES ASSUME WhitelistInv, NEW a \in Addresses, Present(a), {a, entry[a].handle} \cap raced = {}
               PROVE  /\ a \in standing <=> entry[a].status = "APPROVED"
                      /\ \A b \in EntriesOf(entry[a].handle) : b \notin raced => b = a
                      /\ preapproved[entry[a].handle] # "none" /\ ~ListingOf(entry[a].handle) =>
                           /\ entry[a].status # "PENDING"
                           /\ entry[a].status = "APPROVED" =>
                                entry[a].tier \in {preapproved[entry[a].handle], "APROBBED"}
    BY DEF WhitelistTold
  <2>1. a \in standing <=> entry[a].status = "APPROVED"
    BY DEF WhitelistInv, ApprovalsStand
  <2>2. \A b \in EntriesOf(entry[a].handle) : b = a
    <3>1. entry[a].handle \in Handles \ raced /\ a \in EntriesOf(entry[a].handle)
      BY DEF WhitelistInv, WhitelistTypeOK, Entry, EntriesOf
    <3> QED
      BY <3>1 DEF WhitelistInv, OneEntry
  <2>3. preapproved[entry[a].handle] # "none" /\ ~ListingOf(entry[a].handle) => AsListed(entry[a])
    BY DEF WhitelistInv, ListKept, OnItsWay, ListingOf
  <2> QED
    BY <2>1, <2>2, <2>3 DEF AsListed
<1> QED
  BY <1>1, WhitelistAlways, PTL
=============================================================================
