------------------------------ MODULE NftMint -------------------------------
(***************************************************************************)
(* Minting of a collection: the mint route of backend/src/server.ts, which *)
(* decides how many pieces a wallet may ask for and whether they are free, *)
(* and the settlement of its payment by backend/src/lib/store.ts, which    *)
(* claims random pieces one at a time, counts them, completes the row and  *)
(* counts the free ones, in statements of their own.                       *)
(*                                                                         *)
(* Pieces are counted, not named: one statement claims one piece that      *)
(* nobody has (FOR UPDATE SKIP LOCKED), and which one is left to chance.   *)
(* A note whose txid is on a piece is known again after a restart.         *)
(***************************************************************************)
EXTENDS Integers, FiniteSets, Functions

CONSTANTS
  Minters,        \* wallets
  Approved,       \* those with an approved whitelist entry
  Owners,         \* those that mint at price 0 (isOwnerNftWallet, nftMintPriceZecFor)
  Mints,          \* requests, and the PendingNftMint rows they leave
  MintNotes,      \* notes that pay for mints
  Quantities,     \* pieces a request asks for
  Supply,         \* pieces of the collection
  WalletLimit,    \* maxMintsPerWalletFor
  FreeLimit,      \* freeMintLimitForTier
  MaxMintFaults,  \* bound: crashes, statements that throw, resets of the collection
  NoMint

ASSUME MintersAssumption ==
  Minters # {} /\ Approved \subseteq Minters /\ Owners \subseteq Minters
ASSUME MintsAssumption == NoMint \notin Mints /\ IsFiniteSet(Mints)
ASSUME MintLimitsAssumption ==
  Quantities \subseteq Nat \ {0} /\ {Supply, WalletLimit, FreeLimit} \subseteq Nat
ASSUME MintBoundsAssumption == MaxMintFaults \in Nat

VARIABLES
  mint,       \* database: the rows (and requests of owners, in memory)
  unminted,   \* database: pieces that nobody has
  pieces,     \* database: pieces claimed by each mint
  tagged,     \* database: the notes whose txid is on a piece
  minted,     \* database: NftCollection.mintedCount
  claimed,    \* database: claimedCount of the wallet's whitelist entry
  minting,    \* memory: settlements in progress
  disturbed,  \* history: wallets with a settlement broken off, or two at once
  stacked,    \* history: wallets that asked for a mint with another one open
  wasReset,   \* history: the collection was reset
  mintFaults

mintRows == <<mint, unminted, pieces, tagged, minted, claimed>>
mintHistory == <<disturbed, stacked, wasReset, mintFaults>>
mintVars == <<mintRows, minting, mintHistory>>

Mint == [status : {"NONE", "PENDING", "CREATED", "FAILED", "DELETED", "OWNER", "OWNED"},
         wallet : Minters, quantity : Nat, free : BOOLEAN,
         address : {"none", "asked", "given"}]
Minting == [mint : Mints \cup {NoMint}, admin : BOOLEAN, want : Nat, got : Nat,
            at : {"unseen", "start", "claim", "count", "create", "free", "fail", "over"}]

MintTypeOK ==
  /\ mint \in [Mints -> Mint]
  /\ unminted \in Nat /\ pieces \in [Mints -> Nat]
  /\ tagged \subseteq MintNotes
  /\ minted \in Nat /\ claimed \in [Minters -> Nat]
  /\ minting \in [MintNotes -> Minting]
  /\ disturbed \subseteq Minters /\ stacked \subseteq Minters
  /\ wasReset \in BOOLEAN /\ mintFaults \in Nat

NotSettling == [mint |-> NoMint, admin |-> FALSE, want |-> 0, got |-> 0, at |-> "unseen"]
DoneSettling == [NotSettling EXCEPT !.at = "over"]

MintInit ==
  /\ mint = [m \in Mints |-> [status |-> "NONE", wallet |-> CHOOSE w \in Minters : TRUE,
                              quantity |-> 0, free |-> FALSE, address |-> "none"]]
  /\ unminted = Supply /\ pieces = [m \in Mints |-> 0]
  /\ tagged = {} /\ minted = 0 /\ claimed = [w \in Minters |-> 0]
  /\ minting = [n \in MintNotes |-> NotSettling]
  /\ disturbed = {} /\ stacked = {} /\ wasReset = FALSE /\ mintFaults = 0

MintFault == mintFaults < MaxMintFaults /\ mintFaults' = mintFaults + 1
NoMintFault == mintFaults' = mintFaults

Min2(a, b) == IF a <= b THEN a ELSE b

-----------------------------------------------------------------------------
(* POST /api/nft/mint                                                      *)

PiecesOf(S) == SumFunctionOnSet(pieces, S)
MintsOf(w, status) == {m \in Mints : mint[m].wallet = w /\ mint[m].status = status}

\* Mutant: an owner's mints are not counted.
MintCountPaid(w) == Cardinality(MintsOf(w, "CREATED")) + claimed[w]

\* getWalletNftMintCount: completed rows, not pieces; free claims; pieces that
\* an owner minted at price 0.
MintCount(w) == Cardinality(MintsOf(w, "CREATED")) + claimed[w] + PiecesOf(MintsOf(w, "OWNED"))

\* The phase of the schedule is drawn with the request (mintPhaseAt).
Phases == {"locked", "whitelist", "public"}
MayMint(w, phase) ==
  w \in Owners \/ phase = "public" \/ (phase = "whitelist" /\ w \in Approved)

Open(w) == MintsOf(w, "PENDING") \cup MintsOf(w, "OWNER") # {}

\* Every check of the route, the quantity it grants (no more than what the limit
\* leaves, and no more than what is left for free while anything is), and
\* createPendingNftMint, or an owner's request.  (The route awaits between the
\* checks and what follows, but no check looks at what is pending.)
AskMint(m, w, q, phase) ==
  LET granted == Min2(q, WalletLimit - MintCount(w))
      freeLeft == FreeLimit - claimed[w]
      free == w \in Approved /\ freeLeft > 0
      row == [status |-> "PENDING", wallet |-> w, free |-> free, address |-> "asked",
              quantity |-> IF free THEN Min2(granted, freeLeft) ELSE granted] IN
  /\ mint[m].status = "NONE"
  /\ minted < Supply /\ MayMint(w, phase) /\ MintCount(w) < WalletLimit
  /\ mint' = [mint EXCEPT ![m] =
       IF ~free /\ w \in Owners THEN [row EXCEPT !.status = "OWNER", !.address = "none"] ELSE row]
  /\ stacked' = IF Open(w) THEN stacked \cup {w} ELSE stacked
  /\ UNCHANGED <<unminted, pieces, tagged, minted, claimed,
                 minting, disturbed, wasReset, mintFaults>>

\* claimFreeOwnerNftMint: what there is of the pieces asked for, one by one, and
\* the count in a statement of its own; any of them may throw.
OwnerMint(m) == \E n \in 0..Min2(mint[m].quantity, unminted) :
  /\ mint[m].status = "OWNER"
  /\ mint' = [mint EXCEPT ![m].status = IF n > 0 THEN "OWNED" ELSE "FAILED"]
  /\ pieces' = [pieces EXCEPT ![m] = @ + n]
  /\ unminted' = unminted - n
  /\ \/ n = Min2(mint[m].quantity, unminted) /\ minted' = minted + n /\ NoMintFault
     \/ minted' = minted /\ MintFault
  /\ UNCHANGED <<tagged, claimed, minting, disturbed, stacked, wasReset>>

\* setPendingNftMintAddress; or there is no address, and the row fails.
AddressMint(m) ==
  /\ mint[m].address = "asked" /\ mint[m].status # "DELETED"
  /\ mint' = [mint EXCEPT ![m].address = "given"]
  /\ UNCHANGED <<unminted, pieces, tagged, minted, claimed,
                 minting, mintHistory>>

NoMintAddress(m) ==
  /\ mint[m].address = "asked" /\ mint[m].status # "DELETED"
  /\ mint' = [mint EXCEPT ![m].status = "FAILED", ![m].address = "none"]
  /\ UNCHANGED <<unminted, pieces, tagged, minted, claimed,
                 minting, mintHistory>>

-----------------------------------------------------------------------------
(* Settlement.                                                             *)

Settling(n) == minting[n].at \notin {"unseen", "over"}
WalletOf(n) == mint[minting[n].mint].wallet
Busy(w) == \/ \E n \in MintNotes : Settling(n) /\ WalletOf(n) = w
           \/ \E m \in Mints : mint[m].wallet = w /\ mint[m].address = "asked"

\* Both callers look at the row first.
BeginMint(n, m, admin) ==
  LET w == mint[m].wallet IN
  /\ ~Settling(n) /\ mint[m].status = "PENDING"
  /\ minting' = [minting EXCEPT ![n] = [NotSettling EXCEPT !.mint = m, !.admin = admin,
                                                           !.at = "start"]]
  /\ disturbed' = IF Busy(w) THEN disturbed \cup {w} ELSE disturbed
  /\ UNCHANGED <<mintRows, stacked, wasReset, mintFaults>>

\* handleNftMintPayment, for a note that is not known yet.
MintPaid(n, m) ==
  minting[n].at = "unseen" /\ mint[m].address = "given" /\ BeginMint(n, m, FALSE)

\* POST /api/admin/force-complete-nft-mint, with the txid of any note.
ForceMint(n, m) == BeginMint(n, m, TRUE)

GoMint(n, at) == minting' = [minting EXCEPT ![n].at = at]
EndMint(n) == minting' = [minting EXCEPT ![n] = DoneSettling]

\* What follows a throw, and a completion that hands out nothing: the payment
\* fails the row, the administrator gets an error.
Unsettled(n) == IF minting[n].admin THEN EndMint(n) ELSE GoMint(n, "fail")

\* completePendingNftMint reads the row again, and what is left for free.
StartMint(n) ==
  LET m == minting[n].mint
      w == mint[m].wallet
      want == IF mint[m].free THEN Min2(mint[m].quantity, FreeLimit - claimed[w])
              ELSE mint[m].quantity IN
  /\ minting[n].at = "start"
  /\ IF mint[m].status = "PENDING" /\ want > 0
     THEN minting' = [minting EXCEPT ![n].at = "claim", ![n].want = want]
     ELSE Unsettled(n)
  /\ UNCHANGED <<mintRows, mintHistory>>

\* Mutant: one piece too many.
ClaimPieceMore(n) ==
  LET m == minting[n].mint IN
  /\ minting[n].at = "claim" /\ minting[n].got <= minting[n].want /\ unminted > 0
  /\ unminted' = unminted - 1
  /\ pieces' = [pieces EXCEPT ![m] = @ + 1]
  /\ tagged' = tagged \cup {n}
  /\ minting' = [minting EXCEPT ![n].got = @ + 1]
  /\ UNCHANGED <<mint, minted, claimed, mintHistory>>

\* claimRandomUnmintedNftItem
ClaimPiece(n) ==
  LET m == minting[n].mint IN
  /\ minting[n].at = "claim" /\ minting[n].got < minting[n].want /\ unminted > 0
  /\ unminted' = unminted - 1
  /\ pieces' = [pieces EXCEPT ![m] = @ + 1]
  /\ tagged' = tagged \cup {n}
  /\ minting' = [minting EXCEPT ![n].got = @ + 1]
  /\ UNCHANGED <<mint, minted, claimed, mintHistory>>

\* claimRandomUnmintedNftItems stops, with all it wanted or all there was.
StopClaiming(n) ==
  /\ minting[n].at = "claim" /\ (minting[n].got = minting[n].want \/ unminted = 0)
  /\ IF minting[n].got > 0 THEN GoMint(n, "count") ELSE Unsettled(n)
  /\ UNCHANGED <<mintRows, mintHistory>>

CountPieces(n) ==
  /\ minting[n].at = "count"
  /\ minted' = minted + minting[n].got
  /\ GoMint(n, "create")
  /\ UNCHANGED <<mint, unminted, pieces, tagged, claimed, mintHistory>>

\* The row that is completed may be deleted by now; then the update throws.
CompleteMint(n) ==
  LET m == minting[n].mint IN
  /\ minting[n].at = "create"
  /\ IF mint[m].status = "DELETED" THEN mint' = mint /\ Unsettled(n)
     ELSE /\ mint' = [mint EXCEPT ![m].status = "CREATED"]
          /\ IF mint[m].free THEN GoMint(n, "free") ELSE EndMint(n)
  /\ UNCHANGED <<unminted, pieces, tagged, minted, claimed, mintHistory>>

CountFree(n) ==
  /\ minting[n].at = "free"
  /\ claimed' = [claimed EXCEPT ![WalletOf(n)] = @ + minting[n].got]
  /\ EndMint(n)
  /\ UNCHANGED <<mint, unminted, pieces, tagged, minted, mintHistory>>

\* Any of these statements throws.
MintThrows(n) ==
  /\ minting[n].at \in {"claim", "count", "create", "free"} /\ MintFault
  /\ Unsettled(n)
  /\ disturbed' = disturbed \cup {WalletOf(n)}
  /\ UNCHANGED <<mintRows, stacked, wasReset>>

\* failPendingNftMint, whatever the row says by now.
FailMint(n) ==
  LET m == minting[n].mint IN
  /\ minting[n].at = "fail"
  /\ mint' = [mint EXCEPT ![m].status = IF @ = "DELETED" THEN @ ELSE "FAILED"]
  /\ EndMint(n)
  /\ UNCHANGED <<unminted, pieces, tagged, minted, claimed, mintHistory>>

-----------------------------------------------------------------------------
Interrupted == {mint[minting[n].mint].wallet : n \in {k \in MintNotes : Settling(k)}}

\* The backend stops and boots.
RestartMints ==
  /\ MintFault
  /\ minting' = [n \in MintNotes |-> IF n \in tagged THEN DoneSettling ELSE NotSettling]
  /\ mint' = [m \in Mints |->
       [mint[m] EXCEPT !.address = IF @ = "asked" THEN "none" ELSE @,
                       !.status = IF @ = "OWNER" THEN "FAILED" ELSE @]]
  /\ disturbed' = disturbed \cup Interrupted
  /\ UNCHANGED <<unminted, pieces, tagged, minted, claimed, stacked, wasReset>>

\* resetNftMints, beside whatever is being settled (its count is zeroed last),
\* and resetNftWhitelistClaims, which an administrator runs for the same tests.
ResetMints ==
  /\ MintFault /\ wasReset' = TRUE
  /\ mint' = [m \in Mints |-> IF mint[m].status \in {"NONE", "OWNER"} THEN mint[m]
                              ELSE [mint[m] EXCEPT !.status = "DELETED"]]
  /\ pieces' = [m \in Mints |-> 0]
  /\ unminted' = Supply /\ tagged' = {} /\ minted' = 0
  /\ disturbed' = disturbed \cup Interrupted
  /\ \E reset \in BOOLEAN : claimed' = IF reset THEN [w \in Minters |-> 0] ELSE claimed
  /\ UNCHANGED <<minting, stacked>>

MintNext ==
  \/ \E m \in Mints, w \in Minters, q \in Quantities, phase \in Phases : AskMint(m, w, q, phase)
  \/ \E m \in Mints : OwnerMint(m) \/ AddressMint(m) \/ NoMintAddress(m)
  \/ \E n \in MintNotes, m \in Mints : MintPaid(n, m) \/ ForceMint(n, m)
  \/ \E n \in MintNotes :
       \/ StartMint(n) \/ ClaimPiece(n) \/ StopClaiming(n) \/ CountPieces(n)
       \/ CompleteMint(n) \/ CountFree(n) \/ MintThrows(n) \/ FailMint(n)
  \/ RestartMints \/ ResetMints

MintSpec == MintInit /\ [][MintNext]_mintVars

-----------------------------------------------------------------------------
(* Properties.                                                             *)

InProgress(m) == \E n \in MintNotes : Settling(n) /\ minting[n].mint = m

\* A paid mint hands out what it granted and no more, and a failed one nothing,
\* unless a settlement of the wallet was broken off or ran beside another one
\* (the administrator's completion beside the payment's; a second settlement of
\* a row that still says PENDING).
MintedAsPaid == \A m \in Mints : mint[m].wallet \notin disturbed =>
  /\ pieces[m] <= mint[m].quantity
  /\ mint[m].status = "CREATED" => pieces[m] > 0
  /\ pieces[m] > 0 => mint[m].status \in {"CREATED", "OWNED"} \/ InProgress(m)

\* Nobody gets more than FreeLimit pieces for free, however many free mints are
\* open at once, unless two are settled at once or one is broken off (the rest of
\* the allowance is read when a settlement starts and counted when it ends).
FreeAllowanceKept == \A w \in Minters \ disturbed :
  ~wasReset => PiecesOf({m \in Mints : mint[m].wallet = w /\ mint[m].free}) <= FreeLimit

\* What the limit per wallet limits: it counts completed mints, and each may be
\* of as many pieces as the count leaves, so that a wallet that mints one after
\* the other ends with as many as WalletLimit + (WalletLimit - 1) + ... + 1.
WalletLimitKept == \A w \in Minters \ (disturbed \cup stacked) :
  ~wasReset => PiecesOf({m \in Mints : mint[m].wallet = w}) <=
                  (WalletLimit * (WalletLimit + 1)) \div 2

\* Both limits of a wallet.
MintLimitsKept == FreeAllowanceKept /\ WalletLimitKept
=============================================================================
