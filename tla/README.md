# Verification of zodd

TLA+ models of zodd (a launchpad for tokens traded on a bonding curve against
shielded ZEC, an NFT collection with its market, and token launches on NEAR),
with model-checking runs and machine-checked proofs. Paths are relative to the
repository.

## The system

One Node process (`backend/src/server.ts`) serves HTTP, holds the timers and
owns the in-memory state. Postgres (through Prisma, `backend/src/lib/store.ts`)
is the only durable state besides the chains. A second service
(`zcash-wallet-service`) wraps `zingo-cli`, which knows the platform's one
wallet. The browser (`frontend`) asks, pays through the extension of a wallet,
and polls; it has small server routes of its own for signing in with X. All
concurrency in a process is between asynchronous callbacks: a step is what runs
between two awaits, and everything read before an await may have changed after
it. There is one backend process at a time; it may be killed and restarted (a
redeploy) at any await.

| Component | State | Operations | Meets | What makes it correct |
|---|---|---|---|---|
| Payment watcher (`lib/zcashReal.ts`, the dispatcher in `server.ts`) | `watchers`, `consumedTxids`, the tick in flight (memory); orders and launches (database) | create a record and reserve a watcher, fill in the address, poll (expire, ask, three passes), settle, boot | wallet service, store, token lock | a note pays once; a payer's note pays the payer's record; a restart neither forgets nor repeats a payment; abandoned records die; payments are found in the end |
| Bonding curve (`lib/bondingCurve.ts`) | none (pure) | quoteBuy, quoteSell; an administrator's two repairs | ledger | the rounding of the persisted curve stays within bounds |
| Token lock (`lib/mutex.ts`) | a promise chain per token (memory) | withTokenLock | ledger | read-modify-write sections never overlap; a failure does not jam the chain |
| Token ledger (`server.ts`, `store.ts`) | curve, accrued fees, balances, orders | buy, repeat, first buy, sell, reversal | lock, curve, `sendPayout` | trades are serial, balances follow the curve, the vault covers what is owed |
| Fee payouts (`lib/feeDistributor.ts`, withdrawal route) | accrued and paid fees, withdrawals | timer's run, administrator's run, withdrawal | ledger, wallet service | nothing is paid twice, nothing beyond what accrued |
| Token creation (`server.ts`, `store.ts`) | pending creations, tokens | reserve, address, settle, fail, force-complete, boot; the page's poll | watcher, ledger | one token per symbol, the creator is told the truth, the bundled buy happens once |
| NFT collection and mint | items, pending mints, whitelist, free claims | mint (paid, free, owner's), claim, force-complete, reset; submit, review, list, claim by handle | watcher, X login | limits per wallet, a paid mint hands out what it granted, an approval stays |
| NFT market | listings, reservations, purchase orders | list, unlist, buy, settle, fail, craft (the forge) | watcher, `sendPayout` | a piece moves only for a payment to its owner, the seller is paid once, one buyer at a time, every forged piece is backed |
| Address pool and workers | pool rows, counters, workers' indices | claim, on demand, top up, heal | wallet service | an address is handed out once |
| Wallet service (`zcash-wallet-service`) | CLI queue, volume, readiness | enqueue, run, retry, heal, boot, re-wallet | zingo-cli | one call at a time, none sent twice, ready only on the wallet of the seed |
| NEAR launch (`lib/nearLaunch*.ts`) | launch row, step, attempts, tick | quote, proof, detect, advance one step, give up | watcher, NEAR RPC | one payment per launch, the row follows the chain, launches settle |
| NEAR contracts (`near-zodd-launch-rust`) | token balances, storage; locks | transfer, transfer with a call, resolve, storage | pipeline | the supply is what accounts have |
| Wallet authentication (`lib/walletAuth.ts`, `server.ts`, `frontend/lib/wallet.tsx`) | challenges, wallets | issue, sign, connect, create, import | extensions | one wallet per name, one login per challenge |
| Frontend: pages that ask for a payment | React state of a page | submit, pay, poll, leave, retry | backend routes, wallet extensions | a page says only what is so, and asks for a payment once |
| Frontend: market page | list, selection, dialog, forge | filter, select, buy several, craft | backend routes | what it says was bought was bought |
| Frontend: X login (`lib/twitterOAuth.ts`, `app/api`) | two signed cookies | start, callback, session, submit, claim | X, whitelist routes | a handle is passed on only if X named it |
| Rate limit, price feeds, mocks, one-off scripts | see `PROJECT.json` | | | not modelled, with the reason there |

What is hard here: money moves outside the database (a note is never spent by
being credited, a payout is sent before it is booked, a call on NEAR is made
before it is recorded), so every crash and every lost answer leaves the two
apart; the poll works on lists that are old when they arrive; almost nothing is
done in a database transaction, so that checks and writes are statements apart;
recovery at boot has to rebuild what memory knew from what was stored; and a
page acts on what it was told some time ago.

## Modules

| Module | Models | State and actions |
|---|---|---|
| `PaymentWatch` | the payment watcher | `rows`, `recorded`, `credits` are the database; `watchers`, `consumed`, `poll`, `deliveries` the memory that a crash clears; `chain`, `spent` the notes. `CreateRecord`, `AddressReady`, `AddressFails`, `SetOrderAddress` follow `POST /api/orders/buy`; `PollBegin` / `PollReply` / `PollFails` are `pollOnce` cut at its one await; `HandlerCheck` ... `HandlerThrows` are `handlePaymentDetected` cut at its awaits; `BootResume`, `BootSeed` and their failures are the boot block |
| `BondingCurve` | quoteBuy, quoteSell, the rounding of `updateTokenCurve`, the arithmetic of the reversal and of the two repairs | operators only |
| `CurveRounding` | the persisted curve of one token | `Buy`, `ApplyPhantomSell`, `RecomputeCurve`; `orders` is what the replay reads |
| `CurveMarket` | the abstract ledger: one trade at a time on the curve the last trade left | `Buy`, `Sell`, `Undo` |
| `TokenLedger` | the token lock and the paths under it | `curve`, `accrued`, `balance`, `orders` are the database; `vault`, `paid` the chain; `queue` is the promise chain; `job` the local variables of each execution. One action per awaited statement: quote, `SendPayout`, `MoveCurve`, `Credit`, `Debit`, `Accrue`, `FillOrder`, `NewOrder`, `DeleteOrder`; `Throws` ends an execution at any of them, `Crash` ends all |
| `NftMarket` | listings, reservations, purchases and the forge | `owner`, `listed`, `burned`, `lock`, `order` are the database, one statement an action: `List`, `Unlist`, `BuyRead` / `BuyReserve` / `AddressReady` / `AddressFails` (the buy route), `MarkFailed` / `Release` (`failNftPurchaseOrder`), `Deliver` / `Fill` / `LoseRace` / `RecordFill` / `PaySeller` / `Throws` (`handleNftPurchasePayment` and `fillNftPurchase`), `CraftPick` / `CraftCommit` / `CraftRollback` (`forgeCraft`); `watching`, `step`, `craft` are the memory that `Crash` clears |
| `PieceMarket` | what the market and the forge promise of the pieces: held for one purchase, sold for a payment, burned for one forged piece | `Offer`, `Retract`, `Open`, `Lapse`, `Pay`, `Sell`, `Record`, `Drop`, `Forget`, `Forge` |
| `LaunchChain` | what a launch on NEAR promises: paid, then eight effects in order, then live | `Pay`, `Build`, `Announce`, `GiveUp` |
| `NearLaunch` | the launch pipeline | `launch` is the row, `chain` how many effects NEAR has, `request` the payments being verified, `tick` the poll. `Quote`, `SubmitProof` / `Verify` / `MarkPaid` / `MarkThrows`, `DetectZec`; `StartTick`, `TakeLaunch`, one action per step (its calls by `CallAnswered` / `CallThrows`), `RecordStep`, `CountFailure`, `FailLaunch`, `TickThrows`, `RestartLaunches` |
| `TokenCreation` | the creation of a token | `creation` and `token` are rows, `settling` the settlements under way, `page` what the creator's page shows. One action per statement: `CheckSymbol`, `Reserve`, `Address`, `PaymentDetected` or `ForceComplete`, `Complete`, `CreateToken`, `MarkCreated`, `FirstBuy`, `FailCreation`, with the failures of each and `RestartCreations` |
| `LaunchToken` | the token contract of a launch | `Transfer`, `TransferCall`, `ResolveTransfer` (blocks later), `StorageDeposit`, `StorageUnregister` |
| `NftMint` | mints of a collection | `AskMint`, `OwnerMint`, `AddressMint`, `MintPaid` or `ForceMint`, `StartMint`, `ClaimPiece`, `CountPieces`, `CompleteMint`, `CountFree`, `FailMint`, `RestartMints`, `ResetMints` |
| `NftWhitelist` | the whitelist | requests cut at each statement: `Submit` ... `UpsertEntry`, `ListHandle` ... `ApproveEntry`, `ClaimByHandle` ... `CreateEntry`, `ReviewEntry`, `ResetClaims`, `BreakOff` |
| `WalletService` | the process around `zingo-cli` | `cliQueue` and the command that runs, `volume` (which wallet is in it), `ready`; accept or refuse a send, run, retry, heal past the queue, boot |
| `FeePayouts` | the distributor, withdrawals, accrual and reversal; EXTENDS `WalletService` | `accrued`, `paid`, `withdrawn` are the database; each payer reads, sends through the wallet service and records |
| `AddressPool` | receiving addresses | `poolRow`, the orders' addresses, the top-up's local variables, the workers' counters |
| `WalletLogin` | ways into a wallet | challenges, `walletOf` (the unique columns), logins cut at their awaits |
| `PaymentPages` | the dialogs that buy and sell a token, the pages that create and launch one | `page` is the React state, `call` / `answers` / `quotes` / `proofs` what is on its way, `row` the record; a *view* operator per page says what can be clicked |
| `NftPages` | the page that mints and the page of a piece; EXTENDS `PaymentPages` | adds `piece` (database), `seen`, `loads` |
| `MarketPage` | the market: list, selection, the dialog that buys several pieces, the forge's tab | `shown`, `lists`, `rows`, `orders`, `verdicts`, `forge` |
| `XLogin` | signing in with X, the proxies that pass a proven handle on, the page of the closed whitelist | `pending`, `verified` are the cookies; attempts, callbacks, sessions asked for, claims on their way |
| `FiniteSums` | sums over finite sets | lemmas about `SumFunctionOnSet`, used by the accounts below |
| `BondingCurve_proofs`, `CurveRounding_proofs`, `TokenLedger_proofs`, `PaymentWatch_proofs` | | theorems and lemmas about the module of that name |
| `Nft_proofs` | | of `NftMarket`, `NftMint`, `NftWhitelist` |
| `PendingRecords_proofs` | | of `NearLaunch`, `TokenCreation`, `LaunchToken` |
| `Services_proofs` | | of `WalletLogin`, `WalletService`, `FeePayouts`, `AddressPool`, `XLogin`, `MarketPage`, `PaymentPages`, `NftPages`, and of their composition in `MCServices`; EXTENDS `Nft_proofs` |
| `MCPaymentWatch`, `MCTokenLedger`, `MCNftMarket`, `MCPendingRecords`, `MCServices` | | instances for TLC |

How they compose:

- `TokenLedger` implements `CurveMarket` (`Serialized`), `NearLaunch`
  implements `LaunchChain` (`ImplementsLaunchChain`), `NftMarket` implements
  `PieceMarket` (`ImplementsPieceMarket`); each is an `INSTANCE` of the abstract
  module under a refinement mapping.
- `FeePayouts` runs on `WalletService`: its sends are commands of the queue, so
  that a run of the distributor meets retries, heals and restarts of the wallet.
- What `PaymentWatch` calls `HandlerCredit` is the whole of a buy in
  `TokenLedger`, which takes from `PaymentWatch` the rule for who may start a
  buy (`BuyPaid`: one original per order in the life of a process, again after
  a crash while the order is pending; `BuyPaidAgain`: repeats of a filled
  order). `NftMarket`, `NftMint` and `TokenCreation` take from it that a
  watched record gets its first payment at most once in the life of a process,
  and again after a crash while it is pending.
- The pages stand in front of routes that other modules model statement by
  statement; here a route is one step that may answer late, fail, or succeed
  with its answer lost.

### Abstractions

- Time in `PaymentWatch`, `NftMarket` and `XLogin` is a bounded clock. The four
  durations of the watcher are constants in the order the code gives them
  (grace <= repeat window < soft expiry < hard cap), so the proofs hold for any
  durations in that order.
- An address stands for its diversifiers; `Patched` says whether the wallet
  reports them. A note has an amount, perhaps a memo, perhaps a time. A
  watcher takes the first candidate of a list whose order is not known, so any
  candidate; the order of the watchers is not fixed either.
- A record of `PaymentWatch` is a buy order or a NEAR launch; the settlements of
  the other records are in their own modules. A second quote for a launch that
  already has one is in `NearLaunch` and not in the watcher.
- ZEC is counted in whole units in the ledger; the fraction of a unit a sell
  would pay, and the fraction of a fee, are dropped. Tokens are whole, as they
  are in the database. Creator and platform fees are one counter in
  `TokenLedger` and two in `FeePayouts`.
- `BuyPaid` may bring any amount of `Payments`, as a payment matched by memo or
  address may. Price points and remembered payout addresses are left out: no
  modelled path reads them back.
- In `NftMarket` a listing is a flag: price and payout address are copied into
  the purchase when it is opened and only passed on. Watchers outlive
  reservations (2 to 3 hours against 30 minutes), so they never end there. The
  forge has one recipe and burns one tier. Transactions are at the database's
  default isolation, READ COMMITTED.
- `NearLaunch` counts the effects NEAR has of a launch; NEAR refuses a call
  that was already carried out or whose predecessor is missing. Amounts are
  left out. `NftMint` counts pieces, `AddressPool` names an address by its
  index, `WalletLogin` names a wallet by the column that finds it.
- In the pages, what is typed, amounts, prices and wording are left out.
  Statuses have one name for all records ("done" for FILLED, CREATED, LIVE).
- `PendingRecords` and `Services` are one run each for several modules that
  share no state: a behaviour draws one part at its start and leaves the others
  as they are, which explores exactly the behaviours of each.

## Runs

| Run | Question | Bounds, and why they are enough |
|---|---|---|
| `PaymentWatchAttribution` | can the memo and amount passes spend a note twice, cross an exact payment, or use up a payment that fills nothing? | two records (one a launch), two notes, two amounts, clock to 2: both watchers alive and one expired, equal and different amounts, both notes in one tick or in two; nothing here involves three records that does not involve a pair |
| `PaymentWatchRestart` | does boot rebuild what memory knew, and does the hard cap hold? | one crash at any step, clock to 4, past the hard cap of 2 counted from any creation at 1 or 2; notes without a time, so that only the seed protects |
| `PaymentWatchLive` | is a payment to a watched record found in the end? | address matching, payouts that spend a note, two records and two notes |
| `PaymentWatchLaunch` | refutes a comment, see Divergences | one crash, a launch and an order of one amount |
| `CurveRounding` | how far does rounding drift, with repairs in between? | up to seven buys of 1 to 3 units and two repairs, orders that say another amount than was paid; the proof covers any number |
| `TokenLedgerTrades` | are trades serial, and by how much may balances, curve and vault part? | four executions of four kinds, each throwing anywhere, one crash: a cut execution, its re-run after the crash, a sell and a reversal behind it |
| `TokenLedgerFirst` | is whoever was paid debited, also beside first buys, and does every execution end? | two sellers of one wallet behind a first buy |
| `TokenLedgerUndoAmount` | refutes a comment, see Divergences | a payment of another amount than asked, and its reversal |
| `NftMarketSales` | do sales follow payments, reservations exclude, and forged pieces cost their recipe? | three wallets, so that two buyers compete for one seller; two purchases of one piece or of two; clock to 2 against a reservation of 1, so that payments and failures come late; one crash; two crafts that want the same two pieces |
| `NftForgeListed` | refutes a comment, see Divergences | a craft and a listing of one wallet |
| `PendingRecords` | what becomes of a launch, of a creation, of a launched token's supply? | two launches and two requests that may present one transaction, two tries of a step (so that one failure is retried and two give up), one lost answer, write or process; two creations of one symbol, three settlements (two payments and a recovery, or one detected again), one fault; four accounts, one transfer with a call, a supply of 3 with a fee of a third, so that fees round and amounts run out |
| `Services` | do the services keep their accounts, and do the pages tell the truth? | mints: two wallets, two mints, two notes, supply 4, limit 2, one free claim, one fault; whitelist: two addresses, two handles, three concurrent requests; payouts: one token, two payers, two sends, two trades, one read beside them, two tries, one fault of the wallet; addresses: three orders, two workers, batches of up to three, so that a worker is called twice in one, indices from 0, of which a worker that has counted to 3 hands out no more, one fault; logins: two extensions, one phrase, three challenges and three logins; pages: six kinds, two records (the second on those that can go back to the form), three sends, two quotes; market: two pieces, two purchases, one change of the list, by a filter or by a dialog that is done and has the collection read again; forge: two crafts; X login: two attempts, two accounts, clock to 2 against cookies that live 1, two readings of the session |

Bounds in guards: `MaxTime`, `MaxSpent`, `MaxRestarts` (`PaymentWatch`),
`MaxCrashes` (`TokenLedger`, `NftMarket`), `MaxTime` again (`NftMarket`),
`MaxBuys`, `MaxRepairs` (`CurveRounding`), `MaxLaunchFaults`
(`NearLaunch`; `MaxStepAttempts` is the code's own), `MaxCreationFaults`,
`MaxMintFaults`, `MaxTrades` (`FeePayouts`), `MaxWalletFaults` (`WalletService`;
`MaxTries` is the code's own), `MaxPoolFaults` and `MaxIndex` (`AddressPool`),
`MaxSends`, `MaxQuotes` and `Again` (`PaymentPages`), `MaxPurchases`,
`MaxFetches`, `MaxCrafts` (`MarketPage`), `MaxXTime`, `MaxReads` (`XLogin`).
Each is a constant, and every theorem holds for any value of it. Deadlock is not
checked where the instance ends because its requests, executions or time are
used up; the payment watcher's instances have no deadlock. The parts of
`Services` share no state and a behaviour explores one of them, so that its
states are told apart by the variables of that part (`MCView`).

Each property is known to fail for a plausible bug of the code: the operators
named "Mutant" in the modules are such bugs, and the manifest pairs each
property with one.

### Properties

`PaymentWatch`: `NoteDeliveredOnce` (no note twice in a process),
`PaymentsTaken` (a record has one original payment and then repeats; a note is
used up without a fill only when the record's address was lost at its creation,
or for a repeat whose original is not recorded yet), `ExactPaymentNotCrossed` (who pays the exact amount of a live record
pays that record), `SeededNotesExcluded` (after the seed every recorded txid is
excluded), `HardLifetime` (redeploys do not prolong a record past the hard
cap), `NotAbandonedEarly` (a pending record is watched for the whole window,
also after a restart), `PaymentDetected` (liveness).

`CurveRounding`: `DriftBounded` (half a token for each write since the last
replay, at the largest reserve there was), `RoundTripWithinHalfToken` (a buy
sold back returns at most half a token's worth in excess).

`TokenLedger`: `Serialized` (refinement of `CurveMarket`), `TokensAccounted`
(balances and curve differ exactly by the executions cut between their two
writes), `Solvent` (the vault covers reserve and fees but for executions cut
between the money and the books), `PaidSellCovered` (a paid seller can be
debited), `ExecutionEnds` (liveness of the lock).

`NftMarket`: `ImplementsPieceMarket` (refinement: a piece that is held for one
purchase is let to no other, changes hands only to the buyer of a paid, unsettled
purchase opened with its present owner, who lists it, and is burned for one
forged piece; a settled purchase stays settled), `SellerPaidOnce` (one payout per
recorded sale, also when a crash makes the settlement run again), `LockKept` (a reservation ends by time, by its own
purchase's failure or by a sale, never by another purchase's clean-up; that no
two purchases hold one piece follows and is proved), `ForgedBacked` (each
forged piece cost a full recipe of its own).

`NearLaunch`: `RecordFollowsChain` (the row is never ahead of NEAR and at most
one step behind), `OnePaymentOneLaunch` (without overlapping payments a
submitted transaction pays for one launch, and a complete launch stays live),
`StrandedStays` (a launch whose row fell behind is never picked up),
`ImplementsLaunchChain` (refinement), `LaunchSettles` (liveness: a paid launch
goes live or is given up). `TokenCreation`: `CreationTold` (undisturbed, CREATED
exactly when the token exists, and a page that shows a failure is right),
`FirstBuyOnce`. `LaunchToken`: `SupplyKept`.

`NftMint`: `MintedAsPaid` (a paid mint hands out what it granted and a failed
one nothing), `MintLimitsKept` (what the two limits of a wallet do limit).
`NftWhitelist`: `WhitelistTold` (approvals are taken back by reviews only, one
entry per handle, a listed handle is not left pending). `WalletService`:
`ReadyOnSeedWallet`. `FeePayouts`: `FeesAccounted` (each fee is owed or paid),
`NothingPaidTwice` (the payouts recorded or still without an answer send no
account more than it earned, but for named exceptions, and what is recorded was
sent). `AddressPool`: `PoolAddressesDistinct`. `WalletLogin`:
`LoginsAgree` (one wallet per name, one login per challenge, in time). Where a
property excepts what was "disturbed", the exception is a history variable set
exactly by the crash, overlap or stale read that the code does not guard
against, so the property also says that nothing else does harm.

Pages: `PageTellsTruth` (a page says done, deployed or failed only when that is
so), `PaidOnceUnlessTold` (a page lets its user pay once for each amount it
quoted, and once more for each error it showed), `MarketTellsTruth` (a row is
paid only when its own purchase is; all is done only when every row is, unless
the list was replaced under the dialog; the forge tells of a craft that was
made), `HandlesProven` (a handle is passed on only while X has named it no
longer than a session ago, and it is the one the page shows unless somebody
signed in since it asked; a status shown is one the handle had).

The type invariants of the older components (`TypeOK` of `PaymentWatch`,
`TokenLedger`, `NftMarket`) are proved and no longer run; the others are
`PendingTypeOK`, proved too, and `ServicesTypeOK`.

### Fairness

`PaymentWatch!Fairness`: the poll timer never stops (weak fairness of
`PollBegin`); an answer of the wallet service comes infinitely often when it is
asked infinitely often (strong fairness of `PollAnswered`: calls may time out,
each ends by `CALL_TIMEOUT_MS`, and the next tick asks again); boot and
handlers run to their end (weak fairness: each await returns or throws).
`TokenLedger!Fairness`: every statement of the execution that holds the lock
returns or throws (weak fairness of `Advance`); a send has a timeout, a
statement Prisma's. `NearLaunch!LaunchFairness`: weak fairness of `PollNext`,
as the interval runs as long as the process does and whatever the poll awaits
answers or throws; nothing is assumed about NEAR succeeding, so a launch may be
given up. None assumes that a payer pays or that nobody crashes. The other
modules have no liveness property: a reservation ends by the clock alone, and
what a failed settlement leaves behind waits for an administrator; a page that
nobody answers waits for ever.

## Proofs

Checked by TLAPS, for all values of the constants under the assumptions that
the modules name (`DurationsAssumption`, `AmountsAssumption`, ...).

- `PaymentWatch_proofs`. `TypeOK`, `NoteDeliveredOnce` and
  `SeededNotesExcluded` are invariants and `ExactPaymentNotCrossed` holds of
  every step. The inductive invariant `IInv` adds four parts: the transaction
  of a delivered note is consumed (so no later list offers it again: this is
  what makes `NoteDeliveredOnce` inductive, and what makes a fill add to
  `recorded` only what is consumed); a note on the chain names its payer's
  address and memo (so that the address and memo passes give it to its payer);
  a row not yet created has neither address nor watcher (so that its creation
  disturbs no note); and the poll has seen only notes of the chain. The amount
  pass needs no invariant: two watched records of one amount make it refuse.
  `NotAbandonedEarly` and, of every step, `HardLifetime`
  follow from a second one, `WatchInv`: a watcher keeps its row's creation time
  and counts its soft window from then or from the boot, a poll in flight began
  with watchers short of the hard cap, and the watchers that have matched are
  exactly those whose record was handed a payment. The last is subtle where
  requests are served before boot resumes: a record created and paid then must
  not be resumed as if it were unpaid, and is not, because its watcher cannot
  have expired yet. `PaymentsTaken` adds `TakenInv`: a watcher that has not
  matched has a pending row, one that has, and each repeat, has an original
  (`Followed`), and the original of a pending row is in hand, the one of a filled
  row recorded, unless the address was lost (`OriginalsFound`).
- `CurveRounding_proofs`. `DriftBounded`, by induction over the writes: each
  write of the curve, a buy or a phantom sell, moves twice the drift by at most
  the new ZEC side (`WriteInv`), from the bounds of `Rounded` proved in
  `BondingCurve_proofs`; a replay of the orders starts over with one rounding.
  `RoundTripWithinHalfToken` needs no more of the curve than its type: it is the
  bound of one rounding, carried through the two products that a sell compares.
- `FiniteSums` has what the accounts below need of a sum: it is the sum of one
  element and of the others, of any one of them; it changes by what one element
  changes; sums of equal or smaller summands are equal or smaller. The induction
  is over the subsets of a finite set and is had from a minimal subset that is
  not in a given set of them, because an induction theorem over predicates
  cannot be instantiated here.
- `TokenLedger_proofs`. `TypeOK` and `PaidSellCovered` are invariants, and
  `Spec => Serialized` holds but for first buys (see the end). The inductive invariant `IInv` says
  that an execution is queued once and only the head has started; that what the
  head has read is still so and that what it is going to write is one trade on
  it; that a seller past the check holds the tokens; and that amounts carried by
  executions and rows are amounts that were asked for. `TokensAccounted` adds
  `Accounted`: the curve exceeds the balances by the sum of what each execution
  has moved of the one and not yet of the other, so that a step changes one
  summand and one balance, or one summand and the curve. `Solvent` adds
  `Covered`: each execution has a stake (what it has booked and the vault has not
  seen, or the other way round) and each order that is not filled a bill (what
  was paid for it), and the vault and the stakes cover the reserve, the fees and
  the bills; `OrdersInv` makes the bills right: a buy under way is the only one
  of its order in this process and carries what was paid, and what is being
  reversed is filled. With first buys the read is older than the lock:
  `Serialized` and `TokensAccounted` are proved for a token without first buys,
  and for one with them as long as no trade came between the read of a first buy
  and its write (`FirstFresh`); so that read is all that can break them. `Solvent`
  needs no such condition.
- `Nft_proofs`, the market. All invariants that the run checks, the type
  invariant, exclusivity (`OneBuyerAtATime`) and `SalePaid`. The inductive
  invariant `MarketInv` adds `Progress`: how far a purchase has got decides its
  status (a settlement is of a paid, pending purchase; a payout is due only for
  a recorded one that has none; a release is of a failed one), which is why a
  filled purchase is never settled or failed again. `OneBuyerAtATime` follows
  from `LockKept`, because a lock names one purchase; `LockKept` is inductive
  because whoever takes a lock finds it lapsed, and whoever clears one is its
  holder or has sold the piece. `ForgedBacked` is about cardinalities: the rows
  a craft burns are disjoint from those burned before. For the refinement,
  `DealsApart` adds that buyer and seller of a purchase differ and that a piece
  which was transferred is held for nobody, so that the record of its sale
  releases nothing; a purchase can be opened only on a piece that nobody holds
  because whoever held it would have a lock that has not lapsed (`OpenRefines`).
  What the abstract market may do and a reader might not expect is named there:
  `Forget`, by which a sale that is not recorded yet is undone in the books and
  its payment counts again, which matters when the piece has come back to its
  seller; a sale that outruns a hold; and a recipe of pieces that are for sale.
- `Nft_proofs`, the mint. `MintedAsPaid` follows from `MintInv`: of a wallet that
  was not disturbed one payment is settled at a time (`SettlesAlone`); what the
  row being settled has is what its settlement got (`InOrder`); a row that is at
  rest has its pieces if it is completed and none if it is not (`AtRest`).
  `MintLimitsKept` adds `FreeInv`, where the free pieces of a wallet are those
  counted for it and what one settlement has in hand, and `LimitInv`: a wallet
  with k completed rows has at most L + (L - 1) + ... + (L - k + 1) pieces, and
  its open row is for L - k at most. Both are sums over the rows.
- `Nft_proofs`, the whitelist. `WhitelistTold` follows from `WhitelistInv`. What a
  request has read is still so unless it is stale (`RequestsSound`); what a stale
  one writes is marked. Of the rest, an approval stands (`ApprovalsStand`), a
  handle has one entry (`OneEntry`), and the entry of a listed handle is as the
  list says or a listing is on its way to it (`ListKept`).
- `PendingRecords_proofs`, launches. `RecordFollowsChain`, `StrandedStays` and the
  refinement `PipelineImplementsLaunchChain` follow from `LaunchInv`: NEAR has
  every effect before the call that is next, and exactly those of the step when
  it is to be recorded (`PollInStep`), and what the poll has in hand or ahead of
  it was paid and is not settled (`PollPaid`). For `OnePaymentOneLaunch`,
  `PaymentsApart` says that as long as nothing overlapped, payments in flight
  are for different launches that are still pending, with transactions that no
  other launch has.
- `PendingRecords_proofs`, creations. `FirstBuyOnce` and `CreationTold`. The
  strengthening says whose token a symbol's row is (`MadeOfOwn`), that a
  settlement is alone with its creation unless a second one was let in
  (`SettledAlone`), and that first buys made are covered by the settlements past
  that statement (`BuysCovered`, an argument about cardinalities).
- `PendingRecords_proofs`, the token contract. `SupplyKept`: the balances sum up to
  the supply, an account that is not registered has none, and a call on its way
  has a sender that is registered unless somebody left (`SupplyInv`), so that
  what a refund finds gone is what is burned. With `LaunchTypeOK` and
  `CreationTypeOK` this gives `PendingTypeOK`.
- `Services_proofs`, the backend's services. `LoginsAgree` of `LoginSpec`,
  `ReadyOnSeedWallet`, `FeesAccounted` and `NothingPaidTwice` of `PayoutSpec`,
  `PoolAddressesDistinct` of `PoolSpec`, `HandlesProven` of `XSpec`.
  `NothingPaidTwice` says that the payouts recorded or still without an answer
  send no account more than it earned, unless two payers had it in hand at once
  or a reversal came behind one, and that what is recorded was sent. It rests on
  the queue of the wallet service (`SendsInv`: a send waits in it once, and is
  carried out once at most), on who waits for which send (`PayoutsLinked`), and
  on `HeldOnce`: what payers have in hand of an account is in one hand, and no
  more than the account is owed. Sends whose answer was dropped are outside it,
  as the code forgets them. Of the pool, `PoolInv` adds `Claimed` (an address
  given out of the pool is of a claimed row, and is no other order's) and
  `Stock` (the free rows are not more than a top-up counted, and what it has
  still to insert fits the target); `BatchStep` uses that a batch, an image of a
  finite set, is finite and no larger. Of X, `XInv` says that X named a cookie's
  account when the cookie was written, that a claim carries a cookie that was so
  written, and that the page shows the cookie's account or none until somebody
  signs in.
- `Services_proofs`, the market page. `MarketTellsTruth` of `MarketPageSpec`:
  answers and rows name purchases of their own piece (`OwnPurchases`), a row is
  paid only when its purchase is (`RowsStand`), a verdict under way is about a
  row that has waited and, once "done", is so for good (`VerdictsStand`), and the
  rows of a dialog are the pieces selected unless the list was replaced
  (`DialogStands`).
- `Services_proofs`, the pages that ask for a payment. `PageTellsTruth` and
  `PaidOnceUnlessTold` of `NftPagesSpec`, which has all six pages. Answers are
  about records the page made and were so once (`OwnRecords`, `Remembered`,
  `AnswersTrue`); a page other than the creation's asks in its form, where
  nothing is under way (`FormLeft`); one payment at most is in the hands of a
  wallet (`OneAsked`); and what was sent or is being asked for is covered by
  what was quoted and by the errors shown (`PaymentsCovered`), for pages with a
  button by the button that is gone (`ButtonGone`), for a sale by the error
  behind a second one (`SoldOnce`), for a launch by its quotes, those on their
  way included (`QuotesCovered`).

- `Services_proofs`, all of them together. `ServicesTypeOK`: each of the eight
  parts has a typed invariant of its own (`PartInv`), the parts that are not
  drawn never leave their initial states (`PartStart`, `PartNext`), and so the
  types of all hold in `ServicesSpec`.

The assumptions on constants say that names which stand for "none" are not
names, that limits, fees and durations are numbers in the order the code has
them, and that sets that are counted or summed over are finite: executions,
orders and wallets of a token (`TokenLedger`), tokens and sends (`FeePayouts`),
the accounts of a token (`LaunchToken`), symbols and settlements
(`TokenCreation`), rows of a mint (`NftMint`), pieces (`NftMarket`,
`MarketPage`). A program that has run for any time has made finitely many of
each; how many is left open. `NftMint`, `NftWhitelist`, `TokenCreation` and
`PaymentWatch` ask that there is a wallet, a handle, a symbol, an amount at all.

Only model-checked: the liveness properties `PaymentDetected`, `ExecutionEnds`
and `LaunchSettles`, as liveness under fairness and ENABLED are out of the
prover's reach.

## Divergences between the code and what it says

Three are runs that TLC refutes:

- `NoSecondRecordCredited`: `zcashReal.ts` says of `consumedTxids` that it
  stops a note from being matched to a second order "including across a
  restart"; the seed does not read the launches' `paymentTxRef`.
- `UndoIsExact`: `store.ts` calls the reversal "an exact inverse"; the row it
  reads keeps the amount asked for, not the amount that arrived.
- `BurnsUnlisted`: `forgeCraft` is said to burn pieces that are "unlisted"; it
  looks at the listing when it picks, not when it burns, and a piece listed in
  between is burned while for sale. Nothing in the buy route or in
  `fillNftPurchase` asks whether a piece was burned.

Seen while modelling and not kept as runs. The backend:

- `schema.prisma` says that both paths that clear a reservation clear only one
  they hold themselves; `fillNftPurchase` clears whoever's is there when a
  purchase is paid late. The other buyer then loses the race when paying.
- A crash or a failed statement between the transfer and the record of a sale
  leaves the purchase pending; when its payment is reported again after a
  restart the transfer finds another owner, the purchase is failed although the
  piece was delivered, and the seller's payout is never tried.
- `server.ts` says that whoever confirms ten times buys ten times, and that a
  repeat of an order that is not filled should not happen. The callbacks of one
  poll are not awaited: a resend that is settled before its original finds the
  order pending and is dropped, with its transaction used up. This is the second
  exception of `PaymentsTaken`, which says that there is no third.
- A memo note may be taken by the amount pass of the same tick, when its record
  took another note in the memo pass and a different record asks for its value.
- A payment that comes after its watcher has ended may be taken by amount for
  another record.
- The first buy quotes on the token row read before the lock is asked for, so
  `Serialized` fails when first buys are among `Kinds`.
- `bondingCurve.ts` bounds the rounding of a full sell by half a token's worth;
  that is so for one buy, and `DriftBounded` gives half a token per write.
- `server.ts:1204` calls the recomputation of a curve safe to call any number
  of times. It replays orders only: a phantom sell applied before, which leaves
  no order, is undone, and orders that were paid with another amount than they
  asked for are replayed at the amount asked.
- `schema.prisma:431` says that the payment method of a launch is chosen once;
  a launch may be quoted again while it is pending. `store.ts:4357` says that
  nothing is done from scratch when a step is retried; a step is retried from
  its first call, which NEAR refuses once it has succeeded (`StrandedStays`).
- A symbol is reserved for ever by a creation that nobody pays: nothing writes
  EXPIRED.
- `fees.ts:122` describes the limit of mints as a cap on pieces; the count is
  of rows (`MintLimitsKept` says what that comes to).
- `store.ts:3294` says that a stray second submission cannot take an approval
  back; it can when the approval comes between its read and its write. An entry
  claimed by a listed handle gets the default tier whatever the list says
  (`schema.prisma:951`), and a rejected entry submitted again under another
  handle keeps its old tier.
- The EVM login looks a wallet up by the address as it was spelled
  (`store.ts:165`), so that two spellings are two wallets.
- The token contract says that what a transfer with a call gives back is not
  burned (`lib.rs:270`); it is when the sender has left the contract meanwhile.

The pages:

- The creation page's `retry` does not clear the id of the payment before
  (`create/page.tsx:205`): the next creation shows "payment sent" and no button
  to pay. A late answer about the failed creation may be shown over the next.
- The launch page retries a proof only when the message is about confirmations
  (`near/page.tsx:183`); after any other error it offers to pay again, with the
  transaction that was sent forgotten. Two methods picked quickly: the later
  quote may take the page back to "pay" after the payment.
- A seller whose answer was lost is offered the same sale again.
- A list that was asked for with another filter may replace the one under the
  dialog that buys several pieces (`nft/page.tsx:214`), and the collection that
  a finished dialog asked for (`nft/page.tsx:559`) empties the list and the
  selection when it comes late, under the next dialog: "all done" then counts
  other pieces. Dismissing the dialog leaves reservations that nobody
  can pay until they lapse.
- The forge shows an error for a craft that was made when only the reading of
  the inventory fails, the mint page one for a free mint whose pieces could not
  be fetched, the page of a piece "not found" when a reload fails.
- FREE MINT and BUY send the same request: which it is, the backend decides.
- The callback of one X login deletes the pending cookie of a newer attempt,
  which then fails with `state_mismatch`. The mint page shows the handle it
  read when it opened, while a claim is made with the cookie's.
- On the closed whitelist's page Enter asks again while an answer is awaited, so
  that an answer about another handle may stand under the one typed.

## Not modelled, and what is left

- The wizard of the whitelist (behind `WHITELIST_CLOSED`), the pyramid pages
  (behind a flag), lists, charts, traits, activity, administrators' pages,
  onboarding of extensions and translations: rendering of what was fetched.
- Order rate limit (one synchronous function of a window in memory), price
  feeds and fee tables (numbers from outside and arithmetic), the mock chains
  (timers that pay every order in development), `zodd-create-fix`, patches,
  videos and upload scripts (not part of the running system).
- The locker's own records beyond the two effects a launch leaves, the mode in
  which the wallet service only makes addresses, the graduation flag, the
  platform's share of NFT sales in what it may withdraw, and the address that
  an approved claim changes.
