----------------------------- MODULE NearLaunch -----------------------------
(***************************************************************************)
(* The NEAR launch pipeline of the backend.                                *)
(*                                                                         *)
(* A launch is a row (backend/src/lib/store.ts).  It is quoted and paid    *)
(* through nearLaunchPayments.ts: a transaction on another chain that the  *)
(* creator's page submits, or ZEC that the watcher detects.  Once paid,    *)
(* the poll of nearLaunch.ts drives it through six steps; each step makes  *)
(* one or two calls on NEAR and then records itself in the row.  A step    *)
(* that throws is counted and tried again from its first call; at          *)
(* MaxStepAttempts the launch is given up.                                 *)
(*                                                                         *)
(* NEAR is a counter per launch: the calls build on one another, and NEAR  *)
(* refuses one that was already carried out (the account exists, the       *)
(* contract is initialised, the key is gone, the pool exists, the balance  *)
(* was deposited, the position was handed over, the launch is locked).     *)
(***************************************************************************)
EXTENDS Integers, FiniteSets

CONSTANTS
  Launches,         \* ids of PendingNearLaunch rows
  Refs,             \* transaction hashes, signatures and Zcash txids
  ZecRefs,          \* the Zcash txids among them
  Requests,         \* payment proofs and ZEC detections, each used once
  Linked,           \* launches whose creator's wallet has a NEAR account
  MaxStepAttempts,  \* tries of one step before the launch is given up
  MaxLaunchFaults,  \* bound: crashes, and database writes that throw
  NoLaunch, NoRef

ASSUME LaunchesAssumption == NoLaunch \notin Launches /\ Linked \subseteq Launches
ASSUME RefsAssumption == NoRef \notin Refs /\ ZecRefs \subseteq Refs
ASSUME AttemptsAssumption == MaxStepAttempts \in Nat \ {0}
ASSUME LaunchBoundsAssumption == MaxLaunchFaults \in Nat

VARIABLES
  launch,     \* database: the rows
  request,    \* payment proofs and detections in flight
  zecWatch,   \* memory: pending launches with a watcher
  consumed,   \* memory: the Zcash txids already attributed
  tick,       \* memory: the poll in flight
  chain,      \* NEAR: how many of a launch's effects it has
  overlap,    \* history: two payments of a launch, or of one transaction, were
              \* in flight at once
  faults      \* crashes and writes that threw, so far

payments == <<request, zecWatch, consumed, overlap>>
launchVars == <<launch, payments, tick, chain, faults>>

Effects == 8
Steps == 0..6
\* NOT_STARTED .. POSITION_LOCKED, by the effects that come before: the fifth
\* step (seed) and the sixth (lock) make two calls each.
Base(step) == IF step <= 4 THEN step ELSE 2 * step - 4

Methods == {"none", "zec", "submitted"}
Row == [status : {"NONE", "PENDING", "PAID", "DEPLOYING", "LIVE", "FAILED"},
        method : Methods, ref : Refs \cup {NoRef},
        step : Steps, attempts : Nat, key : BOOLEAN]

Request == [launch : Launches \cup {NoLaunch}, ref : Refs \cup {NoRef},
            at : {"unsent", "verify", "mark", "over"}]

Tick == [todo : SUBSET Launches, cur : Launches \cup {NoLaunch},
         at : {"idle", "call", "record", "caught", "giveup"}, call : 0..Effects]

LaunchTypeOK ==
  /\ launch \in [Launches -> Row]
  /\ request \in [Requests -> Request]
  /\ zecWatch \subseteq Launches
  /\ tick \in Tick
  /\ chain \in [Launches -> 0..Effects]
  /\ consumed \subseteq ZecRefs /\ overlap \in BOOLEAN
  /\ faults \in Nat

NoLaunchRow == [status |-> "NONE", method |-> "none", ref |-> NoRef,
                step |-> 0, attempts |-> 0, key |-> FALSE]
Unsent == [launch |-> NoLaunch, ref |-> NoRef, at |-> "unsent"]
Over == [Unsent EXCEPT !.at = "over"]
IdleTick == [todo |-> {}, cur |-> NoLaunch, at |-> "idle", call |-> 0]

LaunchInit ==
  /\ launch = [l \in Launches |-> NoLaunchRow]
  /\ zecWatch = {}
  /\ request = [q \in Requests |-> Unsent]
  /\ tick = IdleTick
  /\ chain = [l \in Launches |-> 0]
  /\ consumed = {} /\ overlap = FALSE
  /\ faults = 0

-----------------------------------------------------------------------------
(* Creation, quotes and payment.                                           *)

\* POST /api/near-launches
CreateLaunch(l) ==
  /\ launch[l].status = "NONE"
  /\ launch' = [launch EXCEPT ![l].status = "PENDING"]
  /\ UNCHANGED <<payments, tick, chain, faults>>

\* quoteNearLaunchPayment and setNearLaunchPaymentQuote: the last quote of a
\* pending launch is the one in the row, and the watcher of an earlier ZEC quote
\* stays.  (A quote that is written after the launch was paid changes a method
\* that nothing reads any more.)
Quote(l, m) ==
  /\ launch[l].status = "PENDING"
  /\ launch' = [launch EXCEPT ![l].method = m]
  /\ zecWatch' = IF m = "zec" THEN zecWatch \cup {l} ELSE zecWatch
  /\ UNCHANGED <<request, consumed, overlap, tick, chain, faults>>

\* No address could be had: generateOrderAddress gives up the launch's watcher,
\* an earlier quote's too.
QuoteFails(l) ==
  /\ launch[l].status = "PENDING"
  /\ zecWatch' = zecWatch \ {l}
  /\ UNCHANGED <<launch, request, consumed, overlap, tick, chain, faults>>

\* Mutant: nobody looks for another launch with the transaction.
UsedElsewhereUnchecked(l, r) == FALSE

UsedElsewhere(l, r) == \E o \in Launches \ {l} : launch[o].ref = r

Overlaps(l, r) == \E q \in Requests : request[q].launch = l \/ request[q].ref = r

\* verifyAndMarkNearLaunchPaid: everything that is decided on the row that was
\* read first.  A request that is refused here, or answered from the row, is
\* over without a trace.
SubmitProof(q, l, r) ==
  /\ request[q].at = "unsent" /\ r \notin ZecRefs
  /\ launch[l].status = "PENDING" /\ launch[l].method = "submitted"
  /\ ~UsedElsewhere(l, r)
  /\ request' = [request EXCEPT ![q] = [launch |-> l, ref |-> r, at |-> "verify"]]
  /\ overlap' = (overlap \/ Overlaps(l, r))
  /\ UNCHANGED <<launch, zecWatch, consumed, tick, chain, faults>>

\* verifyEvmPayment, verifySolanaUsdcPayment: the chain knows the payment, or the
\* request is refused.
Verify(q) ==
  /\ request[q].at = "verify"
  /\ \E answer \in {[request[q] EXCEPT !.at = "mark"], Over} :
       request' = [request EXCEPT ![q] = answer]
  /\ UNCHANGED <<launch, zecWatch, consumed, overlap, tick, chain, faults>>

\* A final note is attributed to the launch, and handlePaymentDetected finds the
\* launch pending.  (What is detected for one that is not is dropped.)
DetectZec(q, l, r) ==
  /\ request[q].at = "unsent" /\ l \in zecWatch
  /\ r \in ZecRefs \ consumed
  /\ consumed' = consumed \cup {r}
  /\ request' = [request EXCEPT ![q] = [launch |-> l, ref |-> r, at |-> "mark"]]
  /\ overlap' = (overlap \/ Overlaps(l, r))
  /\ UNCHANGED <<launch, zecWatch, tick, chain, faults>>

\* markNearLaunchPaid, whatever the row says by now.
MarkPaid(q) ==
  LET l == request[q].launch IN
  /\ request[q].at = "mark"
  /\ launch' = [launch EXCEPT ![l].status = "PAID", ![l].ref = request[q].ref]
  /\ request' = [request EXCEPT ![q] = Over]
  /\ zecWatch' = zecWatch \ {l}
  /\ UNCHANGED <<consumed, overlap, tick, chain, faults>>

\* ... or its write throws, and nobody asks again.
MarkThrows(q) ==
  /\ request[q].at = "mark" /\ faults < MaxLaunchFaults
  /\ faults' = faults + 1
  /\ request' = [request EXCEPT ![q] = Over]
  /\ UNCHANGED <<launch, zecWatch, consumed, overlap, tick, chain>>

-----------------------------------------------------------------------------
(* The poll.                                                               *)

NextLaunch(t) == [IdleTick EXCEPT !.todo = t]
ToAdvance == {l \in Launches : launch[l].status \in {"PAID", "DEPLOYING"}}

\* startNearLaunchPolling's guard and getNearLaunchesToAdvance.
StartTick ==
  /\ tick = IdleTick /\ ToAdvance # {}
  /\ tick' = NextLaunch(ToAdvance)
  /\ UNCHANGED <<launch, payments, chain, faults>>

\* advanceOneLaunch picks the step of the row: a launch that is locked needs
\* nothing, and the lock throws at once for a creator without an account.
TakeLaunch(l) ==
  LET step == launch[l].step
      rest == NextLaunch(tick.todo \ {l}) IN
  /\ tick.cur = NoLaunch /\ l \in tick.todo
  /\ tick' = IF step = 6 THEN rest
             ELSE [rest EXCEPT !.cur = l, !.call = Base(step) + 1,
                     !.at = IF step = 5 /\ l \notin Linked THEN "caught" ELSE "call"]
  /\ UNCHANGED <<launch, payments, chain, faults>>

\* NEAR carries the call out when it is the next one for the launch.
Calling(l) == tick.cur = l /\ tick.at = "call"
Applied(l) == chain[l] = tick.call - 1

\* Mutant: what was already done counts as done.
CallAnsweredAgain(l, last) ==
  /\ chain[l] >= tick.call - 1
  /\ chain' = [chain EXCEPT ![l] = IF @ < tick.call THEN tick.call ELSE @]
  /\ tick' = IF tick.call = last THEN [tick EXCEPT !.at = "record"]
             ELSE [tick EXCEPT !.call = @ + 1]

\* It is answered: on to the step's next call, or to its record.
CallAnswered(l, last) ==
  /\ Applied(l)
  /\ chain' = [chain EXCEPT ![l] = tick.call]
  /\ tick' = IF tick.call = last THEN [tick EXCEPT !.at = "record"]
             ELSE [tick EXCEPT !.call = @ + 1]

\* Mutant: a call that throws is taken for one that was answered.
CallThrowsUnseen(l) ==
  /\ \/ chain' = chain
     \/ Applied(l) /\ chain' = [chain EXCEPT ![l] = tick.call]
  /\ tick' = [tick EXCEPT !.at = "record"]

\* It throws: NEAR refused it, it never arrived, or only its answer was lost.
CallThrows(l) ==
  /\ \/ chain' = chain
     \/ Applied(l) /\ chain' = [chain EXCEPT ![l] = tick.call]
  /\ tick' = [tick EXCEPT !.at = "caught"]

Call(l, step, last) ==
  /\ Calling(l) /\ launch[l].step = step
  /\ CallAnswered(l, last) \/ CallThrows(l)
  /\ UNCHANGED <<launch, payments, faults>>

\* createSubAccount, with a key made for this try
StepCreateTokenAccount(l) == Call(l, 0, 1)
\* deployContract may be repeated; `new` panics on a contract that has its state
StepDeployAndInitToken(l) == Call(l, 1, 2)
\* deleteKey, signed with the key it deletes
StepRevokeDeployKey(l) == Call(l, 2, 3)
\* create_pool
StepCreatePool(l) == Call(l, 3, 4)
\* storage_deposit, twice, may be repeated; then ft_transfer_call of the whole
\* supply and add_liquidity
StepSeedLiquidity(l) == Call(l, 4, 6)
\* nft_transfer to the locker, then lock_position
StepLockPosition(l) == Call(l, 5, 8)

\* Mutant: the launch is announced one step early.
RecordStepEarly(l) ==
  LET step == launch[l].step + 1 IN
  /\ tick.cur = l /\ tick.at = "record"
  /\ launch' = [launch EXCEPT ![l].step = step, ![l].attempts = 0,
       ![l].status = IF step >= 5 THEN "LIVE" ELSE "DEPLOYING",
       ![l].key = IF step = 1 THEN TRUE ELSE IF step = 3 THEN FALSE ELSE @]
  /\ tick' = NextLaunch(tick.todo)
  /\ UNCHANGED <<payments, chain, faults>>

\* advanceNearLaunchStep
RecordStep(l) ==
  LET step == launch[l].step + 1 IN
  /\ tick.cur = l /\ tick.at = "record"
  /\ launch' = [launch EXCEPT ![l].step = step, ![l].attempts = 0,
       ![l].status = IF step = 6 THEN "LIVE" ELSE "DEPLOYING",
       ![l].key = IF step = 1 THEN TRUE ELSE IF step = 3 THEN FALSE ELSE @]
  /\ tick' = NextLaunch(tick.todo)
  /\ UNCHANGED <<payments, chain, faults>>

\* ... whose write throws inside the step.
RecordThrows(l) ==
  /\ tick.cur = l /\ tick.at = "record" /\ faults < MaxLaunchFaults
  /\ faults' = faults + 1
  /\ tick' = [tick EXCEPT !.at = "caught"]
  /\ UNCHANGED <<launch, payments, chain>>

\* Mutant: the failure is not counted.
CountFailureNot(l) ==
  /\ tick.cur = l /\ tick.at = "caught"
  /\ tick' = NextLaunch(tick.todo)
  /\ UNCHANGED <<launch, payments, chain, faults>>

\* recordNearLaunchStepFailure
CountFailure(l) ==
  /\ tick.cur = l /\ tick.at = "caught"
  /\ launch' = [launch EXCEPT ![l].attempts = @ + 1]
  /\ tick' = IF launch[l].attempts + 1 >= MaxStepAttempts
             THEN [tick EXCEPT !.at = "giveup"] ELSE NextLaunch(tick.todo)
  /\ UNCHANGED <<payments, chain, faults>>

\* failNearLaunch
FailLaunch(l) ==
  /\ tick.cur = l /\ tick.at = "giveup"
  /\ launch' = [launch EXCEPT ![l].status = "FAILED"]
  /\ tick' = NextLaunch(tick.todo)
  /\ UNCHANGED <<payments, chain, faults>>

\* Neither write is in a try: it ends the whole poll, and the launches behind
\* this one wait for the next.
TickThrows(l) ==
  /\ tick.cur = l /\ tick.at \in {"caught", "giveup"} /\ faults < MaxLaunchFaults
  /\ faults' = faults + 1
  /\ tick' = IdleTick
  /\ UNCHANGED <<launch, payments, chain>>

-----------------------------------------------------------------------------
\* The backend stops and boots: what was in flight is gone, the watchers come
\* back from getNearLaunchesAwaitingZecPayment.
RestartLaunches ==
  /\ faults < MaxLaunchFaults /\ faults' = faults + 1
  /\ consumed' = {}
  /\ request' = [q \in Requests |-> IF request[q].at = "unsent" THEN Unsent ELSE Over]
  /\ zecWatch' = {l \in Launches : launch[l].status = "PENDING" /\ launch[l].method = "zec"}
  /\ tick' = IdleTick
  /\ UNCHANGED <<launch, overlap, chain>>

PaymentNext ==
  \/ \E l \in Launches : CreateLaunch(l) \/ QuoteFails(l)
  \/ \E l \in Launches, m \in {"zec", "submitted"} : Quote(l, m)
  \/ \E q \in Requests, l \in Launches, r \in Refs :
       SubmitProof(q, l, r) \/ DetectZec(q, l, r)
  \/ \E q \in Requests : Verify(q) \/ MarkPaid(q) \/ MarkThrows(q)

Advance(l) ==
  \/ TakeLaunch(l)
  \/ StepCreateTokenAccount(l) \/ StepDeployAndInitToken(l)
  \/ StepRevokeDeployKey(l) \/ StepCreatePool(l)
  \/ StepSeedLiquidity(l) \/ StepLockPosition(l)
  \/ RecordStep(l) \/ RecordThrows(l)
  \/ CountFailure(l) \/ FailLaunch(l) \/ TickThrows(l)

PollNext == StartTick \/ \E l \in Launches : Advance(l)

LaunchNext == PaymentNext \/ PollNext \/ RestartLaunches
LaunchSpec == LaunchInit /\ [][LaunchNext]_launchVars

\* The interval calls the poll for as long as the process runs, and whatever the
\* poll awaits answers or throws.
LaunchFairness == WF_launchVars(PollNext)

-----------------------------------------------------------------------------
(* Properties.                                                             *)

\* The row is never ahead of NEAR and at most one step behind it, whatever call,
\* answer, write or process is lost on the way (advanceNearLaunchStep is written
\* after the calls of its step, which is why a step can be stranded but never
\* skipped); nothing is built before the launch is paid, and the deploy key is in
\* the row exactly while the account still has it and the row knows the account.
RecordFollowsChain == \A l \in Launches :
  LET row == launch[l] IN
  /\ Base(row.step) <= chain[l]
  /\ row.step < 6 => chain[l] <= Base(row.step + 1)
  /\ row.status \in {"NONE", "PENDING"} => chain[l] = 0
  /\ row.status = "LIVE" => row.step = 6
  /\ row.key <=> row.step \in {1, 2}

\* As long as no two payments of a launch, or of one transaction, were in flight
\* at once, a submitted transaction pays for one launch and a launch that is live
\* stays so.  (The check of paymentTxRef and the status are read before the
\* chain is asked, and markNearLaunchPaid looks at neither again.)
OnePaymentOneLaunch == ~overlap =>
  /\ \A l, o \in Launches :
       launch[l].ref = launch[o].ref /\ launch[l].ref \in Refs \ ZecRefs => l = o
  /\ \A l \in Launches : launch[l].step = 6 => launch[l].status = "LIVE"

\* A launch whose row fell behind NEAR is not picked up where it stopped: its
\* step is tried again from the first call, which NEAR refuses for ever, so that
\* it stays behind and is never live.
Moving(l) == tick.cur = l /\ (tick.at = "record" \/ (tick.at = "call" /\ Applied(l)))
Stranded(l) == chain[l] > Base(launch[l].step) /\ ~Moving(l)
StrandedStays == [][\A l \in Launches : Stranded(l) => Stranded(l)']_launchVars

\* A paid launch is settled: live, or given up after MaxStepAttempts tries of one
\* step, however often NEAR fails (the poll goes on, and counts).
LaunchSettles == \A l \in Launches :
  (launch[l].status \in {"PAID", "DEPLOYING"} /\ launch[l].step < 6)
    ~> launch[l].status \in {"LIVE", "FAILED"}

\* The pipeline keeps what LaunchChain promises.
Fate(l) ==
  CASE launch[l].status \in {"NONE", "PENDING"} -> "asked"
    [] launch[l].status \in {"PAID", "DEPLOYING"} -> "paid"
    [] launch[l].status = "LIVE" -> "live"
    [] launch[l].status = "FAILED" -> "failed"
LC == INSTANCE LaunchChain WITH fate <- [l \in Launches |-> Fate(l)], built <- chain
ImplementsLaunchChain == LC!LCSpec
=============================================================================
