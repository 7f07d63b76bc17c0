----------------------------- MODULE FeePayouts ------------------------------
(***************************************************************************)
(* The payouts of trading fees: a run of the fee distributor pays creators *)
(* (backend/src/lib/feeDistributor.ts), a withdrawal pays the platform     *)
(* (backend/src/server.ts).  Each reads what is owed, asks the wallet      *)
(* service for a send (WalletService) and records it when it is answered;  *)
(* neither holds a lock.  Trades add to what is owed, and an administrator *)
(* takes a phantom buy's fees back.                                        *)
(***************************************************************************)
EXTENDS WalletService, FiniteSets, Functions

CONSTANTS
  FeeTokens,
  Platform,                \* the platform's own account
  Payers,                  \* requests of the two routes
  CreatorFee, PlatformFee, \* of one trade
  MinPayout, MaxPayout,
  MaxTrades                \* bound: trades of a token

ASSUME AccountsAssumption == Platform \notin FeeTokens
ASSUME FinitePayoutsAssumption == IsFiniteSet(FeeTokens) /\ IsFiniteSet(Sends)
ASSUME FeesAssumption ==
  /\ {CreatorFee, PlatformFee, MinPayout, MaxPayout} \subseteq Nat \ {0}
  /\ MaxTrades \in Nat

VARIABLES
  accrued,    \* database: creatorFeeAccruedZec
  paidOut,    \* database: creatorFeeTotalPaidZec, and the platform's withdrawals
  total,      \* database: platformFeeTotalZec
  payer,      \* memory: the runs and withdrawals
  payout,     \* what each send is for, and what became of it
  reversal,   \* memory: a reversal that has read its token
  trades,     \* history: trades that stand
  disputed,   \* history: accounts a reversal changed behind a payout
  doubled     \* history: accounts that two payers had in hand at once

feeRows == <<accrued, paidOut, total>>
feeHistory == <<trades, disputed, doubled>>
feeVars == <<feeRows, payer, payout, reversal, feeHistory>>
payoutVars == <<feeVars, walletVars>>

Accounts == FeeTokens \cup {Platform}
Nobody == [at |-> "idle", due |-> [a \in Accounts |-> 0], send |-> "none"]
NoReversal == [at |-> "idle", accrued |-> 0, total |-> 0]

PayoutTypeOK ==
  /\ WalletTypeOK
  /\ accrued \in [FeeTokens -> Int] /\ total \in [FeeTokens -> Nat]
  /\ paidOut \in [Accounts -> Nat]
  /\ payer \in [Payers -> [at : {"idle", "pay", "wait", "over"},
                           due : [Accounts -> Nat], send : Sends \cup {"none"}]]
  /\ payout \in [Sends -> [to : Accounts \cup {"none"}, amount : Nat,
                           at : {"none", "asked", "recorded", "dropped"}]]
  /\ reversal \in [FeeTokens -> [at : {"idle", "read"}, accrued : Int, total : Nat]]
  /\ trades \in [FeeTokens -> 0..MaxTrades]
  /\ disputed \subseteq Accounts /\ doubled \subseteq Accounts

PayoutInit ==
  /\ WalletInit
  /\ accrued = [t \in FeeTokens |-> 0] /\ total = [t \in FeeTokens |-> 0]
  /\ paidOut = [a \in Accounts |-> 0]
  /\ payer = [p \in Payers |-> Nobody]
  /\ payout = [s \in Sends |-> [to |-> "none", amount |-> 0, at |-> "none"]]
  /\ reversal = [t \in FeeTokens |-> NoReversal]
  /\ trades = [t \in FeeTokens |-> 0]
  /\ disputed = {} /\ doubled = {}

Lower(a, b) == IF a <= b THEN a ELSE b
AtLeast0(n) == IF n < 0 THEN 0 ELSE n

\* getPlatformFeeStatus
Claimable == AtLeast0(SumFunction(total) - paidOut[Platform])

-----------------------------------------------------------------------------
(* Fees: accrueFees, and reversePhantomBuyOrder, both under the token's     *)
(* lock.                                                                    *)

Trade(t) ==
  /\ trades[t] < MaxTrades /\ reversal[t] = NoReversal
  /\ accrued' = [accrued EXCEPT ![t] = @ + CreatorFee]
  /\ total' = [total EXCEPT ![t] = @ + PlatformFee]
  /\ trades' = [trades EXCEPT ![t] = @ + 1]
  /\ UNCHANGED <<paidOut, payer, payout, reversal, disputed, doubled, walletVars>>

InHand(a) == {p \in Payers : payer[p].due[a] > 0}
             \cup {s \in Sends : payout[s].to = a /\ payout[s].at = "asked"}
PaidFrom(a) == paidOut[a] > 0 \/ InHand(a) # {}

ReadReversal(t) ==
  /\ reversal[t] = NoReversal /\ trades[t] > 0
  /\ reversal' = [reversal EXCEPT ![t] =
       [at |-> "read", accrued |-> accrued[t], total |-> total[t]]]
  /\ UNCHANGED <<feeRows, payer, payout, feeHistory, walletVars>>

\* The new amounts are computed from what was read, and written as they are.
WriteReversal(t) ==
  LET read == reversal[t] IN
  /\ read.at = "read"
  /\ accrued' = [accrued EXCEPT ![t] = AtLeast0(read.accrued - CreatorFee)]
  /\ total' = [total EXCEPT ![t] = AtLeast0(read.total - PlatformFee)]
  /\ trades' = [trades EXCEPT ![t] = @ - 1]
  /\ disputed' = disputed \cup
       (IF accrued[t] # read.accrued \/ read.accrued < CreatorFee \/ InHand(t) # {}
        THEN {t} ELSE {})
       \cup (IF PaidFrom(Platform) THEN {Platform} ELSE {})
  /\ reversal' = [reversal EXCEPT ![t] = NoReversal]
  /\ UNCHANGED <<paidOut, payer, payout, doubled, walletVars>>

-----------------------------------------------------------------------------
(* Payouts.                                                                *)

TakeInHand(p, due) ==
  /\ payer' = [payer EXCEPT ![p] = [Nobody EXCEPT !.at = "pay", !.due = due]]
  /\ doubled' = doubled \cup {a \in Accounts : due[a] > 0 /\ InHand(a) # {}}
  /\ UNCHANGED <<feeRows, payout, reversal, trades, disputed, walletVars>>

\* getTokensDueForFeePayout, with no regard to the interval; a token that is
\* owed more than the cap is paid the cap.
StartRun(p) ==
  /\ payer[p].at = "idle"
  /\ TakeInHand(p, [a \in Accounts |->
       IF a \in FeeTokens /\ accrued[a] >= MinPayout THEN Lower(accrued[a], MaxPayout) ELSE 0])

\* withdraw-platform-fee: at most what is claimable.
StartWithdrawal(p, amount) ==
  /\ payer[p].at = "idle"
  /\ amount \in 1..Lower(Claimable, MaxPayout)
  /\ TakeInHand(p, [a \in Accounts |-> IF a = Platform THEN amount ELSE 0])

\* sendPayout: the wallet service takes the request or refuses it.
PayAccount(p, a) ==
  LET s == CHOOSE r \in Sends : answer[r] = "unsent"
      amount == payer[p].due[a] IN
  /\ payer[p].at = "pay" /\ amount > 0
  /\ \E r \in Sends : answer[r] = "unsent"
  /\ \/ /\ SendAccepted(s)
        /\ payer' = [payer EXCEPT ![p].at = "wait", ![p].send = s, ![p].due[a] = 0]
        /\ payout' = [payout EXCEPT ![s] = [to |-> a, amount |-> amount, at |-> "asked"]]
     \/ /\ SendRefused(s)
        /\ payer' = [payer EXCEPT ![p].due[a] = 0]
        /\ payout' = payout
  /\ UNCHANGED <<feeRows, reversal, feeHistory>>

\* Mutant: what is owed is cleared instead of reduced by what was paid.
RecordPayoutClears(p) ==
  LET s == payer[p].send
      a == payout[s].to
      amount == payout[s].amount IN
  /\ payer[p].at = "wait" /\ answer[s] = "ok"
  /\ paidOut' = [paidOut EXCEPT ![a] = @ + amount]
  /\ accrued' = IF a = Platform THEN accrued ELSE [accrued EXCEPT ![a] = 0]
  /\ payout' = [payout EXCEPT ![s].at = "recorded"]
  /\ payer' = [payer EXCEPT ![p].at = "pay", ![p].send = "none"]
  /\ UNCHANGED <<total, reversal, feeHistory, walletVars>>

\* recordFeePayout, recordPlatformWithdrawal
RecordPayout(p) ==
  LET s == payer[p].send
      a == payout[s].to
      amount == payout[s].amount IN
  /\ payer[p].at = "wait" /\ answer[s] = "ok"
  /\ paidOut' = [paidOut EXCEPT ![a] = @ + amount]
  /\ accrued' = IF a = Platform THEN accrued ELSE [accrued EXCEPT ![a] = @ - amount]
  /\ payout' = [payout EXCEPT ![s].at = "recorded"]
  /\ payer' = [payer EXCEPT ![p].at = "pay", ![p].send = "none"]
  /\ UNCHANGED <<total, reversal, feeHistory, walletVars>>

\* The answer is an error, or has not come in time, or its record throws: the
\* payout counts as not made.
DropPayout(p) ==
  /\ payer[p].at = "wait"
  /\ payout' = [payout EXCEPT ![payer[p].send].at = "dropped"]
  /\ payer' = [payer EXCEPT ![p].at = "pay", ![p].send = "none"]
  /\ UNCHANGED <<feeRows, reversal, feeHistory, walletVars>>

FinishPayer(p) ==
  /\ payer[p].at = "pay" /\ \A a \in Accounts : payer[p].due[a] = 0
  /\ payer' = [payer EXCEPT ![p].at = "over"]
  /\ UNCHANGED <<feeRows, payout, reversal, feeHistory, walletVars>>

\* The backend stops and boots.
RestartBackend ==
  /\ payer' = [p \in Payers |->
       IF payer[p].at = "idle" THEN payer[p] ELSE [Nobody EXCEPT !.at = "over"]]
  /\ payout' = [s \in Sends |->
       [payout[s] EXCEPT !.at = IF @ = "asked" THEN "dropped" ELSE @]]
  /\ reversal' = [t \in FeeTokens |-> NoReversal]
  /\ UNCHANGED <<feeRows, feeHistory, walletVars>>

PayoutNext ==
  \/ \E t \in FeeTokens : Trade(t) \/ ReadReversal(t) \/ WriteReversal(t)
  \/ \E p \in Payers :
       \/ StartRun(p) \/ RecordPayout(p) \/ DropPayout(p) \/ FinishPayer(p)
       \/ \E amount \in 1..MaxPayout : StartWithdrawal(p, amount)
       \/ \E a \in Accounts : PayAccount(p, a)
  \/ RestartBackend
  \/ WalletNext /\ UNCHANGED feeVars

PayoutSpec == PayoutInit /\ [][PayoutNext]_payoutVars

-----------------------------------------------------------------------------
(* Properties.                                                             *)

Earned(a) == IF a = Platform
             THEN SumFunction([t \in FeeTokens |-> trades[t] * PlatformFee])
             ELSE trades[a] * CreatorFee

\* What the wallet has sent an account by the payouts that are at one of `at`.
SentTo(a, at) == SumFunction([s \in Sends |->
  IF payout[s].to = a /\ payout[s].at \in at THEN sent[s] * payout[s].amount ELSE 0])

\* Every fee is either owed or paid, on every token of which no reversal took
\* fees back that were paid, or being paid, already (it writes the amount it
\* computed from what it read, while a payout's record subtracts its own).
FeesAccounted == \A t \in FeeTokens \ disputed : accrued[t] + paidOut[t] = Earned(t)

\* The wallet sends no account more than it has earned, whatever is refused, late,
\* tried again or lost to a crash, except where two payers had it in hand at once
\* (nothing keeps two runs of a route apart), a reversal came behind a payout, or
\* by sends whose answer was dropped; and what is recorded as paid was sent.
NothingPaidTwice == \A a \in Accounts :
  /\ paidOut[a] <= SentTo(a, {"recorded"})
  /\ a \notin disputed \cup doubled => SentTo(a, {"asked", "recorded"}) <= Earned(a)
=============================================================================
