---------------------------- MODULE TokenLedger -----------------------------
(***************************************************************************)
(* The books of one token: its curve, balances, fees and orders, as the    *)
(* buy, sell, first-buy and reversal paths of backend/src/server.ts write  *)
(* them, one database statement at a time, under the token's lock          *)
(* (backend/src/lib/mutex.ts).  Locks of different tokens are independent  *)
(* and so are their books.                                                 *)
(*                                                                         *)
(* Every path reads the token under the lock, computes a new curve, and    *)
(* then overwrites it; in between and afterwards it awaits, and may throw  *)
(* or be cut by a crash.  Price points, links and remembered payout        *)
(* addresses, which no path reads back, are left out.                      *)
(***************************************************************************)
EXTENDS BondingCurve, Sequences, Functions, FiniteSets

CONSTANTS
  Jobs,       \* executions of a path
  Kinds,      \* the paths an instance explores
  Orders,     \* rows of the orders table
  Wallets,
  Payments,   \* ZEC amounts asked of payers and sent by them
  Sales,      \* token amounts offered for sale
  FeeBps,     \* TRADE_FEE_BPS
  NetworkFee, \* NETWORK_FEE_ZEC
  MaxCrashes, \* bound: crashes of the backend
  NoOrder, NoWallet

ASSUME KindsAssumption == Kinds \subseteq {"buy", "repeat", "first", "sell", "undo"}
ASSUME AmountsAssumption ==
  /\ Payments \subseteq Nat \ {0} /\ Sales \subseteq Nat \ {0}
  /\ FeeBps \in 0..9999 /\ NetworkFee \in Nat /\ MaxCrashes \in Nat
ASSUME NamesAssumption == NoOrder \notin Orders /\ NoWallet \notin Wallets
ASSUME FiniteAssumption ==
  IsFiniteSet(Jobs) /\ IsFiniteSet(Orders) /\ IsFiniteSet(Wallets)

VARIABLES
  curve,   \* database: curveReserveZec and curveSoldTokens of the token
  accrued, \* database: creator and platform fees of the token, together
  balance, \* database: tokens of each wallet
  orders,  \* database: the orders of the token
  paid,    \* the chain: ZEC that arrived for an order first, 0 for none
  vault,   \* the chain: ZEC the platform wallet holds for this token
  queue,   \* memory: the promise chain of the token's lock
  job,     \* memory: local variables and progress of every execution
  crashes  \* crashes so far

books == <<curve, accrued, balance, orders>>
chain == <<paid, vault>>
vars == <<books, chain, queue, job, crashes>>

Fee(z) == (z * FeeBps) \div 10000
Net(z) == z - Fee(z)

Order == [status : {"NONE", "PENDING", "FILLED", "FAILED", "DELETED"},
          side : {"BUY", "SELL"}, wallet : Wallets \cup {NoWallet},
          zec : Nat, tokens : Nat]
NoRow == [status |-> "NONE", side |-> "BUY", wallet |-> NoWallet, zec |-> 0, tokens |-> 0]

\* pc is the statement an execution has got past.
Job == [kind : Kinds \cup {"none"}, order : Orders \cup {NoOrder},
        wallet : Wallets \cup {NoWallet}, zec : Nat, tokens : Nat,
        read : Curve, next : Curve, born : 0..MaxCrashes,
        pc : {"idle", "created", "queued", "quoted", "sent", "moved", "short",
              "settled", "accrued", "over"}]
IdleJob == [kind |-> "none", order |-> NoOrder, wallet |-> NoWallet, zec |-> 0,
            tokens |-> 0, read |-> EmptyCurve, next |-> EmptyCurve, born |-> 0,
            pc |-> "idle"]

TypeOK ==
  /\ curve \in Curve
  /\ accrued \in Nat
  /\ balance \in [Wallets -> Nat]
  /\ orders \in [Orders -> Order]
  /\ paid \in [Orders -> Nat] /\ vault \in Int
  /\ queue \in Seq(Jobs)
  /\ job \in [Jobs -> Job]
  /\ crashes \in 0..MaxCrashes

\* The token has just been created.
Init ==
  /\ curve = EmptyCurve /\ accrued = 0
  /\ balance = [w \in Wallets |-> 0]
  /\ orders = [o \in Orders |-> NoRow]
  /\ paid = [o \in Orders |-> 0] /\ vault = 0
  /\ queue = <<>>
  /\ job = [j \in Jobs |-> IdleJob]
  /\ crashes = 0

-----------------------------------------------------------------------------
(* The lock.                                                               *)

\* Mutant: the last to come is served first.
AppendedLast(j) == <<j>> \o queue

\* withTokenLock: the callback runs after every one queued before it.
Appended(j) == Append(queue, j)

Holds(j) == queue # <<>> /\ Head(queue) = j

\* Mutant: a rejected link of the chain is never passed.
Jammed == queue

\* The chain goes on when the callback has returned or thrown.
Passed == Tail(queue)

Enqueue(j, kind, o, w, z, t) ==
  /\ job[j].pc = "idle" /\ kind \in Kinds
  /\ job' = [job EXCEPT ![j] = [IdleJob EXCEPT !.kind = kind, !.order = o,
       !.wallet = w, !.zec = z, !.tokens = t, !.born = crashes, !.pc = "queued"]]
  /\ queue' = Appended(j)

\* An execution reaches pc, and ends or not.
At(j, pc) == job' = [job EXCEPT ![j].pc = pc] /\ UNCHANGED queue
EndAt(j, pc) == job' = [job EXCEPT ![j].pc = pc] /\ queue' = Passed

-----------------------------------------------------------------------------
(* What starts an execution.                                               *)

PlaceOrder(o, w, z) ==
  /\ orders[o].status = "NONE"
  /\ orders' = [orders EXCEPT ![o] = [NoRow EXCEPT !.status = "PENDING", !.wallet = w, !.zec = z]]
  /\ UNCHANGED <<curve, accrued, balance, chain, queue, job, crashes>>

OriginalRun(o) ==
  {k \in Jobs : job[k].kind = "buy" /\ job[k].order = o /\ job[k].born = crashes}

\* handlePaymentDetected: the payment for a pending order, of any amount, is
\* attributed once in the life of a process; after a crash it may be again.
BuyPaid(j, o, z) ==
  /\ orders[o].status = "PENDING" /\ OriginalRun(o) = {} /\ paid[o] \in {0, z}
  /\ paid' = [paid EXCEPT ![o] = z]
  /\ vault' = IF paid[o] = 0 THEN vault + z ELSE vault
  /\ Enqueue(j, "buy", o, orders[o].wallet, z, 0)
  /\ UNCHANGED <<books, crashes>>

\* A repeat, while the watcher that saw the original lives.
BuyPaidAgain(j, o, z) ==
  /\ orders[o].status = "FILLED" /\ OriginalRun(o) # {}
  /\ vault' = vault + z
  /\ Enqueue(j, "repeat", o, orders[o].wallet, z, 0)
  /\ UNCHANGED <<books, paid, crashes>>

\* The creation of the token came with a first buy of z: the row of the
\* token is read here, before anything else can happen to it.
FirstBuyPaid(j, w, z) ==
  /\ "first" \in Kinds /\ \A k \in Jobs : job[k] = IdleJob
  /\ \A o \in Orders : orders[o] = NoRow
  /\ job' = [job EXCEPT ![j] = [IdleJob EXCEPT !.kind = "first", !.wallet = w,
       !.zec = z, !.read = curve, !.born = crashes, !.pc = "created"]]
  /\ vault' = vault + z
  /\ UNCHANGED <<books, paid, queue, crashes>>

\* Some awaits later it asks for the lock.
FirstBuyQueues(j) ==
  /\ job[j].pc = "created" /\ job[j].born = crashes
  /\ job' = [job EXCEPT ![j].pc = "queued"]
  /\ queue' = Appended(j)
  /\ UNCHANGED <<books, chain, crashes>>

SellAsked(j, w, t) ==
  /\ Enqueue(j, "sell", NoOrder, w, 0, t)
  /\ UNCHANGED <<books, chain, crashes>>

UndoAsked(j, o) ==
  /\ orders[o].status \notin {"NONE", "DELETED"}
  /\ Enqueue(j, "undo", o, NoWallet, 0, 0)
  /\ UNCHANGED <<books, chain, crashes>>

-----------------------------------------------------------------------------
(* The statements under the lock.                                          *)

Quoted(j, read, next, tokens) ==
  job' = [job EXCEPT ![j].read = read, ![j].next = next, ![j].tokens = tokens,
                     ![j].pc = "quoted"]

BuyFrom(j, c) ==
  /\ CanBuy(c)
  /\ Quoted(j, c, AfterBuy(c, Net(job[j].zec)), TokensOut(c, Net(job[j].zec)))

\* getTokenById, then quoteBuy.
BuyQuote(j) ==
  /\ Holds(j) /\ job[j].pc = "queued" /\ job[j].kind \in {"buy", "repeat"}
  /\ BuyFrom(j, curve)
  /\ UNCHANGED <<books, chain, queue, crashes>>

\* The first buy quotes on the row it was handed.
FirstQuote(j) ==
  /\ Holds(j) /\ job[j].pc = "queued" /\ job[j].kind = "first"
  /\ BuyFrom(j, job[j].read)
  /\ UNCHANGED <<books, chain, queue, crashes>>

\* Mutant: the balance is not looked at before the payout.
SellableUnchecked(w, t) ==
  CanSell(curve, t) /\ Net(ZecOut(curve, t)) > NetworkFee

\* The balance suffices, the curve can pay, and the payout beats the fee of
\* the network.
Sellable(w, t) ==
  balance[w] >= t /\ CanSell(curve, t) /\ Net(ZecOut(curve, t)) > NetworkFee

\* getTokenById, getBalance, quoteSell, computeSellerPayout.
SellQuote(j) ==
  /\ Holds(j) /\ job[j].pc = "queued" /\ job[j].kind = "sell"
  /\ IF Sellable(job[j].wallet, job[j].tokens)
     THEN /\ Quoted(j, curve, AfterSell(curve, job[j].tokens), job[j].tokens)
          /\ UNCHANGED queue
     ELSE EndAt(j, "over")
  /\ UNCHANGED <<books, chain, crashes>>

\* reversePhantomBuyOrder takes filled buys only; it undoes the amount the
\* order row names.
UndoQuote(j) ==
  LET row == orders[job[j].order] IN
  /\ Holds(j) /\ job[j].pc = "queued" /\ job[j].kind = "undo"
  /\ IF row.status = "FILLED" /\ row.side = "BUY"
     THEN /\ job' = [job EXCEPT ![j].read = curve,
               ![j].next = AfterUndo(curve, Net(row.zec), row.tokens),
               ![j].tokens = row.tokens, ![j].zec = row.zec,
               ![j].wallet = row.wallet, ![j].pc = "quoted"]
          /\ UNCHANGED queue
     ELSE EndAt(j, "over")
  /\ UNCHANGED <<books, chain, crashes>>

\* What a sell takes out of the curve; the seller gets the net of it less
\* the fee of the network, which leaves the vault as well.
Proceeds(j) == job[j].read.reserve - job[j].next.reserve

\* Mutant: the fee is not kept back.
SendGross(j) ==
  /\ Holds(j) /\ job[j].pc = "quoted" /\ job[j].kind = "sell"
  /\ vault' = vault - Proceeds(j)
  /\ At(j, "sent")
  /\ UNCHANGED <<books, paid, crashes>>

\* sendPayout, before anything is written.
SendPayout(j) ==
  /\ Holds(j) /\ job[j].pc = "quoted" /\ job[j].kind = "sell"
  /\ vault' = vault - Net(Proceeds(j))
  /\ At(j, "sent")
  /\ UNCHANGED <<books, paid, crashes>>

\* The wallet service sends, and the answer is lost or late: to the caller
\* it has failed.
SendPayoutUnanswered(j) ==
  /\ Holds(j) /\ job[j].pc = "quoted" /\ job[j].kind = "sell"
  /\ vault' = vault - Net(Proceeds(j))
  /\ EndAt(j, "sent")
  /\ UNCHANGED <<books, paid, crashes>>

\* updateTokenCurve, an absolute write; a reversal takes its fees back in
\* the same statement.
MoveCurve(j) ==
  /\ Holds(j) /\ job[j].pc = (IF job[j].kind = "sell" THEN "sent" ELSE "quoted")
  /\ curve' = job[j].next
  /\ accrued' = IF job[j].kind = "undo" THEN Least0(accrued - Fee(job[j].zec)) ELSE accrued
  /\ At(j, "moved")
  /\ UNCHANGED <<balance, orders, chain, crashes>>

\* creditBalance.
Credit(j) ==
  /\ Holds(j) /\ job[j].pc = "moved" /\ job[j].kind \in {"buy", "repeat", "first"}
  /\ balance' = [balance EXCEPT ![job[j].wallet] = @ + job[j].tokens]
  /\ At(j, "settled")
  /\ UNCHANGED <<curve, accrued, orders, chain, crashes>>

\* debitBalance.
Debit(j) ==
  /\ Holds(j) /\ job[j].pc = "moved" /\ job[j].kind \in {"sell", "undo"}
  /\ balance[job[j].wallet] >= job[j].tokens
  /\ balance' = [balance EXCEPT ![job[j].wallet] = @ - job[j].tokens]
  /\ At(j, "settled")
  /\ UNCHANGED <<curve, accrued, orders, chain, crashes>>

\* debitBalance throws: it ends a sell, a reversal notes it and goes on.
DebitFails(j) ==
  /\ Holds(j) /\ job[j].pc = "moved" /\ job[j].kind \in {"sell", "undo"}
  /\ balance[job[j].wallet] < job[j].tokens
  /\ IF job[j].kind = "sell" THEN EndAt(j, "moved") ELSE At(j, "short")
  /\ UNCHANGED <<books, chain, crashes>>

\* accrueFees, on the ZEC that moved.
Accrue(j) ==
  /\ Holds(j) /\ job[j].pc = "settled" /\ job[j].kind # "undo"
  /\ accrued' = accrued + Fee(IF job[j].kind = "sell" THEN Proceeds(j) ELSE job[j].zec)
  /\ At(j, "accrued")
  /\ UNCHANGED <<curve, balance, orders, chain, crashes>>

\* fillBuyOrder: the row keeps the amount that was asked for.
FillOrder(j) ==
  /\ Holds(j) /\ job[j].pc = "accrued" /\ job[j].kind = "buy"
  /\ orders' = [orders EXCEPT ![job[j].order].status = "FILLED",
                              ![job[j].order].tokens = job[j].tokens]
  /\ EndAt(j, "over")
  /\ UNCHANGED <<curve, accrued, balance, chain, crashes>>

\* createRepeatBuyOrder, createSellOrder: a new row, filled.
NewOrder(j, o) ==
  /\ Holds(j) /\ job[j].pc = "accrued" /\ job[j].kind \in {"repeat", "first", "sell"}
  /\ orders[o].status = "NONE"
  /\ orders' = [orders EXCEPT ![o] =
       [status |-> "FILLED", side |-> IF job[j].kind = "sell" THEN "SELL" ELSE "BUY",
        wallet |-> job[j].wallet, tokens |-> job[j].tokens,
        zec |-> IF job[j].kind = "sell" THEN Proceeds(j) ELSE job[j].zec]]
  /\ EndAt(j, "over")
  /\ UNCHANGED <<curve, accrued, balance, chain, crashes>>

\* The row of a reversed buy is deleted.
DeleteOrder(j) ==
  /\ Holds(j) /\ job[j].pc \in {"settled", "short"} /\ job[j].kind = "undo"
  /\ orders' = [orders EXCEPT ![job[j].order].status = "DELETED"]
  /\ EndAt(j, IF job[j].pc = "short" THEN "short" ELSE "over")
  /\ UNCHANGED <<curve, accrued, balance, chain, crashes>>

\* A statement, or sendPayout before it sent, throws.  The catch of a first
\* payment fails the order, unless that throws too.
Throws(j) ==
  /\ Holds(j)
  /\ EndAt(j, job[j].pc)
  /\ \/ orders' = orders
     \/ /\ job[j].kind = "buy"
        /\ orders' = [orders EXCEPT ![job[j].order].status = "FAILED"]
  /\ UNCHANGED <<curve, accrued, balance, chain, crashes>>

\* The process dies with its executions; the database and the chain stay.
Crash ==
  /\ crashes < MaxCrashes
  /\ crashes' = crashes + 1
  /\ queue' = <<>>
  /\ UNCHANGED <<books, chain, job>>

-----------------------------------------------------------------------------
Request ==
  \/ \E o \in Orders, w \in Wallets, z \in Payments : PlaceOrder(o, w, z)
  \/ \E j \in Jobs, o \in Orders, z \in Payments : BuyPaid(j, o, z) \/ BuyPaidAgain(j, o, z)
  \/ \E j \in Jobs, w \in Wallets, z \in Payments : FirstBuyPaid(j, w, z)
  \/ \E j \in Jobs : FirstBuyQueues(j)
  \/ \E j \in Jobs, w \in Wallets, t \in Sales : SellAsked(j, w, t)
  \/ \E j \in Jobs, o \in Orders : UndoAsked(j, o)

Quote(j) == BuyQuote(j) \/ FirstQuote(j) \/ SellQuote(j) \/ UndoQuote(j)
Write(j) ==
  \/ SendPayout(j)
  \/ SendPayoutUnanswered(j)
  \/ MoveCurve(j)
  \/ Credit(j)
  \/ Debit(j)
  \/ DebitFails(j)
  \/ Accrue(j)
  \/ FillOrder(j)
  \/ \E o \in Orders : NewOrder(j, o)
  \/ DeleteOrder(j)

Advance(j) == Quote(j) \/ Write(j) \/ Throws(j)

Next ==
  \/ Request
  \/ \E j \in Jobs : Advance(j)
  \/ Crash

Spec == Init /\ [][Next]_vars

-----------------------------------------------------------------------------
(* Safety.                                                                 *)

\* Every write of the curve is one trade quoted on the curve as it is: two
\* executions never overlap their read and their write.
Nets == {Net(z) : z \in Payments}
Market == INSTANCE CurveMarket WITH NetPayments <- Nets,
            Undoable <- IF "undo" \in Kinds THEN Nets ELSE {}
Serialized == Market!Spec

\* The seller who has been paid can be debited: no other execution takes the
\* tokens between the check and the debit.
PaidSellCovered ==
  \A j \in Jobs :
    job[j].kind = "sell" /\ job[j].pc \in {"sent", "moved"} /\ Holds(j)
    => balance[job[j].wallet] >= job[j].tokens

Total(f(_)) == SumFunction([j \in Jobs |-> f(j)])
Issued == SumFunction(balance)

\* Tokens the curve has moved and no balance has followed; a reversal debits
\* also what the curve, clamped at 0, could not take back.
Unsettled(j) ==
  LET moved == job[j].next.sold - job[j].read.sold IN
  CASE job[j].pc \in {"moved", "short"} -> moved
    [] job[j].kind = "undo" /\ job[j].pc \in {"settled", "over"} -> moved + job[j].tokens
    [] OTHER -> 0

\* The balances and the curve differ by the executions that stand, or were
\* cut, between their two writes, and by what a reversal could not take out
\* of the curve: nothing else makes them drift.
TokensAccounted == curve.sold - Issued = Total(Unsettled)

\* ZEC the books may hold in excess of the vault: a payout that is sent and
\* not written yet, a payment that was booked and whose order is not filled,
\* as it may be booked again after a crash.
Excess(j) ==
  IF job[j].kind = "sell" THEN IF job[j].pc = "sent" THEN Net(Proceeds(j)) ELSE 0
  ELSE IF job[j].kind = "buy" /\ job[j].pc \in {"moved", "settled", "accrued"}
       THEN job[j].zec ELSE 0

\* The vault covers the curve's reserve and the fees, but for executions cut
\* between moving money and booking it.
Solvent == vault + Total(Excess) >= curve.reserve + accrued

-----------------------------------------------------------------------------
(* What a comment of the code says of it, and the code does not do.        *)

\* A reversal is the exact inverse of the buy: it takes out of the curve
\* what the payment put in (store.ts, on reversePhantomBuyOrder).
UndoIsExact ==
  [][\A j \in Jobs :
       job[j].kind = "undo" /\ job[j].pc = "quoted" /\ job'[j].pc = "moved"
       /\ curve'.reserve > 0 /\ paid[job[j].order] # 0
       => curve.reserve - curve'.reserve = Net(paid[job[j].order])]_vars

-----------------------------------------------------------------------------
(* Liveness.                                                               *)

\* Statements and sends return or throw.
Fairness == \A j \in Jobs : WF_vars(Advance(j))
FairSpec == Spec /\ Fairness

Queued(j) == \E i \in DOMAIN queue : queue[i] = j

\* Every execution that asks for the lock gets it and ends, also behind one
\* that threw.
ExecutionEnds == \A j \in Jobs : Queued(j) ~> ~Queued(j)
=============================================================================
