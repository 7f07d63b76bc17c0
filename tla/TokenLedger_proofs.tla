------------------------- MODULE TokenLedger_proofs --------------------------
(***************************************************************************)
(* What the token's lock guarantees for any jobs, orders, wallets, amounts *)
(* and crashes.  The invariant says that only the execution at the head of *)
(* the queue has got past its start, and that what it read is still so.    *)
(* Two more say where the tokens and the ZEC of the books are while an     *)
(* execution stands between two of its writes.                             *)
(***************************************************************************)
EXTENDS TokenLedger, BondingCurve_proofs, FiniteSums

-----------------------------------------------------------------------------
(* Fees.                                                                   *)

LEMMA FeeFacts ==
  ASSUME NEW z \in Nat
  PROVE  Fee(z) \in 0..z /\ Net(z) \in Nat
  <1>1. FeeBps \in 0..9999
    BY AmountsAssumption
  <1>2. z * FeeBps \in Nat /\ z * FeeBps <= 10000 * z
    BY <1>1
  <1>3. (z * FeeBps) \div 10000 \in 0..z
    BY <1>2, DivBounds
  <1> QED BY <1>3 DEF Fee, Net

LEMMA FeeInt ==
  ASSUME NEW z \in Int
  PROVE  Net(z) \in Int /\ Fee(z) \in Int
  <1>1. z * FeeBps \in Int
    BY AmountsAssumption
  <1> QED BY <1>1, DivFacts DEF Fee, Net

-----------------------------------------------------------------------------
(* The invariant.                                                          *)

Started == {"quoted", "sent", "moved", "short", "settled", "accrued"}

\* Nobody is queued twice, and only the head has started.
Queue ==
  /\ \A i, k \in 1..Len(queue) : queue[i] = queue[k] => i = k
  /\ \A i \in 1..Len(queue) : job[queue[i]].pc \in Started \cup {"queued"}
  /\ \A i \in 2..Len(queue) : job[queue[i]].pc = "queued"

\* An execution carries an amount somebody asked for.
AskedBy(j) ==
  /\ job[j].kind \in {"buy", "repeat", "first"} => job[j].zec \in Payments
  /\ job[j].kind = "sell" =>
       job[j].tokens \in Sales /\ job[j].wallet \in Wallets
  /\ job[j].kind = "undo" /\ job[j].pc \in Started => job[j].zec \in Payments
  /\ job[j].kind \in {"buy", "undo"} =>
       job[j].order \in Orders /\ orders[job[j].order].status # "NONE"
  /\ job[j].kind = "none" => job[j].pc = "idle"
  /\ job[j].kind = "sell" => job[j].next.reserve <= job[j].read.reserve
Asked == \A j \in Jobs : AskedBy(j)

RowsPriced == \A o \in Orders :
  orders[o].status # "NONE" /\ orders[o].side = "BUY" => orders[o].zec \in Payments

\* What the head is going to write is one trade on the curve as it stands.
Trade(j) ==
  \/ /\ job[j].kind \in {"buy", "repeat", "first"}
     /\ CanBuy(job[j].read)
     /\ job[j].next = AfterBuy(job[j].read, Net(job[j].zec))
  \/ /\ job[j].kind = "sell"
     /\ CanSell(job[j].read, job[j].tokens)
     /\ job[j].next = AfterSell(job[j].read, job[j].tokens)
  \/ /\ job[j].kind = "undo"
     /\ job[j].next = AfterUndo(job[j].read, Net(job[j].zec), job[j].tokens)

ReadFresh == \A j \in Jobs :
  Holds(j) /\ job[j].pc \in {"quoted", "sent"} =>
    Trade(j) /\ (job[j].kind # "first" => job[j].read = curve)

SellCovered == \A j \in Jobs :
  Holds(j) /\ job[j].kind = "sell" /\ job[j].pc \in {"quoted", "sent", "moved"}
  => balance[job[j].wallet] >= job[j].tokens

IInv == TypeOK /\ Queue /\ Asked /\ RowsPriced /\ ReadFresh /\ SellCovered

LEMMA InitInv == Init => IInv
  <1> SUFFICES ASSUME Init PROVE IInv
    OBVIOUS
  <1>1. EmptyCurve \in Curve
    BY CurveAssumption DEF EmptyCurve, Curve
  <1>2. IdleJob \in Job
    BY <1>1, AmountsAssumption DEF IdleJob, Job
  <1>3. NoRow \in Order
    BY DEF NoRow, Order
  <1>4. TypeOK
    BY <1>1, <1>2, <1>3, AmountsAssumption DEF Init, TypeOK
  <1>5. Asked
    BY DEF Init, Asked, AskedBy, IdleJob, EmptyCurve
  <1>6. Queue /\ RowsPriced /\ ReadFresh /\ SellCovered
    BY DEF Init, Queue, RowsPriced, ReadFresh, SellCovered, Holds, NoRow
  <1> QED BY <1>4, <1>5, <1>6 DEF IInv

-----------------------------------------------------------------------------
(* Types.                                                                  *)

LEMMA JobPc ==
  ASSUME TypeOK, NEW j \in Jobs,
         NEW pc \in {"idle", "created", "queued", "quoted", "sent", "moved", "short",
                     "settled", "accrued", "over"}
  PROVE  [job EXCEPT ![j].pc = pc] \in [Jobs -> Job]
  <1>1. job[j] \in Job
    BY DEF TypeOK
  <1>2. [job[j] EXCEPT !.pc = pc] \in Job
    BY <1>1 DEF Job
  <1> QED BY <1>2 DEF TypeOK

LEMMA NoRowType == NoRow \in Order
  BY DEF NoRow, Order

LEMMA MarkType ==
  ASSUME TypeOK, NEW x,
         NEW st \in {"NONE", "PENDING", "FILLED", "FAILED", "DELETED"}
  PROVE  [orders EXCEPT ![x].status = st] \in [Orders -> Order]
  <1>1. orders \in [Orders -> Order]
    BY DEF TypeOK
  <1>2. CASE x \in Orders
    <2>1. [orders[x] EXCEPT !.status = st] \in Order
      BY <1>1, <1>2 DEF Order
    <2> QED BY <1>1, <1>2, <2>1
  <1>3. CASE x \notin Orders
    BY <1>1, <1>3
  <1> QED BY <1>2, <1>3

LEMMA FillType ==
  ASSUME TypeOK, NEW x, NEW t \in Nat
  PROVE  [orders EXCEPT ![x].status = "FILLED", ![x].tokens = t] \in [Orders -> Order]
  <1>1. orders \in [Orders -> Order]
    BY DEF TypeOK
  <1>2. CASE x \in Orders
    <2>1. [orders[x] EXCEPT !.status = "FILLED", !.tokens = t] \in Order
      BY <1>1, <1>2 DEF Order
    <2> QED BY <1>1, <1>2, <2>1
  <1>3. CASE x \notin Orders
    BY <1>1, <1>3
  <1> QED BY <1>2, <1>3

LEMMA BalanceType ==
  ASSUME TypeOK, NEW w, NEW n, w \in Wallets => n \in Nat
  PROVE  [balance EXCEPT ![w] = n] \in [Wallets -> Nat]
  BY DEF TypeOK

LEMMA TailType ==
  ASSUME TypeOK, NEW j \in Jobs, Holds(j)
  PROVE  Passed \in Seq(Jobs)
  <1>1. queue \in Seq(Jobs) /\ queue # <<>>
    BY DEF TypeOK, Holds
  <1> QED BY <1>1 DEF Passed

LEMMA AtType ==
  ASSUME TypeOK, NEW j \in Jobs, Holds(j),
         NEW pc \in {"idle", "created", "queued", "quoted", "sent", "moved", "short",
                     "settled", "accrued", "over"},
         At(j, pc) \/ EndAt(j, pc)
  PROVE  job' \in [Jobs -> Job] /\ queue' \in Seq(Jobs)
  <1>1. job' = [job EXCEPT ![j].pc = pc] /\ queue' \in {queue, Passed}
    BY DEF At, EndAt
  <1>2. [job EXCEPT ![j].pc = pc] \in [Jobs -> Job]
    BY JobPc
  <1>3. queue \in Seq(Jobs) /\ Passed \in Seq(Jobs)
    BY TailType DEF TypeOK
  <1> QED BY <1>1, <1>2, <1>3

LEMMA QuotedType ==
  ASSUME TypeOK, NEW j \in Jobs, NEW read \in Curve, NEW next \in Curve,
         NEW tokens \in Nat, Quoted(j, read, next, tokens)
  PROVE  job' \in [Jobs -> Job]
  <1>1. job[j] \in Job
    BY DEF TypeOK
  <1>2. [job[j] EXCEPT !.read = read, !.next = next, !.tokens = tokens,
                       !.pc = "quoted"] \in Job
    BY <1>1 DEF Job
  <1> QED BY <1>2 DEF Quoted, TypeOK

LEMMA BuyFromType ==
  ASSUME TypeOK, NEW j \in Jobs, NEW c \in Curve, BuyFrom(j, c)
  PROVE  job' \in [Jobs -> Job]
  <1>1. Net(job[j].zec) \in Nat
    BY FeeFacts DEF TypeOK, Job
  <1>2. AfterBuy(c, Net(job[j].zec)) \in Curve /\ TokensOut(c, Net(job[j].zec)) \in Nat
    BY <1>1, AfterBuyType, TokensOutBounds
  <1> QED BY <1>2, QuotedType DEF BuyFrom

LEMMA EnqueueType ==
  ASSUME TypeOK, NEW j \in Jobs, NEW kind, NEW o \in Orders \cup {NoOrder},
         NEW w \in Wallets \cup {NoWallet}, NEW z \in Nat, NEW t \in Nat,
         Enqueue(j, kind, o, w, z, t)
  PROVE  job' \in [Jobs -> Job] /\ queue' \in Seq(Jobs)
  <1>1. EmptyCurve \in Curve
    BY CurveAssumption DEF EmptyCurve, Curve
  <1>2. [IdleJob EXCEPT !.kind = kind, !.order = o, !.wallet = w, !.zec = z,
           !.tokens = t, !.born = crashes, !.pc = "queued"] \in Job
    <2>1. kind \in Kinds /\ crashes \in 0..MaxCrashes
      BY DEF Enqueue, TypeOK
    <2>2. IdleJob \in Job
      BY <1>1, AmountsAssumption DEF IdleJob, Job
    <2> QED BY <2>1, <2>2 DEF Job
  <1>3. queue' \in Seq(Jobs)
    BY DEF Enqueue, Appended, TypeOK
  <1> QED BY <1>2, <1>3 DEF Enqueue, TypeOK

LEMMA ProceedsNat ==
  ASSUME TypeOK, Asked, NEW j \in Jobs, job[j].kind = "sell"
  PROVE  Proceeds(j) \in Nat
  BY DEF TypeOK, Asked, AskedBy, Job, Curve, Proceeds

LEMMA ProceedsInt ==
  ASSUME TypeOK, NEW j \in Jobs
  PROVE  Proceeds(j) \in Int
  BY DEF TypeOK, Job, Curve, Proceeds

LEMMA RequestType ==
  ASSUME TypeOK, Request
  PROVE  TypeOK'
  <1> USE DEF books, chain
  <1>1. ASSUME NEW o \in Orders, NEW w \in Wallets, NEW z \in Payments, PlaceOrder(o, w, z)
        PROVE  TypeOK'
    <2>1. [NoRow EXCEPT !.status = "PENDING", !.wallet = w, !.zec = z] \in Order
      <3>1. NoRow \in Order /\ z \in Nat
        BY NoRowType, AmountsAssumption
      <3> QED BY <3>1 DEF Order
    <2> QED BY <1>1, <2>1 DEF PlaceOrder, TypeOK
  <1>2. ASSUME NEW j \in Jobs, NEW o \in Orders, NEW z \in Payments, BuyPaid(j, o, z)
        PROVE  TypeOK'
    <2>1. orders[o].wallet \in Wallets \cup {NoWallet} /\ z \in Nat
      BY AmountsAssumption DEF TypeOK, Order
    <2>2. job' \in [Jobs -> Job] /\ queue' \in Seq(Jobs)
      BY <1>2, <2>1, EnqueueType DEF BuyPaid
    <2>3. paid' \in [Orders -> Nat] /\ vault' \in Int
      BY <1>2, <2>1 DEF BuyPaid, TypeOK
    <2> QED BY <1>2, <2>2, <2>3 DEF BuyPaid, TypeOK
  <1>3. ASSUME NEW j \in Jobs, NEW o \in Orders, NEW z \in Payments, BuyPaidAgain(j, o, z)
        PROVE  TypeOK'
    <2>1. orders[o].wallet \in Wallets \cup {NoWallet} /\ z \in Nat
      BY AmountsAssumption DEF TypeOK, Order
    <2>2. job' \in [Jobs -> Job] /\ queue' \in Seq(Jobs)
      BY <1>3, <2>1, EnqueueType DEF BuyPaidAgain
    <2>3. vault' \in Int
      BY <1>3, <2>1 DEF BuyPaidAgain, TypeOK
    <2> QED BY <1>3, <2>2, <2>3 DEF BuyPaidAgain, TypeOK
  <1>4. ASSUME NEW j \in Jobs, NEW w \in Wallets, NEW z \in Payments, FirstBuyPaid(j, w, z)
        PROVE  TypeOK'
    <2>1. z \in Nat /\ EmptyCurve \in Curve
      BY AmountsAssumption, CurveAssumption DEF EmptyCurve, Curve
    <2>2. [IdleJob EXCEPT !.kind = "first", !.wallet = w, !.zec = z, !.read = curve,
             !.born = crashes, !.pc = "created"] \in Job
      BY <1>4, <2>1 DEF FirstBuyPaid, IdleJob, Job, TypeOK
    <2>3. vault' \in Int
      BY <1>4, <2>1 DEF FirstBuyPaid, TypeOK
    <2> QED BY <1>4, <2>2, <2>3 DEF FirstBuyPaid, TypeOK
  <1>5. ASSUME NEW j \in Jobs, FirstBuyQueues(j) PROVE TypeOK'
    <2>1. job' \in [Jobs -> Job]
      BY <1>5, JobPc DEF FirstBuyQueues
    <2> QED BY <1>5, <2>1 DEF FirstBuyQueues, Appended, TypeOK
  <1>6. ASSUME NEW j \in Jobs, NEW w \in Wallets, NEW t \in Sales, SellAsked(j, w, t)
        PROVE  TypeOK'
    <2>1. job' \in [Jobs -> Job] /\ queue' \in Seq(Jobs)
      BY <1>6, EnqueueType, AmountsAssumption DEF SellAsked
    <2> QED BY <1>6, <2>1 DEF SellAsked, TypeOK
  <1>7. ASSUME NEW j \in Jobs, NEW o \in Orders, UndoAsked(j, o) PROVE TypeOK'
    <2>1. job' \in [Jobs -> Job] /\ queue' \in Seq(Jobs)
      BY <1>7, EnqueueType DEF UndoAsked
    <2> QED BY <1>7, <2>1 DEF UndoAsked, TypeOK
  <1> QED BY <1>1, <1>2, <1>3, <1>4, <1>5, <1>6, <1>7 DEF Request

LEMMA QuoteType ==
  ASSUME TypeOK, Asked, NEW j \in Jobs, Quote(j)
  PROVE  TypeOK'
  <1> USE DEF books, chain
  <1>0. job[j] \in Job /\ curve \in Curve
    BY DEF TypeOK
  <1>1. CASE BuyQuote(j)
    <2>1. job' \in [Jobs -> Job]
      BY <1>0, <1>1, BuyFromType DEF BuyQuote
    <2> QED BY <1>1, <2>1 DEF BuyQuote, TypeOK
  <1>2. CASE FirstQuote(j)
    <2>1. job' \in [Jobs -> Job]
      BY <1>0, <1>2, BuyFromType DEF FirstQuote, Job
    <2> QED BY <1>2, <2>1 DEF FirstQuote, TypeOK
  <1>3. CASE SellQuote(j)
    <2>1. CASE Sellable(job[j].wallet, job[j].tokens)
      <3>1. AfterSell(curve, job[j].tokens) \in Curve
        BY <1>0, <2>1, AfterSellType DEF Sellable, Job
      <3>2. job' \in [Jobs -> Job]
        BY <1>0, <1>3, <2>1, <3>1, QuotedType DEF SellQuote, Job
      <3> QED BY <1>3, <2>1, <3>2 DEF SellQuote, TypeOK
    <2>2. CASE ~Sellable(job[j].wallet, job[j].tokens)
      <3>1. job' \in [Jobs -> Job] /\ queue' \in Seq(Jobs)
        BY <1>3, <2>2, AtType DEF SellQuote
      <3> QED BY <1>3, <3>1 DEF SellQuote, TypeOK
    <2> QED BY <2>1, <2>2
  <1>4. CASE UndoQuote(j)
    <2> DEFINE row == orders[job[j].order]
    <2>1. CASE row.status = "FILLED" /\ row.side = "BUY"
      <3>1. job'= [job EXCEPT ![j].read = curve,
               ![j].next = AfterUndo(curve, Net(row.zec), row.tokens),
               ![j].tokens = row.tokens, ![j].zec = row.zec,
               ![j].wallet = row.wallet, ![j].pc = "quoted"]
        BY <1>4, <2>1 DEF UndoQuote
      <3>2. row \in Order
        BY <1>4 DEF UndoQuote, Asked, AskedBy, TypeOK
      <3>3. row.zec \in Nat /\ row.tokens \in Nat /\ row.wallet \in Wallets \cup {NoWallet}
        BY <3>2 DEF Order
      <3>4. AfterUndo(curve, Net(row.zec), row.tokens) \in Curve
        BY <1>0, <3>3, FeeFacts, AfterUndoType
      <3> HIDE DEF row
      <3>5. [job[j] EXCEPT !.read = curve,
               !.next = AfterUndo(curve, Net(row.zec), row.tokens),
               !.tokens = row.tokens, !.zec = row.zec,
               !.wallet = row.wallet, !.pc = "quoted"] \in Job
        BY <1>0, <3>3, <3>4 DEF Job
      <3>6. job' \in [Jobs -> Job]
        BY <3>1, <3>5 DEF TypeOK
      <3> QED BY <1>4, <2>1, <3>6 DEF UndoQuote, TypeOK, row
    <2>2. CASE ~(row.status = "FILLED" /\ row.side = "BUY")
      <3>1. job' \in [Jobs -> Job] /\ queue' \in Seq(Jobs)
        BY <1>4, <2>2, AtType DEF UndoQuote
      <3> QED BY <1>4, <3>1 DEF UndoQuote, TypeOK
    <2> QED BY <2>1, <2>2
  <1> QED BY <1>1, <1>2, <1>3, <1>4 DEF Quote

LEMMA WriteType ==
  ASSUME TypeOK, Asked, NEW j \in Jobs, Write(j) \/ Throws(j)
  PROVE  TypeOK'
  <1> USE DEF books, chain
  <1>0. job[j] \in Job /\ Proceeds(j) \in Int /\ Net(Proceeds(j)) \in Int
    BY ProceedsInt, FeeInt DEF TypeOK
  <1>1. CASE SendPayout(j)
    <2>1. job' \in [Jobs -> Job] /\ queue' \in Seq(Jobs)
      BY <1>1, AtType DEF SendPayout
    <2> QED BY <1>0, <1>1, <2>1 DEF SendPayout, TypeOK
  <1>2. CASE SendPayoutUnanswered(j)
    <2>1. job' \in [Jobs -> Job] /\ queue' \in Seq(Jobs)
      BY <1>2, AtType DEF SendPayoutUnanswered
    <2> QED BY <1>0, <1>2, <2>1 DEF SendPayoutUnanswered, TypeOK
  <1>3. CASE MoveCurve(j)
    <2>1. job' \in [Jobs -> Job] /\ queue' \in Seq(Jobs)
      BY <1>3, AtType DEF MoveCurve
    <2>2. job[j].next \in Curve /\ Fee(job[j].zec) \in Nat
      BY <1>0, FeeFacts DEF Job
    <2>3. accrued' \in Nat
      BY <1>3, <2>2 DEF MoveCurve, Least0, TypeOK
    <2> QED BY <1>3, <2>1, <2>2, <2>3 DEF MoveCurve, TypeOK
  <1>4. CASE Credit(j)
    <2>1. job' \in [Jobs -> Job] /\ queue' \in Seq(Jobs)
      BY <1>4, AtType DEF Credit
    <2>2. balance' \in [Wallets -> Nat]
      <3>1. job[j].wallet \in Wallets => balance[job[j].wallet] + job[j].tokens \in Nat
        BY <1>0 DEF TypeOK, Job
      <3> QED BY <1>4, <3>1, BalanceType DEF Credit
    <2> QED BY <1>4, <2>1, <2>2 DEF Credit, TypeOK
  <1>5. CASE Debit(j)
    <2>1. job' \in [Jobs -> Job] /\ queue' \in Seq(Jobs)
      BY <1>5, AtType DEF Debit
    <2>2. balance' \in [Wallets -> Nat]
      <3>1. job[j].wallet \in Wallets => balance[job[j].wallet] - job[j].tokens \in Nat
        BY <1>0, <1>5 DEF Debit, TypeOK, Job
      <3> QED BY <1>5, <3>1, BalanceType DEF Debit
    <2> QED BY <1>5, <2>1, <2>2 DEF Debit, TypeOK
  <1>6. CASE DebitFails(j)
    <2>1. job' \in [Jobs -> Job] /\ queue' \in Seq(Jobs)
      BY <1>6, AtType DEF DebitFails
    <2> QED BY <1>6, <2>1 DEF DebitFails, TypeOK
  <1>7. CASE Accrue(j)
    <2>1. job' \in [Jobs -> Job] /\ queue' \in Seq(Jobs)
      BY <1>7, AtType DEF Accrue
    <2> DEFINE z == IF job[j].kind = "sell" THEN Proceeds(j) ELSE job[j].zec
    <2>2. z \in Nat
      BY <1>0, ProceedsNat DEF Job
    <2>3. accrued' = accrued + Fee(z)
      BY <1>7 DEF Accrue
    <2> HIDE DEF z
    <2>4. accrued' \in Nat
      <3>1. Fee(z) \in 0..z
        BY <2>2, FeeFacts
      <3>2. Fee(z) \in Nat /\ accrued \in Nat
        BY <2>2, <3>1 DEF TypeOK
      <3> QED BY <2>3, <3>2
    <2> QED BY <1>7, <2>1, <2>4 DEF Accrue, TypeOK
  <1>8. CASE FillOrder(j)
    <2>1. job' \in [Jobs -> Job] /\ queue' \in Seq(Jobs)
      BY <1>8, AtType DEF FillOrder
    <2>2. orders' \in [Orders -> Order]
      <3>1. job[j].tokens \in Nat
        BY <1>0 DEF Job
      <3> QED BY <1>8, <3>1, FillType DEF FillOrder
    <2> QED BY <1>8, <2>1, <2>2 DEF FillOrder, TypeOK
  <1>9. ASSUME NEW o \in Orders, NewOrder(j, o) PROVE TypeOK'
    <2>1. job' \in [Jobs -> Job] /\ queue' \in Seq(Jobs)
      BY <1>9, AtType DEF NewOrder
    <2> DEFINE row == [status |-> "FILLED", side |-> IF job[j].kind = "sell" THEN "SELL" ELSE "BUY",
                       wallet |-> job[j].wallet, tokens |-> job[j].tokens,
                       zec |-> IF job[j].kind = "sell" THEN Proceeds(j) ELSE job[j].zec]
    <2>2. (IF job[j].kind = "sell" THEN Proceeds(j) ELSE job[j].zec) \in Nat
      BY <1>0, ProceedsNat DEF Job
    <2>3. row \in Order
      BY <1>0, <2>2 DEF Order, Job
    <2>4. orders' = [orders EXCEPT ![o] = row]
      BY <1>9 DEF NewOrder
    <2> HIDE DEF row
    <2> QED BY <1>9, <2>1, <2>3, <2>4 DEF NewOrder, TypeOK
  <1>10. CASE DeleteOrder(j)
    <2>1. job' \in [Jobs -> Job] /\ queue' \in Seq(Jobs)
      BY <1>10, AtType DEF DeleteOrder
    <2>2. orders' \in [Orders -> Order]
      BY <1>10, MarkType DEF DeleteOrder
    <2> QED BY <1>10, <2>1, <2>2 DEF DeleteOrder, TypeOK
  <1>11. CASE Throws(j)
    <2>1. job' \in [Jobs -> Job] /\ queue' \in Seq(Jobs)
      BY <1>0, <1>11, AtType DEF Throws, Job
    <2>2. orders' \in [Orders -> Order]
      <3>1. CASE orders' = orders
        BY <3>1 DEF TypeOK
      <3>2. CASE orders' = [orders EXCEPT ![job[j].order].status = "FAILED"]
        BY <3>2, MarkType
      <3> QED BY <1>11, <3>1, <3>2 DEF Throws
    <2> QED BY <1>11, <2>1, <2>2 DEF Throws, TypeOK
  <1> QED BY <1>1, <1>2, <1>3, <1>4, <1>5, <1>6, <1>7, <1>8, <1>9, <1>10, <1>11 DEF Write

LEMMA StepType ==
  ASSUME TypeOK, Asked, [Next]_vars
  PROVE  TypeOK'
  <1>1. CASE Request
    BY <1>1, RequestType
  <1>2. ASSUME NEW j \in Jobs, Advance(j) PROVE TypeOK'
    BY <1>2, QuoteType, WriteType DEF Advance
  <1>3. CASE Crash
    BY <1>3, AmountsAssumption DEF Crash, TypeOK, books, chain
  <1>4. CASE UNCHANGED vars
    BY <1>4 DEF vars, TypeOK, books, chain
  <1> QED BY <1>1, <1>2, <1>3, <1>4 DEF Next

-----------------------------------------------------------------------------
(* What a step does to the queue.                                          *)

Same(j) == \A k \in Jobs : k # j => job'[k] = job[k]

Starts(j) ==
  /\ Same(j) /\ job[j].pc \in {"idle", "created"} /\ job'[j].pc = "queued"
  /\ queue' = Append(queue, j)
Waits(j) ==
  /\ Same(j) /\ job[j].pc = "idle" /\ job'[j].pc = "created" /\ queue' = queue
Moves(j) ==
  /\ Same(j) /\ Holds(j) /\ job'[j].pc \in Started /\ queue' = queue
Ends(j) == Same(j) /\ Holds(j) /\ queue' = Tail(queue)

LEMMA AtFacts ==
  ASSUME TypeOK, NEW j \in Jobs, NEW pc, At(j, pc) \/ EndAt(j, pc)
  PROVE  /\ Same(j) /\ job'[j] = [job[j] EXCEPT !.pc = pc]
         /\ job'[j].pc = pc /\ job'[j].kind = job[j].kind
         /\ job'[j].order = job[j].order /\ job'[j].wallet = job[j].wallet
         /\ job'[j].zec = job[j].zec /\ job'[j].tokens = job[j].tokens
         /\ job'[j].read = job[j].read /\ job'[j].next = job[j].next
         /\ job'[j].born = job[j].born
  <1>1. job' = [job EXCEPT ![j].pc = pc] /\ job \in [Jobs -> Job]
    BY DEF At, EndAt, TypeOK
  <1>2. Same(j) /\ job'[j] = [job[j] EXCEPT !.pc = pc] /\ job[j] \in Job
    BY <1>1 DEF Same
  <1> QED BY <1>2 DEF Job

LEMMA QuotedFacts ==
  ASSUME TypeOK, NEW j \in Jobs, NEW read, NEW next, NEW tokens, Quoted(j, read, next, tokens)
  PROVE  /\ Same(j) /\ job'[j].pc = "quoted" /\ job'[j].kind = job[j].kind
         /\ job'[j].order = job[j].order /\ job'[j].wallet = job[j].wallet
         /\ job'[j].zec = job[j].zec /\ job'[j].tokens = tokens
         /\ job'[j].read = read /\ job'[j].next = next
         /\ job'[j].born = job[j].born
  <1>1. job' = [job EXCEPT ![j].read = read, ![j].next = next, ![j].tokens = tokens,
                           ![j].pc = "quoted"]
        /\ job \in [Jobs -> Job]
    BY DEF Quoted, TypeOK
  <1>2. Same(j) /\ job[j] \in Job
    BY <1>1 DEF Same
  <1> QED BY <1>1, <1>2 DEF Job

LEMMA EnqueueFacts ==
  ASSUME TypeOK, NEW j \in Jobs, NEW kind, NEW o, NEW w, NEW z, NEW t,
         Enqueue(j, kind, o, w, z, t)
  PROVE  /\ Starts(j) /\ job'[j].kind = kind /\ job'[j].order = o
         /\ job'[j].wallet = w /\ job'[j].zec = z /\ job'[j].tokens = t
         /\ job'[j].read = EmptyCurve /\ job'[j].next = EmptyCurve
         /\ job'[j].born = crashes
  BY DEF Enqueue, TypeOK, IdleJob, Starts, Same, Appended

LEMMA UndoFacts ==
  ASSUME TypeOK, Asked, NEW j \in Jobs, UndoQuote(j),
         orders[job[j].order].status = "FILLED" /\ orders[job[j].order].side = "BUY"
  PROVE  /\ Same(j) /\ job'[j].pc = "quoted" /\ job'[j].kind = "undo"
         /\ job'[j].order = job[j].order /\ job[j].order \in Orders
         /\ job'[j].zec = orders[job[j].order].zec
         /\ job'[j].wallet = orders[job[j].order].wallet
         /\ job'[j].read = curve
         /\ job'[j].next = AfterUndo(curve, Net(job'[j].zec), job'[j].tokens)
         /\ queue' = queue
  <1> DEFINE row == orders[job[j].order]
  <1>1. /\ job' = [job EXCEPT ![j].read = curve,
               ![j].next = AfterUndo(curve, Net(row.zec), row.tokens),
               ![j].tokens = row.tokens, ![j].zec = row.zec,
               ![j].wallet = row.wallet, ![j].pc = "quoted"]
        /\ queue' = queue /\ job[j].kind = "undo"
    BY DEF UndoQuote
  <1>2. job[j].order \in Orders
    BY <1>1 DEF Asked, AskedBy
  <1>3. job \in [Jobs -> Job] /\ job[j] \in Job
    BY DEF TypeOK
  <1> HIDE DEF row
  <1>4. /\ Same(j) /\ job'[j].pc = "quoted" /\ job'[j].kind = "undo"
        /\ job'[j].order = job[j].order /\ job'[j].zec = row.zec /\ job'[j].read = curve
        /\ job'[j].tokens = row.tokens /\ job'[j].wallet = row.wallet
        /\ job'[j].next = AfterUndo(curve, Net(row.zec), row.tokens)
    BY <1>1, <1>3 DEF Same, Job
  <1> QED BY <1>1, <1>2, <1>4 DEF row

LEMMA HeadFacts ==
  ASSUME TypeOK, Queue, NEW j \in Jobs, Holds(j)
  PROVE  /\ queue \in Seq(Jobs) /\ queue # <<>> /\ Len(queue) \in Nat /\ Len(queue) >= 1
         /\ j = queue[1] /\ job[j].pc \in Started \cup {"queued"}
         /\ job[j].kind # "none" \/ ~AskedBy(j)
  <1>1. queue \in Seq(Jobs) /\ queue # <<>> /\ j = Head(queue)
    BY DEF TypeOK, Holds
  <1>2. Len(queue) \in Nat /\ Len(queue) >= 1 /\ j = queue[1]
    BY <1>1
  <1>3. job[j].pc \in Started \cup {"queued"}
    BY <1>2 DEF Queue
  <1> QED BY <1>1, <1>2, <1>3 DEF AskedBy, Started

LEMMA MovesQueue ==
  ASSUME TypeOK, Queue, NEW j \in Jobs, Moves(j)
  PROVE  Queue'
  <1>1. queue \in Seq(Jobs) /\ Len(queue) \in Nat /\ Len(queue) >= 1 /\ j = queue[1]
    BY HeadFacts DEF Moves
  <1>2. ASSUME NEW i \in 2..Len(queue) PROVE job'[queue[i]] = job[queue[i]]
    BY <1>1, <1>2 DEF Queue, Moves, Same
  <1>3. ASSUME NEW i \in 1..Len(queue) PROVE job'[queue[i]].pc \in Started \cup {"queued"}
    <2>1. i = 1 \/ i \in 2..Len(queue)
      BY <1>1
    <2> QED BY <1>1, <1>2, <2>1 DEF Queue, Moves
  <1> QED BY <1>2, <1>3 DEF Queue, Moves

LEMMA EndsQueue ==
  ASSUME TypeOK, Queue, NEW j \in Jobs, Ends(j)
  PROVE  Queue' /\ \A k \in Jobs : Holds(k)' => job'[k].pc = "queued"
  <1>1. queue \in Seq(Jobs) /\ queue # <<>> /\ Len(queue) \in Nat /\ Len(queue) >= 1
        /\ j = queue[1]
    BY HeadFacts DEF Ends
  <1>2. queue' \in Seq(Jobs) /\ Len(queue') = Len(queue) - 1
    BY <1>1 DEF Ends
  <1>3. ASSUME NEW i \in 1..Len(queue')
        PROVE  /\ i + 1 \in 2..Len(queue) /\ queue'[i] = queue[i + 1]
    BY <1>1, <1>2 DEF Ends
  <1>4. ASSUME NEW i \in 1..Len(queue')
        PROVE  queue'[i] # j /\ queue'[i] \in Jobs /\ job'[queue'[i]].pc = "queued"
    <2>1. i + 1 \in 1..Len(queue) /\ 1 \in 1..Len(queue) /\ i + 1 # 1
      BY <1>1, <1>3
    <2>2. queue'[i] # j /\ queue'[i] \in Jobs
      BY <1>1, <1>3, <2>1 DEF Queue
    <2> QED BY <1>3, <2>2 DEF Queue, Ends, Same
  <1>5. ASSUME NEW i \in 1..Len(queue'), NEW k \in 1..Len(queue'), queue'[i] = queue'[k]
        PROVE  i = k
    <2>1. i + 1 \in 1..Len(queue) /\ k + 1 \in 1..Len(queue)
      BY <1>1, <1>3
    <2>2. queue[i + 1] = queue[k + 1]
      BY <1>3, <1>5
    <2>3. i + 1 = k + 1
      BY <2>1, <2>2 DEF Queue
    <2> QED BY <1>2, <2>3
  <1>6. Queue'
    BY <1>2, <1>4, <1>5 DEF Queue
  <1>7. ASSUME NEW k \in Jobs, Holds(k)' PROVE job'[k].pc = "queued"
    <2>1. queue' # <<>> /\ k = Head(queue')
      BY <1>7 DEF Holds
    <2>2. 1 \in 1..Len(queue') /\ k = queue'[1]
      BY <1>2, <2>1
    <2> QED BY <1>4, <2>2
  <1> QED BY <1>6, <1>7

LEMMA StartsQueue ==
  ASSUME TypeOK, Queue, NEW j \in Jobs, Starts(j)
  PROVE  /\ Queue'
         /\ \A k \in Jobs : Holds(k)' =>
              job'[k].pc = "queued" \/ (Holds(k) /\ job'[k] = job[k])
  <1>1. queue \in Seq(Jobs) /\ Len(queue) \in Nat
    BY DEF TypeOK
  <1>2. queue' \in Seq(Jobs) /\ Len(queue') = Len(queue) + 1
    BY <1>1 DEF Starts
  <1>3. ASSUME NEW i \in 1..Len(queue)
        PROVE  queue'[i] = queue[i] /\ queue[i] \in Jobs /\ queue[i] # j
               /\ job'[queue[i]] = job[queue[i]]
    <2>1. queue'[i] = queue[i] /\ queue[i] \in Jobs
      BY <1>1 DEF Starts
    <2>2. queue[i] # j
      BY DEF Queue, Starts, Started
    <2> QED BY <2>1, <2>2 DEF Starts, Same
  <1>4. queue'[Len(queue')] = j
    BY <1>1, <1>2 DEF Starts
  <1>5. \A i \in 1..Len(queue') : i \in 1..Len(queue) \/ i = Len(queue')
    BY <1>1, <1>2
  <1>6. ASSUME NEW i \in 1..Len(queue'), NEW k \in 1..Len(queue'), queue'[i] = queue'[k]
        PROVE  i = k
    BY <1>3, <1>4, <1>5, <1>6 DEF Queue
  <1>7. ASSUME NEW i \in 1..Len(queue')
        PROVE  job'[queue'[i]].pc \in Started \cup {"queued"}
    BY <1>3, <1>4, <1>5 DEF Queue, Starts
  <1>8. ASSUME NEW i \in 2..Len(queue')
        PROVE  job'[queue'[i]].pc = "queued"
    <2>1. i \in 2..Len(queue) \/ i = Len(queue')
      BY <1>1, <1>2
    <2>2. 2..Len(queue) \subseteq 1..Len(queue)
      BY <1>1
    <2> QED BY <1>3, <1>4, <2>1, <2>2 DEF Queue, Starts
  <1>9. ASSUME NEW k \in Jobs, Holds(k)'
        PROVE  job'[k].pc = "queued" \/ (Holds(k) /\ job'[k] = job[k])
    <2>1. k = queue'[1]
      BY <1>2, <1>9 DEF Holds
    <2>2. CASE queue = <<>>
      <3>0. Len(queue) = 0
        BY <2>2
      <3>1. Len(queue') = 1
        BY <1>2, <3>0
      <3>2. k = j
        BY <1>4, <2>1, <3>1
      <3> QED BY <3>2 DEF Starts
    <2>3. CASE queue # <<>>
      <3>1. 1 \in 1..Len(queue) /\ Head(queue) = queue[1]
        BY <1>1, <2>3
      <3> QED BY <1>3, <2>1, <2>3, <3>1 DEF Holds
    <2> QED BY <2>2, <2>3
  <1> QED BY <1>6, <1>7, <1>8, <1>9 DEF Queue

\* A step only starts executions, advances the head, or empties the queue.
LEMMA RequestShape ==
  ASSUME TypeOK, Request
  PROVE  /\ UNCHANGED <<curve, balance>>
         /\ \/ UNCHANGED <<job, queue>>
            \/ \E j \in Jobs : Starts(j) \/ Waits(j)
  <1> USE DEF books, chain
  <1>1. ASSUME NEW o \in Orders, NEW w \in Wallets, NEW z \in Payments, PlaceOrder(o, w, z)
        PROVE  UNCHANGED <<curve, balance, job, queue>>
    BY <1>1 DEF PlaceOrder
  <1>2. ASSUME NEW j \in Jobs, NEW o \in Orders, NEW z \in Payments,
               BuyPaid(j, o, z) \/ BuyPaidAgain(j, o, z)
        PROVE  UNCHANGED <<curve, balance>> /\ Starts(j)
    BY <1>2, EnqueueFacts DEF BuyPaid, BuyPaidAgain
  <1>3. ASSUME NEW j \in Jobs, NEW w \in Wallets, NEW z \in Payments, FirstBuyPaid(j, w, z)
        PROVE  UNCHANGED <<curve, balance>> /\ Waits(j)
    <2>1. job[j] = IdleJob
      BY <1>3 DEF FirstBuyPaid
    <2> QED BY <1>3, <2>1 DEF FirstBuyPaid, Waits, Same, IdleJob, TypeOK
  <1>4. ASSUME NEW j \in Jobs, FirstBuyQueues(j)
        PROVE  UNCHANGED <<curve, balance>> /\ Starts(j)
    <2>1. job \in [Jobs -> Job] /\ job[j] \in Job
      BY DEF TypeOK
    <2> QED BY <1>4, <2>1 DEF FirstBuyQueues, Starts, Same, Appended, Job
  <1>5. ASSUME NEW j \in Jobs, NEW w \in Wallets, NEW t \in Sales, SellAsked(j, w, t)
        PROVE  UNCHANGED <<curve, balance>> /\ Starts(j)
    BY <1>5, EnqueueFacts DEF SellAsked
  <1>6. ASSUME NEW j \in Jobs, NEW o \in Orders, UndoAsked(j, o)
        PROVE  UNCHANGED <<curve, balance>> /\ Starts(j)
    BY <1>6, EnqueueFacts DEF UndoAsked
  <1> QED BY <1>1, <1>2, <1>3, <1>4, <1>5, <1>6 DEF Request

LEMMA QuoteShape ==
  ASSUME TypeOK, Asked, NEW j \in Jobs, Quote(j)
  PROVE  Moves(j) \/ Ends(j)
  <1>1. CASE BuyQuote(j)
    BY <1>1, QuotedFacts DEF BuyQuote, BuyFrom, Moves, Started
  <1>2. CASE FirstQuote(j)
    BY <1>2, QuotedFacts DEF FirstQuote, BuyFrom, Moves, Started
  <1>3. CASE SellQuote(j)
    <2>1. CASE Sellable(job[j].wallet, job[j].tokens)
      BY <1>3, <2>1, QuotedFacts DEF SellQuote, Moves, Started
    <2>2. CASE ~Sellable(job[j].wallet, job[j].tokens)
      <3>1. Holds(j) /\ EndAt(j, "over")
        BY <1>3, <2>2 DEF SellQuote
      <3> QED BY <3>1, AtFacts DEF EndAt, Passed, Ends
    <2> QED BY <2>1, <2>2
  <1>4. CASE UndoQuote(j)
    <2>1. CASE orders[job[j].order].status = "FILLED" /\ orders[job[j].order].side = "BUY"
      BY <1>4, <2>1, UndoFacts DEF UndoQuote, Moves, Started
    <2>2. CASE ~(orders[job[j].order].status = "FILLED" /\ orders[job[j].order].side = "BUY")
      <3>1. Holds(j) /\ EndAt(j, "over")
        BY <1>4, <2>2 DEF UndoQuote
      <3> QED BY <3>1, AtFacts DEF EndAt, Passed, Ends
    <2> QED BY <2>1, <2>2
  <1> QED BY <1>1, <1>2, <1>3, <1>4 DEF Quote

\* What a statement may do to the execution that runs it.
LEMMA WriteShape ==
  ASSUME TypeOK, NEW j \in Jobs, Write(j) \/ Throws(j)
  PROVE  /\ \E pc \in {"idle", "created", "queued", "quoted", "sent", "moved", "short",
                       "settled", "accrued", "over"} :
              \/ At(j, pc) /\ pc \in Started
              \/ EndAt(j, pc)
         /\ Holds(j)
  <1>0. job[j] \in Job
    BY DEF TypeOK
  <1>1. CASE Throws(j)
    BY <1>0, <1>1 DEF Throws, Job
  <1>2. CASE Write(j)
    BY <1>2 DEF Write, SendPayout, SendPayoutUnanswered, MoveCurve, Credit, Debit, DebitFails,
                Accrue, FillOrder, NewOrder, DeleteOrder, Started
  <1> QED BY <1>1, <1>2

LEMMA AdvanceShape ==
  ASSUME TypeOK, Asked, NEW j \in Jobs, Advance(j)
  PROVE  Moves(j) \/ Ends(j)
  <1>1. CASE Quote(j)
    BY <1>1, QuoteShape
  <1>2. CASE Write(j) \/ Throws(j)
    <2>1. PICK pc \in {"idle", "created", "queued", "quoted", "sent", "moved", "short",
                        "settled", "accrued", "over"} :
              \/ At(j, pc) /\ pc \in Started
              \/ EndAt(j, pc)
      BY <1>2, WriteShape
    <2>2. Same(j) /\ job'[j].pc = pc
      BY <2>1, AtFacts
    <2>3. Holds(j)
      BY <1>2, WriteShape
    <2> QED BY <2>1, <2>2, <2>3 DEF At, EndAt, Passed, Moves, Ends
  <1> QED BY <1>1, <1>2 DEF Advance

LEMMA QueueStep ==
  ASSUME TypeOK, Asked, Queue, [Next]_vars
  PROVE  Queue'
  <1>1. CASE Request
    <2>1. CASE UNCHANGED <<job, queue>>
      BY <2>1 DEF Queue
    <2>2. ASSUME NEW j \in Jobs, Starts(j) PROVE Queue'
      BY <2>2, StartsQueue
    <2>3. ASSUME NEW j \in Jobs, Waits(j) PROVE Queue'
      <3>0. queue \in Seq(Jobs)
        BY DEF TypeOK
      <3>1. \A i \in 1..Len(queue) : queue[i] \in Jobs /\ queue[i] # j
        BY <2>3, <3>0 DEF Queue, Waits, Started
      <3>2. \A i \in 2..Len(queue) : i \in 1..Len(queue)
        BY DEF TypeOK
      <3> QED BY <2>3, <3>1, <3>2 DEF Queue, Waits, Same
    <2> QED BY <1>1, <2>1, <2>2, <2>3, RequestShape
  <1>2. ASSUME NEW j \in Jobs, Advance(j) PROVE Queue'
    BY <1>2, AdvanceShape, MovesQueue, EndsQueue
  <1>3. CASE Crash
    BY <1>3 DEF Crash, Queue
  <1>4. CASE UNCHANGED vars
    BY <1>4 DEF vars, Queue
  <1> QED BY <1>1, <1>2, <1>3, <1>4 DEF Next

-----------------------------------------------------------------------------
(* What an execution carries.                                              *)

\* No row goes back to not being there.
LEMMA RowsStay ==
  ASSUME TypeOK, [Next]_vars, NEW o \in Orders, orders[o].status # "NONE"
  PROVE  orders'[o].status # "NONE"
  <1> USE DEF books, chain
  <1>0. orders \in [Orders -> Order] /\ orders[o] \in Order
    BY DEF TypeOK
  <1>1. CASE Request
    <2>1. ASSUME NEW r \in Orders, NEW w \in Wallets, NEW z \in Payments, PlaceOrder(r, w, z)
          PROVE  orders'[o].status # "NONE"
      BY <1>0, <2>1 DEF PlaceOrder
    <2> QED BY <1>1, <2>1 DEF Request, BuyPaid, BuyPaidAgain, FirstBuyPaid, FirstBuyQueues,
                              SellAsked, UndoAsked
  <1>2. ASSUME NEW j \in Jobs, Quote(j) PROVE orders'[o].status # "NONE"
    BY <1>2 DEF Quote, BuyQuote, FirstQuote, SellQuote, UndoQuote
  <1>3. ASSUME NEW j \in Jobs, Write(j) PROVE orders'[o].status # "NONE"
    <2>1. CASE FillOrder(j)
      BY <1>0, <2>1 DEF FillOrder, Order
    <2>2. ASSUME NEW r \in Orders, NewOrder(j, r) PROVE orders'[o].status # "NONE"
      BY <1>0, <2>2 DEF NewOrder
    <2>3. CASE DeleteOrder(j)
      BY <1>0, <2>3 DEF DeleteOrder, Order
    <2> QED BY <1>3, <2>1, <2>2, <2>3 DEF Write, SendPayout, SendPayoutUnanswered, MoveCurve,
                                         Credit, Debit, DebitFails, Accrue
  <1>4. ASSUME NEW j \in Jobs, Throws(j) PROVE orders'[o].status # "NONE"
    BY <1>0, <1>4 DEF Throws, Order
  <1>5. CASE Crash \/ UNCHANGED vars
    BY <1>5 DEF Crash, vars
  <1> QED BY <1>1, <1>2, <1>3, <1>4, <1>5 DEF Next, Advance

\* An execution whose variables stay carries what it did.
LEMMA AskedStays ==
  ASSUME TypeOK, [Next]_vars, NEW k \in Jobs, AskedBy(k),
         job'[k].kind = job[k].kind, job'[k].order = job[k].order,
         job'[k].wallet = job[k].wallet, job'[k].tokens = job[k].tokens,
         job'[k].zec = job[k].zec,
         job'[k].read = job[k].read, job'[k].next = job[k].next,
         job'[k].pc \in Started => job[k].pc \in Started,
         job'[k].pc = job[k].pc \/ job[k].kind # "none"
  PROVE  AskedBy(k)'
  <1>1. job[k].kind \in {"buy", "undo"} =>
          job'[k].order \in Orders /\ orders'[job'[k].order].status # "NONE"
    BY RowsStay DEF AskedBy
  <1> QED BY <1>1 DEF AskedBy

LEMMA AskedRequest ==
  ASSUME TypeOK, Asked, Request
  PROVE  Asked'
  <1>0. [Next]_vars
    BY DEF Next
  <1>1. ASSUME NEW j \in Jobs, Same(j), AskedBy(j)' PROVE Asked'
    <2>1. ASSUME NEW k \in Jobs, k # j PROVE AskedBy(k)'
      BY <1>0, <1>1, <2>1, AskedStays DEF Same, Asked
    <2> QED BY <1>1, <2>1 DEF Asked
  <1>2. CASE UNCHANGED <<job, queue>>
    BY <1>0, <1>2, AskedStays DEF Asked
  <1>3. ASSUME NEW j \in Jobs, NEW o \in Orders, NEW z \in Payments,
               BuyPaid(j, o, z) \/ BuyPaidAgain(j, o, z)
        PROVE  Same(j) /\ AskedBy(j)'
    <2>1. orders' = orders /\ orders[o].status # "NONE"
      BY <1>3 DEF BuyPaid, BuyPaidAgain, books
    <2>2. /\ Starts(j) /\ job'[j].kind \in {"buy", "repeat"} /\ job'[j].order = o
          /\ job'[j].zec = z
      BY <1>3, EnqueueFacts DEF BuyPaid, BuyPaidAgain
    <2> QED BY <2>1, <2>2 DEF Starts, AskedBy
  <1>4. ASSUME NEW j \in Jobs, NEW w \in Wallets, NEW z \in Payments, FirstBuyPaid(j, w, z)
        PROVE  Same(j) /\ AskedBy(j)'
    BY <1>4 DEF FirstBuyPaid, Same, AskedBy, IdleJob, TypeOK
  <1>5. ASSUME NEW j \in Jobs, FirstBuyQueues(j)
        PROVE  Same(j) /\ AskedBy(j)'
    <2>1. job \in [Jobs -> Job] /\ job[j] \in Job
      BY DEF TypeOK
    <2>2. Same(j) /\ job'[j] = [job[j] EXCEPT !.pc = "queued"] /\ job[j].pc = "created"
      BY <1>5, <2>1 DEF FirstBuyQueues, Same
    <2>3. /\ job'[j].kind = job[j].kind /\ job'[j].order = job[j].order
          /\ job'[j].wallet = job[j].wallet /\ job'[j].tokens = job[j].tokens
          /\ job'[j].zec = job[j].zec /\ job'[j].pc = "queued"
          /\ job'[j].read = job[j].read /\ job'[j].next = job[j].next
      BY <2>1, <2>2 DEF Job
    <2>4. AskedBy(j) /\ job[j].kind # "none"
      BY <2>2 DEF Asked, AskedBy
    <2> QED BY <1>0, <2>2, <2>3, <2>4, AskedStays DEF Started
  <1>6. ASSUME NEW j \in Jobs, NEW w \in Wallets, NEW t \in Sales, SellAsked(j, w, t)
        PROVE  Same(j) /\ AskedBy(j)'
    <2>1. /\ Starts(j) /\ job'[j].kind = "sell" /\ job'[j].wallet = w /\ job'[j].tokens = t
          /\ job'[j].read = EmptyCurve /\ job'[j].next = EmptyCurve
      BY <1>6, EnqueueFacts DEF SellAsked
    <2> QED BY <2>1 DEF Starts, AskedBy, EmptyCurve
  <1>7. ASSUME NEW j \in Jobs, NEW o \in Orders, UndoAsked(j, o)
        PROVE  Same(j) /\ AskedBy(j)'
    <2>1. orders' = orders /\ orders[o].status # "NONE"
      BY <1>7 DEF UndoAsked, books
    <2>2. Starts(j) /\ job'[j].kind = "undo" /\ job'[j].order = o
      BY <1>7, EnqueueFacts DEF UndoAsked
    <2> QED BY <2>1, <2>2 DEF Starts, AskedBy, Started
  <1>8. ASSUME NEW o \in Orders, NEW w \in Wallets, NEW z \in Payments, PlaceOrder(o, w, z)
        PROVE  UNCHANGED <<job, queue>>
    BY <1>8 DEF PlaceOrder
  <1> QED BY <1>1, <1>2, <1>3, <1>4, <1>5, <1>6, <1>7, <1>8 DEF Request

LEMMA AskedQuote ==
  ASSUME TypeOK, Queue, Asked, RowsPriced, NEW j \in Jobs, Quote(j)
  PROVE  Same(j) /\ AskedBy(j)'
  <1>0. job[j] \in Job /\ curve \in Curve /\ AskedBy(j) /\ orders' = orders
    BY DEF TypeOK, Asked, Quote, BuyQuote, FirstQuote, SellQuote, UndoQuote, books
  <1>1. CASE BuyQuote(j)
    BY <1>0, <1>1, QuotedFacts DEF BuyQuote, BuyFrom, AskedBy
  <1>2. CASE FirstQuote(j)
    BY <1>0, <1>2, QuotedFacts DEF FirstQuote, BuyFrom, AskedBy
  <1>3. CASE SellQuote(j)
    <2>1. CASE Sellable(job[j].wallet, job[j].tokens)
      <3>1. job[j].tokens \in Nat /\ CanSell(curve, job[j].tokens)
        BY <1>0, <2>1 DEF Sellable, Job
      <3>2. AfterSell(curve, job[j].tokens).reserve <= curve.reserve
        BY <1>0, <3>1, AfterSellType
      <3> QED BY <1>0, <1>3, <2>1, <3>2, QuotedFacts DEF SellQuote, AskedBy
    <2>2. CASE ~Sellable(job[j].wallet, job[j].tokens)
      <3>1. EndAt(j, "over") /\ job[j].kind = "sell"
        BY <1>3, <2>2 DEF SellQuote
      <3> QED BY <1>0, <3>1, AtFacts DEF AskedBy
    <2> QED BY <2>1, <2>2
  <1>4. CASE UndoQuote(j)
    <2>1. CASE orders[job[j].order].status = "FILLED" /\ orders[job[j].order].side = "BUY"
      <3>1. orders[job[j].order].zec \in Payments
        BY <1>4, <2>1 DEF UndoQuote, Asked, AskedBy, RowsPriced
      <3> QED BY <1>0, <1>4, <2>1, <3>1, UndoFacts DEF AskedBy
    <2>2. CASE ~(orders[job[j].order].status = "FILLED" /\ orders[job[j].order].side = "BUY")
      <3>1. EndAt(j, "over") /\ job[j].kind = "undo"
        BY <1>4, <2>2 DEF UndoQuote
      <3> QED BY <1>0, <3>1, AtFacts DEF AskedBy, Started
    <2> QED BY <2>1, <2>2
  <1> QED BY <1>1, <1>2, <1>3, <1>4 DEF Quote

\* A statement changes of an execution only how far it got.
LEMMA AskedWrite ==
  ASSUME TypeOK, Queue, Asked, NEW j \in Jobs, Write(j) \/ Throws(j)
  PROVE  Same(j) /\ AskedBy(j)'
  <1>0. [Next]_vars
    BY DEF Next, Advance
  <1>1. Holds(j)
    BY WriteShape
  <1>2. AskedBy(j) /\ job[j].kind # "none"
    BY <1>1, HeadFacts DEF Asked
  <1>3. PICK pc : At(j, pc) \/ EndAt(j, pc)
    BY WriteShape
  <1>4. job[j].pc \notin Started => job'[j].pc \notin Started
    <2>1. CASE Throws(j)
      BY <2>1, AtFacts DEF Throws
    <2>2. CASE Write(j)
      BY <2>2 DEF Write, SendPayout, SendPayoutUnanswered, MoveCurve, Credit, Debit, DebitFails,
                  Accrue, FillOrder, NewOrder, DeleteOrder, Started
    <2> QED BY <2>1, <2>2
  <1> QED BY <1>0, <1>2, <1>3, <1>4, AtFacts, AskedStays

LEMMA AskedStep ==
  ASSUME TypeOK, Queue, Asked, RowsPriced, [Next]_vars
  PROVE  Asked'
  <1>1. CASE Request
    BY <1>1, AskedRequest
  <1>2. ASSUME NEW j \in Jobs, Advance(j) PROVE Asked'
    <2>1. Same(j) /\ AskedBy(j)'
      BY <1>2, AskedQuote, AskedWrite DEF Advance
    <2>2. ASSUME NEW k \in Jobs, k # j PROVE AskedBy(k)'
      BY <2>1, <2>2, AskedStays DEF Same, Asked
    <2> QED BY <2>1, <2>2 DEF Asked
  <1>3. CASE Crash \/ UNCHANGED vars
    BY <1>3, AskedStays DEF Crash, vars, Asked
  <1> QED BY <1>1, <1>2, <1>3 DEF Next

LEMMA RowsPricedStep ==
  ASSUME TypeOK, Queue, Asked, RowsPriced, [Next]_vars
  PROVE  RowsPriced'
  <1> USE DEF books, chain
  <1> SUFFICES ASSUME NEW o \in Orders, orders'[o].status # "NONE", orders'[o].side = "BUY"
               PROVE  orders'[o].zec \in Payments
    BY DEF RowsPriced
  <1>0. orders \in [Orders -> Order] /\ orders[o] \in Order
    BY DEF TypeOK
  <1>u. ASSUME orders' = orders PROVE orders'[o].zec \in Payments
    BY <1>u DEF RowsPriced
  <1>1. CASE Request
    <2>1. ASSUME NEW r \in Orders, NEW w \in Wallets, NEW z \in Payments, PlaceOrder(r, w, z)
          PROVE  orders'[o].zec \in Payments
      BY <1>0, <2>1 DEF PlaceOrder, RowsPriced, NoRow
    <2> QED BY <1>1, <1>u, <2>1 DEF Request, BuyPaid, BuyPaidAgain, FirstBuyPaid,
                                    FirstBuyQueues, SellAsked, UndoAsked
  <1>2. ASSUME NEW j \in Jobs, Quote(j) PROVE orders'[o].zec \in Payments
    BY <1>2, <1>u DEF Quote, BuyQuote, FirstQuote, SellQuote, UndoQuote
  <1>3. ASSUME NEW j \in Jobs, Write(j) PROVE orders'[o].zec \in Payments
    <2>1. CASE FillOrder(j)
      <3>1. job[j].order \in Orders /\ orders[job[j].order].status # "NONE"
        BY <2>1 DEF FillOrder, Asked, AskedBy
      <3>2. orders'[o].side = orders[o].side /\ orders'[o].zec = orders[o].zec
            /\ orders[o].status # "NONE"
        BY <1>0, <2>1, <3>1 DEF FillOrder, Order
      <3> QED BY <3>2 DEF RowsPriced
    <2>2. ASSUME NEW r \in Orders, NewOrder(j, r) PROVE orders'[o].zec \in Payments
      <3>1. CASE o # r
        BY <1>0, <2>2, <3>1 DEF NewOrder, RowsPriced
      <3>2. CASE o = r
        <4>1. job[j].kind # "sell" /\ orders'[o].zec = job[j].zec
          BY <1>0, <2>2, <3>2 DEF NewOrder
        <4> QED BY <2>2, <4>1 DEF NewOrder, Asked, AskedBy
      <3> QED BY <3>1, <3>2
    <2>3. CASE DeleteOrder(j)
      <3>1. job[j].order \in Orders /\ orders[job[j].order].status # "NONE"
        BY <2>3 DEF DeleteOrder, Asked, AskedBy
      <3>2. orders'[o].side = orders[o].side /\ orders'[o].zec = orders[o].zec
            /\ orders[o].status # "NONE"
        BY <1>0, <2>3, <3>1 DEF DeleteOrder, Order
      <3> QED BY <3>2 DEF RowsPriced
    <2> QED BY <1>3, <1>u, <2>1, <2>2, <2>3 DEF Write, SendPayout, SendPayoutUnanswered,
                                         MoveCurve, Credit, Debit, DebitFails, Accrue
  <1>4. ASSUME NEW j \in Jobs, Throws(j) PROVE orders'[o].zec \in Payments
    <2>1. CASE orders' = orders
      BY <2>1, <1>u
    <2>2. CASE job[j].kind = "buy" /\ orders' = [orders EXCEPT ![job[j].order].status = "FAILED"]
      <3>1. job[j].order \in Orders /\ orders[job[j].order].status # "NONE"
        BY <2>2 DEF Asked, AskedBy
      <3>2. orders'[o].side = orders[o].side /\ orders'[o].zec = orders[o].zec
            /\ orders[o].status # "NONE"
        BY <1>0, <2>2, <3>1 DEF Order
      <3> QED BY <3>2 DEF RowsPriced
    <2> QED BY <1>4, <2>1, <2>2 DEF Throws
  <1>5. CASE Crash \/ UNCHANGED vars
    BY <1>5, <1>u DEF Crash, vars
  <1> QED BY <1>1, <1>2, <1>3, <1>4, <1>5 DEF Next, Advance

-----------------------------------------------------------------------------
(* What the head is going to write.                                        *)

LEMMA HoldsOne ==
  ASSUME NEW j, NEW k, Holds(j), Holds(k)
  PROVE  j = k
  BY DEF Holds

\* A request leaves the head as it is, or it has not started.
LEMMA HeadStays ==
  ASSUME TypeOK, Queue, Request, NEW k \in Jobs, Holds(k)'
  PROVE  /\ UNCHANGED <<curve, balance>>
         /\ job'[k].pc = "queued" \/ (Holds(k) /\ job'[k] = job[k])
  <1>1. UNCHANGED <<curve, balance>>
    BY RequestShape
  <1>2. CASE UNCHANGED <<job, queue>>
    BY <1>1, <1>2 DEF Holds
  <1>3. ASSUME NEW j \in Jobs, Starts(j)
        PROVE  job'[k].pc = "queued" \/ (Holds(k) /\ job'[k] = job[k])
    BY <1>3, StartsQueue
  <1>4. ASSUME NEW j \in Jobs, Waits(j)
        PROVE  Holds(k) /\ job'[k] = job[k]
    <2>1. Holds(k)
      BY <1>4 DEF Waits, Holds
    <2>2. job[k].pc \in Started \cup {"queued"}
      BY <2>1, HeadFacts
    <2>3. k # j
      BY <1>4, <2>2 DEF Waits, Started
    <2> QED BY <1>4, <2>1, <2>3 DEF Waits, Same
  <1> QED BY <1>1, <1>2, <1>3, <1>4, RequestShape

\* The head of the queue after a statement is the execution that ran it, or
\* one that has not started.
LEMMA HeadMoves ==
  ASSUME TypeOK, Queue, Asked, NEW j \in Jobs, Advance(j), NEW k \in Jobs, Holds(k)',
         job'[k].pc # "queued"
  PROVE  k = j /\ Holds(j) /\ queue' = queue
  <1>1. Moves(j)
    BY AdvanceShape, EndsQueue
  <1> QED BY <1>1, HoldsOne DEF Moves, Holds

LEMMA QuoteKeeps ==
  ASSUME TypeOK, Asked, NEW j \in Jobs, Quote(j)
  PROVE  job'[j].pc \in {"quoted", "over"} /\ job'[j].kind = job[j].kind
  <1>1. ASSUME EndAt(j, "over")
        PROVE  job'[j].pc \in {"quoted", "over"} /\ job'[j].kind = job[j].kind
    BY <1>1, AtFacts
  <1>2. CASE BuyQuote(j) \/ FirstQuote(j)
    BY <1>2, QuotedFacts DEF BuyQuote, FirstQuote, BuyFrom
  <1>3. CASE SellQuote(j)
    BY <1>1, <1>3, QuotedFacts DEF SellQuote
  <1>4. CASE UndoQuote(j)
    <2>1. job[j].kind = "undo"
      BY <1>4 DEF UndoQuote
    <2>2. CASE orders[job[j].order].status = "FILLED" /\ orders[job[j].order].side = "BUY"
      BY <1>4, <2>1, <2>2, UndoFacts
    <2>3. CASE ~(orders[job[j].order].status = "FILLED" /\ orders[job[j].order].side = "BUY")
      BY <1>1, <1>4, <2>3 DEF UndoQuote
    <2> QED BY <2>2, <2>3
  <1> QED BY <1>2, <1>3, <1>4 DEF Quote

LEMMA ReadFreshQuote ==
  ASSUME TypeOK, Asked, NEW j \in Jobs, Quote(j), job'[j].pc = "quoted"
  PROVE  /\ Trade(j)'
         /\ job'[j].kind # "first" => job'[j].read = curve'
  <1>0. job[j] \in Job /\ curve' = curve
    BY DEF TypeOK, Quote, BuyQuote, FirstQuote, SellQuote, UndoQuote, books
  <1>1. CASE BuyQuote(j)
    BY <1>0, <1>1, QuotedFacts DEF BuyQuote, BuyFrom, Trade
  <1>2. CASE FirstQuote(j)
    BY <1>0, <1>2, QuotedFacts DEF FirstQuote, BuyFrom, Trade
  <1>3. CASE SellQuote(j)
    <2>1. Sellable(job[j].wallet, job[j].tokens)
      <3>1. ASSUME EndAt(j, "over") PROVE FALSE
        <4>1. job'[j].pc = "over"
          BY <3>1, AtFacts
        <4> QED BY <4>1
      <3> QED BY <1>3, <3>1 DEF SellQuote
    <2> QED BY <1>0, <1>3, <2>1, QuotedFacts DEF SellQuote, Sellable, Trade
  <1>4. CASE UndoQuote(j)
    <2>1. orders[job[j].order].status = "FILLED" /\ orders[job[j].order].side = "BUY"
      <3>1. ASSUME EndAt(j, "over") PROVE FALSE
        <4>1. job'[j].pc = "over"
          BY <3>1, AtFacts
        <4> QED BY <4>1
      <3> QED BY <1>4, <3>1 DEF UndoQuote
    <2> QED BY <1>0, <1>4, <2>1, UndoFacts DEF Trade
  <1> QED BY <1>1, <1>2, <1>3, <1>4 DEF Quote

LEMMA ReadFreshStep ==
  ASSUME TypeOK, Queue, Asked, ReadFresh, [Next]_vars
  PROVE  ReadFresh'
  <1> USE DEF books, chain
  <1> SUFFICES ASSUME NEW k \in Jobs, Holds(k)', job'[k].pc \in {"quoted", "sent"}
               PROVE  Trade(k)' /\ (job'[k].kind # "first" => job'[k].read = curve')
    BY DEF ReadFresh
  <1>s. ASSUME Holds(k), job'[k] = job[k], curve' = curve
        PROVE  Trade(k)' /\ (job'[k].kind # "first" => job'[k].read = curve')
    BY <1>s DEF ReadFresh, Trade
  <1>1. CASE Request
    BY <1>1, <1>s, HeadStays
  <1>2. ASSUME NEW j \in Jobs, Advance(j)
        PROVE  Trade(k)' /\ (job'[k].kind # "first" => job'[k].read = curve')
    <2>1. k = j /\ Holds(j) /\ queue' = queue
      BY <1>2, HeadMoves
    <2>2. CASE Quote(j)
      <3>1. job'[j].pc # "sent"
        BY <2>2, QuoteKeeps
      <3> QED BY <2>1, <2>2, <3>1, ReadFreshQuote
    <2>3. CASE SendPayout(j)
      <3>1. /\ job[j].pc = "quoted" /\ curve' = curve
            /\ job'[j].kind = job[j].kind /\ job'[j].zec = job[j].zec
            /\ job'[j].tokens = job[j].tokens /\ job'[j].read = job[j].read
            /\ job'[j].next = job[j].next
        BY <2>3, AtFacts DEF SendPayout
      <3> QED BY <2>1, <3>1 DEF ReadFresh, Trade
    <2>4. CASE SendPayoutUnanswered(j) \/ Throws(j)
      <3>1. Ends(j)
        BY <2>4, AtFacts DEF SendPayoutUnanswered, Throws, EndAt, Passed, Ends
      <3> QED BY <3>1, EndsQueue
    <2>5. CASE Write(j) /\ ~SendPayout(j) /\ ~SendPayoutUnanswered(j)
      <3>1. PICK pc \in {"moved", "settled", "short", "accrued", "over"} :
              At(j, pc) \/ EndAt(j, pc)
        BY <2>5 DEF Write, MoveCurve, Credit, Debit, DebitFails, Accrue, FillOrder, NewOrder,
                    DeleteOrder
      <3> QED BY <2>1, <3>1, AtFacts
    <2> QED BY <1>2, <2>2, <2>3, <2>4, <2>5 DEF Advance
  <1>3. CASE Crash
    BY <1>3 DEF Crash, Holds
  <1>4. CASE UNCHANGED vars
    BY <1>4, <1>s DEF vars, Holds
  <1> QED BY <1>1, <1>2, <1>3, <1>4 DEF Next

LEMMA SellCoveredStep ==
  ASSUME TypeOK, Queue, Asked, SellCovered, [Next]_vars
  PROVE  SellCovered'
  <1> USE DEF books, chain
  <1> SUFFICES ASSUME NEW k \in Jobs, Holds(k)', job'[k].kind = "sell",
                      job'[k].pc \in {"quoted", "sent", "moved"}
               PROVE  balance'[job'[k].wallet] >= job'[k].tokens
    BY DEF SellCovered
  <1>s. ASSUME Holds(k), job'[k] = job[k], balance' = balance
        PROVE  balance'[job'[k].wallet] >= job'[k].tokens
    BY <1>s DEF SellCovered
  <1>1. CASE Request
    BY <1>1, <1>s, HeadStays
  <1>2. ASSUME NEW j \in Jobs, Advance(j)
        PROVE  balance'[job'[k].wallet] >= job'[k].tokens
    <2>1. k = j /\ Holds(j) /\ queue' = queue
      BY <1>2, HeadMoves
    <2>2. CASE Quote(j)
      <3>0. job[j].kind = "sell"
        BY <2>1, <2>2, QuoteKeeps
      <3>1. SellQuote(j)
        BY <2>2, <3>0 DEF Quote, BuyQuote, FirstQuote, UndoQuote
      <3>2. CASE Sellable(job[j].wallet, job[j].tokens)
        BY <2>1, <3>1, <3>2, QuotedFacts DEF SellQuote, Sellable
      <3>3. CASE ~Sellable(job[j].wallet, job[j].tokens)
        <4>1. EndAt(j, "over")
          BY <3>1, <3>3 DEF SellQuote
        <4>2. job'[j].pc = "over"
          BY <4>1, AtFacts
        <4> QED BY <2>1, <4>2
      <3> QED BY <3>2, <3>3
    <2>3. CASE SendPayout(j) \/ MoveCurve(j)
      <3>1. /\ job[j].pc \in {"quoted", "sent"} /\ balance' = balance
            /\ job'[j].kind = job[j].kind /\ job'[j].wallet = job[j].wallet
            /\ job'[j].tokens = job[j].tokens
        BY <2>3, AtFacts DEF SendPayout, MoveCurve
      <3> QED BY <2>1, <3>1 DEF SellCovered
    <2>4. CASE SendPayoutUnanswered(j) \/ Throws(j)
      <3>1. Ends(j)
        BY <2>4, AtFacts DEF SendPayoutUnanswered, Throws, EndAt, Passed, Ends
      <3> QED BY <3>1, EndsQueue
    <2>5. CASE DebitFails(j)
      <3>1. job[j].kind = "sell" => Ends(j)
        BY <2>5, AtFacts DEF DebitFails, EndAt, Passed, Ends
      <3>2. job'[j].kind = job[j].kind
        BY <2>5, AtFacts DEF DebitFails
      <3> QED BY <2>1, <3>1, <3>2, EndsQueue
    <2>6. CASE Write(j) /\ ~SendPayout(j) /\ ~SendPayoutUnanswered(j) /\ ~MoveCurve(j)
               /\ ~DebitFails(j)
      <3>1. PICK pc \in {"settled", "accrued", "over", "short"} : At(j, pc) \/ EndAt(j, pc)
        BY <2>6 DEF Write, Credit, Debit, Accrue, FillOrder, NewOrder, DeleteOrder
      <3> QED BY <2>1, <3>1, AtFacts
    <2> QED BY <1>2, <2>2, <2>3, <2>4, <2>5, <2>6 DEF Advance
  <1>3. CASE Crash
    BY <1>3 DEF Crash, Holds
  <1>4. CASE UNCHANGED vars
    BY <1>4, <1>s DEF vars, Holds
  <1> QED BY <1>1, <1>2, <1>3, <1>4 DEF Next

-----------------------------------------------------------------------------
(* What the lock guarantees.                                                 *)

LEMMA InductiveStep == IInv /\ [Next]_vars => IInv'
  BY StepType, QueueStep, AskedStep, RowsPricedStep, ReadFreshStep, SellCoveredStep DEF IInv

\* Whatever runs, throws or crashes, only the head of the lock's queue has
\* read the books, and it read them as they are.
THEOREM InductiveInvariant == Spec => []IInv
  <1> QED BY InitInv, InductiveStep, PTL DEF Spec

\* The books keep their types: reserve, fees and balances stay natural
\* numbers, and the tokens sold stay within the curve, for every mix of
\* buys, sells, first buys and reversals (server.ts 792-1262).
THEOREM TypeCorrect == Spec => []TypeOK
  <1>1. IInv => TypeOK
    BY DEF IInv
  <1> QED BY <1>1, InductiveInvariant, PTL

\* A seller who has been paid holds the tokens until the debit
\* (server.ts 1027-1111).
THEOREM PaidSellsCovered == Spec => []PaidSellCovered
  <1>1. IInv => PaidSellCovered
    BY DEF IInv, SellCovered, PaidSellCovered
  <1> QED BY <1>1, InductiveInvariant, PTL

LEMMA MarketInit == Init => Market!Init
  BY DEF Init, Market!Init, Market!EmptyCurve, EmptyCurve

LEMMA SameCurve ==
  ASSUME NEW c, NEW z, NEW t
  PROVE  /\ Market!AfterBuy(c, z) = AfterBuy(c, z)
         /\ Market!AfterSell(c, t) = AfterSell(c, t)
         /\ Market!CanBuy(c) <=> CanBuy(c)
         /\ Market!CanSell(c, t) <=> CanSell(c, t)
         /\ Market!AfterUndo(c, z, t) = AfterUndo(c, z, t)
  <1>1. Market!TokenSide(c) = TokenSide(c) /\ Market!ZecSide(c) = ZecSide(c)
        /\ Market!Gross(c, t) = Gross(c, t)
    BY DEF Market!TokenSide, TokenSide, Market!ZecSide, ZecSide, Market!Gross, Gross
  <1>2. Market!TokensOut(c, z) = TokensOut(c, z) /\ Market!ZecOut(c, t) = ZecOut(c, t)
    BY <1>1 DEF Market!TokensOut, TokensOut, Market!Rounded, Rounded, Market!ZecOut, ZecOut
  <1> QED BY <1>1, <1>2 DEF Market!AfterBuy, AfterBuy, Market!AfterSell, AfterSell,
             Market!CanBuy, CanBuy, Market!CanSell, CanSell, Market!AfterUndo, AfterUndo,
             Market!Least0, Least0

LEMMA UndoWithin ==
  ASSUME NEW c \in Curve, NEW z \in Nat, NEW t \in Nat
  PROVE  \E u \in 0..VirtualTokens : AfterUndo(c, z, t) = AfterUndo(c, z, u)
  <1>1. c.sold \in 0..VirtualTokens /\ VirtualTokens \in Nat
    BY CurveAssumption DEF Curve
  <1>2. CASE t \in 0..VirtualTokens
    BY <1>2
  <1>3. CASE t > VirtualTokens
    <2>1. Least0(c.sold - t) = 0 /\ Least0(c.sold - VirtualTokens) = 0
      BY <1>1, <1>3 DEF Least0
    <2>2. AfterUndo(c, z, t) = AfterUndo(c, z, VirtualTokens)
      BY <2>1 DEF AfterUndo
    <2> QED BY <1>1, <2>2
  <1> QED BY <1>1, <1>2, <1>3

\* Nothing has moved the curve between the read of a first buy, which is older than
\* the lock, and its write.
FirstFresh == \A j \in Jobs :
  Holds(j) /\ job[j].kind = "first" /\ job[j].pc = "quoted" => job[j].read = curve

LEMMA NoFirstNoStale ==
  ASSUME "first" \notin Kinds, IInv
  PROVE  FirstFresh
  <1>1. \A j \in Jobs : job[j].kind # "first"
    BY DEF IInv, TypeOK, Job
  <1> QED BY <1>1 DEF FirstFresh

\* What is about to be written was computed from the curve as it is.
LEMMA HeadFresh ==
  ASSUME FirstFresh, TypeOK, Queue, Asked, ReadFresh,
         NEW j \in Jobs, Holds(j), job[j].pc \in {"quoted", "sent"}
  PROVE  Trade(j) /\ (job[j].pc = "quoted" \/ job[j].kind = "sell" => job[j].read = curve)
  BY DEF ReadFresh, FirstFresh

LEMMA MarketStep ==
  ASSUME FirstFresh, IInv, [Next]_vars
  PROVE  [Market!Next]_curve
  <1> USE DEF books, chain
  <1>1. ASSUME NEW j \in Jobs, MoveCurve(j) PROVE Market!Next
    <2>1. Holds(j) /\ job[j].pc \in {"quoted", "sent"} /\ curve' = job[j].next
      BY <1>1 DEF MoveCurve
    <2>2. job[j] \in Job /\ curve \in Curve /\ AskedBy(j)
      BY DEF IInv, TypeOK, Asked
    <2>3. job[j].pc = "quoted" \/ job[j].kind = "sell"
      BY <1>1 DEF MoveCurve
    <2>4. Trade(j) /\ job[j].read = curve
      BY <2>1, <2>3, HeadFresh DEF IInv
    <2>5. CASE job[j].kind \in {"buy", "repeat", "first"}
      <3>1. job[j].zec \in Payments
        BY <2>2, <2>5 DEF AskedBy
      <3>2. Market!Buy(Net(job[j].zec))
        BY <2>1, <2>4, <2>5, SameCurve DEF Market!Buy, Trade
      <3> QED BY <3>1, <3>2 DEF Market!Next, Nets
    <2>6. CASE job[j].kind = "sell"
      <3>1. job[j].tokens \in Sales
        BY <2>2, <2>6 DEF AskedBy
      <3>2. Market!Sell(job[j].tokens)
        BY <2>1, <2>4, <2>6, SameCurve DEF Market!Sell, Trade
      <3> QED BY <3>1, <3>2 DEF Market!Next
    <2>7. CASE job[j].kind = "undo"
      <3>1. job[j].zec \in Payments /\ "undo" \in Kinds
        BY <2>1, <2>2, <2>7 DEF AskedBy, Started, Job
      <3>2. Net(job[j].zec) \in Nat /\ job[j].tokens \in Nat
        BY <2>2, FeeFacts DEF Job
      <3>3. PICK u \in 0..VirtualTokens :
              AfterUndo(curve, Net(job[j].zec), job[j].tokens)
              = AfterUndo(curve, Net(job[j].zec), u)
        BY <2>2, <3>2, UndoWithin
      <3>4. Market!Undo(Net(job[j].zec), u)
        BY <2>1, <2>4, <2>7, <3>3, SameCurve DEF Market!Undo, Trade
      <3> QED BY <3>1, <3>4 DEF Market!Next, Nets
    <2> QED BY <2>4, <2>5, <2>6, <2>7 DEF Trade
  <1>2. CASE Request
    BY <1>2, RequestShape DEF IInv
  <1>3. ASSUME NEW j \in Jobs, Advance(j), ~MoveCurve(j) PROVE curve' = curve
    BY <1>3 DEF Advance, Quote, BuyQuote, FirstQuote, SellQuote, UndoQuote, Write, SendPayout,
                SendPayoutUnanswered, Credit, Debit, DebitFails, Accrue, FillOrder, NewOrder,
                DeleteOrder, Throws
  <1>4. CASE Crash \/ UNCHANGED vars
    BY <1>4 DEF Crash, vars
  <1> QED BY <1>1, <1>2, <1>3, <1>4 DEF Next

\* The lock makes the trades of a token serial, also beside first buys: as long as
\* the curve that a first buy was handed is still the curve when it writes, every
\* write of the curve is one trade on the curve that the trade before it left.  The
\* read that is older than the lock is the only thing that can break the series
\* (server.ts 747-799, mutex.ts 26-41).
THEOREM FreshTradesSerialized == Spec /\ []FirstFresh => Serialized
  <1>1. Init => Market!Init
    BY MarketInit
  <1>2. FirstFresh /\ IInv /\ [Next]_vars => [Market!Next]_curve
    BY MarketStep
  <1> QED BY <1>1, <1>2, InductiveInvariant, PTL DEF Spec, Serialized, Market!Spec

\* Without first buys nothing can: the trades of a token that was created without
\* one are serial for good (mutex.ts 26-41).
THEOREM TradesSerialized ==
  ASSUME "first" \notin Kinds
  PROVE  Spec => Serialized
  <1>1. IInv => FirstFresh
    BY NoFirstNoStale
  <1> QED BY <1>1, FreshTradesSerialized, InductiveInvariant, PTL

-----------------------------------------------------------------------------
(* What an execution is about to do to the balances.                       *)

\* A row names a wallet.
RowsOwned == \A o \in Orders : orders[o].status # "NONE" => orders[o].wallet \in Wallets

Buying == {"buy", "repeat", "first"}

\* What the curve gives or takes back is what the balance is going to get or lose,
\* but for a reversal, whose curve is clamped at 0.
Carries(r) ==
  /\ r.kind \in Buying => r.wallet \in Wallets
  /\ r.kind \in Buying /\ r.pc \in {"quoted", "moved"} => r.next.sold - r.read.sold = r.tokens
  /\ r.kind = "sell" /\ r.pc \in {"quoted", "sent", "moved"}
     => r.read.sold - r.next.sold = r.tokens
  /\ r.kind = "undo" /\ r.pc \in {"quoted", "moved"} => r.wallet \in Wallets
  /\ r.kind = "undo" /\ r.pc \in {"created", "queued"}
     => r.next.sold = r.read.sold /\ r.tokens = 0
Carried == \A j \in Jobs : Carries(job[j])

LEMMA RowsOwnedStep ==
  ASSUME TypeOK, Asked, RowsOwned, Carried, [Next]_vars
  PROVE  RowsOwned'
  <1> USE DEF books, chain
  <1> SUFFICES ASSUME NEW o \in Orders, orders'[o].status # "NONE"
               PROVE  orders'[o].wallet \in Wallets
    BY DEF RowsOwned
  <1>0. orders \in [Orders -> Order] /\ orders[o] \in Order
    BY DEF TypeOK
  <1>u. ASSUME orders' = orders PROVE orders'[o].wallet \in Wallets
    BY <1>u DEF RowsOwned
  \* A row whose status is set keeps its wallet.
  <1>m. ASSUME NEW x \in Orders, orders[x].status # "NONE",
               orders'[o].wallet = orders[o].wallet, o # x => orders'[o] = orders[o]
        PROVE  orders'[o].wallet \in Wallets
    BY <1>m DEF RowsOwned
  <1>1. CASE Request
    <2>1. ASSUME NEW r \in Orders, NEW w \in Wallets, NEW z \in Payments, PlaceOrder(r, w, z)
          PROVE  orders'[o].wallet \in Wallets
      BY <1>0, <2>1 DEF PlaceOrder, RowsOwned, NoRow
    <2> QED BY <1>1, <1>u, <2>1 DEF Request, BuyPaid, BuyPaidAgain, FirstBuyPaid,
                                    FirstBuyQueues, SellAsked, UndoAsked
  <1>2. ASSUME NEW j \in Jobs, Quote(j) PROVE orders'[o].wallet \in Wallets
    BY <1>2, <1>u DEF Quote, BuyQuote, FirstQuote, SellQuote, UndoQuote
  <1>3. ASSUME NEW j \in Jobs, Write(j) PROVE orders'[o].wallet \in Wallets
    <2>1. CASE FillOrder(j)
      <3>1. job[j].order \in Orders /\ orders[job[j].order].status # "NONE"
        BY <2>1 DEF FillOrder, Asked, AskedBy
      <3>2. orders'[o].wallet = orders[o].wallet
            /\ (o # job[j].order => orders'[o] = orders[o])
        BY <1>0, <2>1, <3>1 DEF FillOrder, Order
      <3> QED BY <3>1, <3>2, <1>m
    <2>2. ASSUME NEW r \in Orders, NewOrder(j, r) PROVE orders'[o].wallet \in Wallets
      <3>1. CASE o # r
        BY <1>0, <2>2, <3>1 DEF NewOrder, RowsOwned
      <3>2. CASE o = r
        <4>1. orders'[o].wallet = job[j].wallet /\ job[j].kind \in {"repeat", "first", "sell"}
          BY <1>0, <2>2, <3>2 DEF NewOrder
        <4> QED BY <4>1 DEF Asked, AskedBy, Carried, Carries, Buying
      <3> QED BY <3>1, <3>2
    <2>3. CASE DeleteOrder(j)
      <3>1. job[j].order \in Orders /\ orders[job[j].order].status # "NONE"
        BY <2>3 DEF DeleteOrder, Asked, AskedBy
      <3>2. orders'[o].wallet = orders[o].wallet
            /\ (o # job[j].order => orders'[o] = orders[o])
        BY <1>0, <2>3, <3>1 DEF DeleteOrder, Order
      <3> QED BY <3>1, <3>2, <1>m
    <2> QED BY <1>3, <1>u, <2>1, <2>2, <2>3 DEF Write, SendPayout, SendPayoutUnanswered,
                                         MoveCurve, Credit, Debit, DebitFails, Accrue
  <1>4. ASSUME NEW j \in Jobs, Throws(j) PROVE orders'[o].wallet \in Wallets
    <2>2. CASE job[j].kind = "buy" /\ orders' = [orders EXCEPT ![job[j].order].status = "FAILED"]
      <3>1. job[j].order \in Orders /\ orders[job[j].order].status # "NONE"
        BY <2>2 DEF Asked, AskedBy
      <3>2. orders'[o].wallet = orders[o].wallet
            /\ (o # job[j].order => orders'[o] = orders[o])
        BY <1>0, <2>2, <3>1 DEF Order
      <3> QED BY <3>1, <3>2, <1>m
    <2> QED BY <1>4, <1>u, <2>2 DEF Throws
  <1>5. CASE Crash \/ UNCHANGED vars
    BY <1>5, <1>u DEF Crash, vars
  <1> QED BY <1>1, <1>2, <1>3, <1>4, <1>5 DEF Next, Advance

LEMMA SoldByTrade ==
  ASSUME NEW c \in Curve, NEW z \in Nat, NEW t \in Nat
  PROVE  /\ AfterBuy(c, z).sold - c.sold = TokensOut(c, z)
         /\ c.sold - AfterSell(c, t).sold = t
  <1>1. TokensOut(c, z) \in Int /\ c.sold \in Int
    BY TokensOutBounds, CurveAssumption DEF Curve, TokenSide
  <1> QED BY <1>1 DEF AfterBuy, AfterSell

LEMMA CarriedRequest ==
  ASSUME TypeOK, RowsOwned, Carried, Request
  PROVE  Carried'
  <1>1. ASSUME NEW j \in Jobs, Same(j), Carries(job'[j]) PROVE Carried'
    BY <1>1 DEF Same, Carried
  <1>2. CASE UNCHANGED job
    BY <1>2 DEF Carried
  <1>3. ASSUME NEW j \in Jobs, NEW o \in Orders, NEW z \in Payments,
               BuyPaid(j, o, z) \/ BuyPaidAgain(j, o, z)
        PROVE  Same(j) /\ Carries(job'[j])
    <2>1. /\ Starts(j) /\ job'[j].kind \in Buying /\ job'[j].wallet = orders[o].wallet
          /\ orders[o].status # "NONE"
      BY <1>3, EnqueueFacts DEF BuyPaid, BuyPaidAgain, Buying
    <2> QED BY <2>1 DEF Starts, Carries, RowsOwned, Buying
  <1>4. ASSUME NEW j \in Jobs, NEW w \in Wallets, NEW z \in Payments, FirstBuyPaid(j, w, z)
        PROVE  Same(j) /\ Carries(job'[j])
    BY <1>4 DEF FirstBuyPaid, Same, Carries, Buying, IdleJob, TypeOK
  <1>5. ASSUME NEW j \in Jobs, FirstBuyQueues(j)
        PROVE  Same(j) /\ Carries(job'[j])
    <2>1. job \in [Jobs -> Job] /\ job[j] \in Job /\ Carries(job[j])
      BY DEF TypeOK, Carried
    <2>2. Same(j) /\ job'[j] = [job[j] EXCEPT !.pc = "queued"] /\ job[j].pc = "created"
      BY <1>5, <2>1 DEF FirstBuyQueues, Same
    <2>3. /\ job'[j].kind = job[j].kind /\ job'[j].wallet = job[j].wallet
          /\ job'[j].tokens = job[j].tokens /\ job'[j].pc = "queued"
          /\ job'[j].read = job[j].read /\ job'[j].next = job[j].next
      BY <2>1, <2>2 DEF Job
    <2> QED BY <2>1, <2>2, <2>3 DEF Carries
  <1>6. ASSUME NEW j \in Jobs, NEW w \in Wallets, NEW t \in Sales, SellAsked(j, w, t)
        PROVE  Same(j) /\ Carries(job'[j])
    <2>1. Starts(j) /\ job'[j].kind = "sell"
      BY <1>6, EnqueueFacts DEF SellAsked
    <2> QED BY <2>1 DEF Starts, Carries, Buying
  <1>7. ASSUME NEW j \in Jobs, NEW o \in Orders, UndoAsked(j, o)
        PROVE  Same(j) /\ Carries(job'[j])
    <2>1. /\ Starts(j) /\ job'[j].kind = "undo" /\ job'[j].tokens = 0
          /\ job'[j].read = EmptyCurve /\ job'[j].next = EmptyCurve
      BY <1>7, EnqueueFacts DEF UndoAsked
    <2> QED BY <2>1 DEF Starts, Carries, Buying
  <1>8. ASSUME NEW o \in Orders, NEW w \in Wallets, NEW z \in Payments, PlaceOrder(o, w, z)
        PROVE  UNCHANGED job
    BY <1>8 DEF PlaceOrder
  <1> QED BY <1>1, <1>2, <1>3, <1>4, <1>5, <1>6, <1>7, <1>8 DEF Request

LEMMA CarriedQuote ==
  ASSUME TypeOK, Asked, RowsOwned, Carried, NEW j \in Jobs, Quote(j)
  PROVE  Same(j) /\ Carries(job'[j])
  <1>0. /\ job[j] \in Job /\ job[j].read \in Curve /\ job[j].zec \in Nat /\ job[j].tokens \in Nat
        /\ curve \in Curve /\ Carries(job[j]) /\ Net(job[j].zec) \in Nat
    BY FeeFacts DEF TypeOK, Carried, Job
  <1>b. ASSUME NEW c \in Curve, BuyFrom(j, c), job[j].kind \in Buying
        PROVE  Same(j) /\ Carries(job'[j])
    <2>1. /\ Same(j) /\ job'[j].pc = "quoted" /\ job'[j].kind = job[j].kind
          /\ job'[j].wallet = job[j].wallet /\ job'[j].read = c
          /\ job'[j].tokens = TokensOut(c, Net(job[j].zec))
          /\ job'[j].next = AfterBuy(c, Net(job[j].zec))
      BY <1>b, QuotedFacts DEF BuyFrom
    <2>2. job'[j].next.sold - job'[j].read.sold = job'[j].tokens
      BY <1>0, <2>1, SoldByTrade
    <2> QED BY <1>0, <1>b, <2>1, <2>2 DEF Carries, Buying
  <1>o. ASSUME EndAt(j, "over") PROVE Same(j) /\ Carries(job'[j])
    BY <1>0, <1>o, AtFacts DEF Carries
  <1>1. CASE BuyQuote(j)
    BY <1>0, <1>1, <1>b DEF BuyQuote, Buying
  <1>2. CASE FirstQuote(j)
    BY <1>0, <1>2, <1>b DEF FirstQuote, Buying
  <1>3. CASE SellQuote(j)
    <2>1. CASE Sellable(job[j].wallet, job[j].tokens)
      <3>1. /\ Same(j) /\ job'[j].pc = "quoted" /\ job'[j].kind = "sell"
            /\ job'[j].read = curve /\ job'[j].tokens = job[j].tokens
            /\ job'[j].next = AfterSell(curve, job[j].tokens)
        BY <1>3, <2>1, QuotedFacts DEF SellQuote
      <3>2. job'[j].read.sold - job'[j].next.sold = job'[j].tokens
        BY <1>0, <3>1, SoldByTrade
      <3> QED BY <3>1, <3>2 DEF Carries, Buying
    <2> QED BY <1>3, <1>o, <2>1 DEF SellQuote
  <1>4. CASE UndoQuote(j)
    <2>1. CASE orders[job[j].order].status = "FILLED" /\ orders[job[j].order].side = "BUY"
      <3>1. /\ Same(j) /\ job'[j].pc = "quoted" /\ job'[j].kind = "undo"
            /\ job'[j].wallet = orders[job[j].order].wallet /\ job[j].order \in Orders
        BY <1>4, <2>1, UndoFacts
      <3> QED BY <2>1, <3>1 DEF Carries, Buying, RowsOwned
    <2> QED BY <1>4, <1>o, <2>1 DEF UndoQuote
  <1> QED BY <1>1, <1>2, <1>3, <1>4 DEF Quote

LEMMA CarriedWrite ==
  ASSUME TypeOK, Carried, NEW j \in Jobs, Write(j) \/ Throws(j)
  PROVE  Same(j) /\ Carries(job'[j])
  <1>0. Carries(job[j])
    BY DEF Carried
  <1>1. PICK pc : At(j, pc) \/ EndAt(j, pc)
    BY WriteShape
  <1>2. /\ Same(j) /\ job'[j].pc = pc /\ job'[j].kind = job[j].kind
        /\ job'[j].wallet = job[j].wallet /\ job'[j].tokens = job[j].tokens
        /\ job'[j].read = job[j].read /\ job'[j].next = job[j].next
    BY <1>1, AtFacts
  <1>3. CASE Throws(j)
    <2>1. job'[j].pc = job[j].pc
      BY <1>3, AtFacts DEF Throws
    <2> QED BY <1>0, <1>2, <2>1 DEF Carries
  <1>4. CASE SendPayout(j) \/ SendPayoutUnanswered(j)
    <2>1. job'[j].pc = "sent" /\ job[j].pc = "quoted" /\ job[j].kind = "sell"
      BY <1>4, AtFacts DEF SendPayout, SendPayoutUnanswered
    <2> QED BY <1>0, <1>2, <2>1 DEF Carries, Buying
  <1>5. CASE MoveCurve(j)
    <2>1. job'[j].pc = "moved" /\ job[j].pc = (IF job[j].kind = "sell" THEN "sent" ELSE "quoted")
      BY <1>5, AtFacts DEF MoveCurve
    <2> QED BY <1>0, <1>2, <2>1 DEF Carries, Buying
  <1>6. CASE DebitFails(j)
    <2>1. job[j].pc = "moved" /\ job'[j].pc \in {"moved", "short"}
      BY <1>6, AtFacts DEF DebitFails
    <2> QED BY <1>0, <1>2, <2>1 DEF Carries
  <1>7. CASE Credit(j) \/ Debit(j) \/ Accrue(j) \/ FillOrder(j)
             \/ (\E o \in Orders : NewOrder(j, o)) \/ DeleteOrder(j)
    <2>1. job'[j].pc \in {"settled", "accrued", "over", "short"}
      BY <1>7, AtFacts DEF Credit, Debit, Accrue, FillOrder, NewOrder, DeleteOrder
    <2> QED BY <1>0, <1>2, <2>1 DEF Carries
  <1> QED BY <1>3, <1>4, <1>5, <1>6, <1>7 DEF Write

LEMMA CarriedStep ==
  ASSUME TypeOK, Asked, RowsOwned, Carried, [Next]_vars
  PROVE  Carried'
  <1>1. CASE Request
    BY <1>1, CarriedRequest
  <1>2. ASSUME NEW j \in Jobs, Advance(j) PROVE Carried'
    <2>1. Same(j) /\ Carries(job'[j])
      BY <1>2, CarriedQuote, CarriedWrite DEF Advance
    <2> QED BY <2>1 DEF Same, Carried
  <1>3. CASE Crash \/ UNCHANGED vars
    BY <1>3 DEF Crash, vars, Carried
  <1> QED BY <1>1, <1>2, <1>3 DEF Next

-----------------------------------------------------------------------------
(* The tokens of the curve and of the balances.                            *)

\* Unsettled, of the variables of an execution.
Gap(r) ==
  IF r.pc \in {"moved", "short"} THEN r.next.sold - r.read.sold
  ELSE IF r.kind = "undo" /\ r.pc \in {"settled", "over"}
       THEN r.next.sold - r.read.sold + r.tokens
  ELSE 0

LEMMA GapInt ==
  ASSUME NEW r \in Job
  PROVE  Gap(r) \in Int
  <1>1. r.next \in Curve /\ r.read \in Curve /\ r.tokens \in Nat
    BY DEF Job
  <1>2. r.next.sold \in Int /\ r.read.sold \in Int
    BY <1>1, CurveAssumption DEF Curve
  <1> QED BY <1>1, <1>2 DEF Gap

Gaps == [j \in Jobs |-> Gap(job[j])]

LEMMA UnsettledIsGap == Total(Unsettled) = SumFunctionOnSet(Gaps, Jobs)
  <1>1. ASSUME NEW j \in Jobs PROVE Unsettled(j) = Gap(job[j])
    BY DEF Unsettled, Gap
  <1>2. [j \in Jobs |-> Unsettled(j)] = Gaps
    BY <1>1 DEF Gaps
  <1>3. SumFunction(Gaps) = SumFunctionOnSet(Gaps, Jobs)
    BY DEF SumFunction, Gaps
  <1> QED BY <1>2, <1>3 DEF Total

LEMMA IssuedIs == TypeOK => Issued = SumFunctionOnSet(balance, Wallets)
  BY DEF Issued, SumFunction, TypeOK

Accounted == curve.sold - SumFunctionOnSet(balance, Wallets) = SumFunctionOnSet(Gaps, Jobs)

LEMMA GapsChange ==
  ASSUME TypeOK, TypeOK', NEW j \in Jobs, Same(j)
  PROVE  SumFunctionOnSet(Gaps', Jobs)
           = SumFunctionOnSet(Gaps, Jobs) - Gap(job[j]) + Gap(job'[j])
  <1> DEFINE f == Gaps
             g == Gaps'
  <1>1. \A k \in Jobs : f[k] = Gap(job[k]) /\ f[k] \in Int
    BY GapInt DEF TypeOK, Gaps
  <1>2. \A k \in Jobs : g[k] = Gap(job'[k]) /\ g[k] \in Int
    BY GapInt DEF TypeOK, Gaps
  <1>3. \A k \in Jobs \ {j} : g[k] = f[k]
    BY <1>1, <1>2 DEF Same
  <1>4. IsFiniteSet(Jobs)
    BY FiniteAssumption
  <1> HIDE DEF f, g
  <1>5. SumFunctionOnSet(g, Jobs) = SumFunctionOnSet(f, Jobs) - f[j] + g[j]
    <2>1. (\A k \in Jobs : f[k] \in Int) /\ g[j] \in Int
      BY <1>1, <1>2
    <2> QED BY <1>3, <1>4, <2>1, SumChange
  <1>6. f[j] = Gap(job[j]) /\ g[j] = Gap(job'[j])
    BY <1>1, <1>2
  <1> QED BY <1>5, <1>6 DEF f, g

LEMMA SumsAreInt ==
  ASSUME TypeOK
  PROVE  /\ SumFunctionOnSet(Gaps, Jobs) \in Int
         /\ SumFunctionOnSet(balance, Wallets) \in Int
         /\ curve.sold \in Int
  <1>1. \A k \in Jobs : Gaps[k] \in Int
    BY GapInt DEF TypeOK, Gaps
  <1>2. \A w \in Wallets : balance[w] \in Int
    BY DEF TypeOK
  <1> QED BY <1>1, <1>2, SumInt, FiniteAssumption, CurveAssumption DEF TypeOK, Curve

LEMMA BalancesChange ==
  ASSUME TypeOK, NEW w \in Wallets, NEW n \in Int, balance' = [balance EXCEPT ![w] = n]
  PROVE  SumFunctionOnSet(balance', Wallets)
           = SumFunctionOnSet(balance, Wallets) - balance[w] + n
  <1>1. balance' \in [Wallets -> Int] /\ balance'[w] = n
        /\ \A x \in Wallets \ {w} : balance'[x] = balance[x]
    BY DEF TypeOK
  <1>2. \A x \in Wallets : balance[x] \in Int
    BY DEF TypeOK
  <1>3. IsFiniteSet(Wallets)
    BY FiniteAssumption
  <1> DEFINE b == balance'
  <1>4. /\ \A x \in Wallets \ {w} : b[x] = balance[x]
        /\ b[w] \in Int /\ b[w] = n
    BY <1>1
  <1> HIDE DEF b
  <1>5. SumFunctionOnSet(b, Wallets) = SumFunctionOnSet(balance, Wallets) - balance[w] + b[w]
    BY <1>2, <1>3, <1>4, SumChange
  <1> QED BY <1>4, <1>5 DEF b

\* The statements that leave the balances alone change the curve by what they add to
\* the gap of the execution.
LEMMA AccountedMove ==
  ASSUME TypeOK, TypeOK', Accounted, NEW j \in Jobs, Same(j), balance' = balance,
         curve'.sold - curve.sold = Gap(job'[j]) - Gap(job[j])
  PROVE  Accounted'
  <1>1. SumFunctionOnSet(Gaps', Jobs)
           = SumFunctionOnSet(Gaps, Jobs) - Gap(job[j]) + Gap(job'[j])
    BY GapsChange
  <1>2. Gap(job[j]) \in Int /\ Gap(job'[j]) \in Int
    BY GapInt DEF TypeOK
  <1>3. curve'.sold \in Int
    BY CurveAssumption DEF TypeOK, Curve
  <1>4. Accounted' <=> curve'.sold - SumFunctionOnSet(balance', Wallets)
                        = SumFunctionOnSet(Gaps', Jobs)
    BY DEF Accounted
  <1> QED BY <1>1, <1>2, <1>3, <1>4, SumsAreInt DEF Accounted

\* The statements that move a balance close the gap by as much.
LEMMA AccountedSettle ==
  ASSUME TypeOK, TypeOK', Accounted, NEW j \in Jobs, Same(j), curve' = curve,
         NEW w \in Wallets, NEW n \in Int, balance' = [balance EXCEPT ![w] = balance[w] + n],
         Gap(job'[j]) = Gap(job[j]) - n
  PROVE  Accounted'
  <1>1. SumFunctionOnSet(Gaps', Jobs)
           = SumFunctionOnSet(Gaps, Jobs) - Gap(job[j]) + Gap(job'[j])
    BY GapsChange
  <1>2. balance[w] \in Int /\ balance[w] + n \in Int
    BY DEF TypeOK
  <1>3. SumFunctionOnSet(balance', Wallets)
           = SumFunctionOnSet(balance, Wallets) - balance[w] + (balance[w] + n)
    BY <1>2, BalancesChange
  <1>4. Gap(job[j]) \in Int /\ Gap(job'[j]) \in Int
    BY GapInt DEF TypeOK
  <1>5. Accounted' <=> curve'.sold - SumFunctionOnSet(balance', Wallets)
                        = SumFunctionOnSet(Gaps', Jobs)
    BY DEF Accounted
  <1> QED BY <1>1, <1>2, <1>3, <1>4, <1>5, SumsAreInt DEF Accounted

LEMMA AccountedRequest ==
  ASSUME TypeOK, TypeOK', Accounted, Request
  PROVE  Accounted'
  <1>1. UNCHANGED <<curve, balance>> /\ (UNCHANGED <<job, queue>> \/ \E j \in Jobs : Starts(j) \/ Waits(j))
    BY RequestShape
  <1>2. CASE UNCHANGED job
    BY <1>1, <1>2 DEF Accounted, Gaps
  <1>3. ASSUME NEW j \in Jobs, Starts(j) \/ Waits(j) PROVE Accounted'
    <2>1. Same(j) /\ Gap(job[j]) = 0 /\ Gap(job'[j]) = 0
      BY <1>3 DEF Starts, Waits, Gap
    <2>2. curve.sold \in Int
      BY SumsAreInt
    <2> QED BY <1>1, <2>1, <2>2, AccountedMove
  <1> QED BY <1>1, <1>2, <1>3

LEMMA AccountedQuote ==
  ASSUME TypeOK, TypeOK', Asked, Carried, Accounted, NEW j \in Jobs, Quote(j)
  PROVE  Accounted'
  <1>1. curve' = curve /\ balance' = balance /\ job[j].pc = "queued" /\ curve.sold \in Int
    BY SumsAreInt DEF Quote, BuyQuote, FirstQuote, SellQuote, UndoQuote, books
  <1>2. Gap(job[j]) = 0
    BY <1>1 DEF Gap
  <1>3. Same(j) /\ Gap(job'[j]) = 0
    <2>1. ASSUME EndAt(j, "over") PROVE Same(j) /\ Gap(job'[j]) = 0
      <3>1. /\ Same(j) /\ job'[j].pc = "over" /\ job'[j].kind = job[j].kind
            /\ job'[j].tokens = job[j].tokens
            /\ job'[j].read = job[j].read /\ job'[j].next = job[j].next
        BY <2>1, AtFacts
      <3>2. job[j].kind = "undo" => job[j].next.sold = job[j].read.sold /\ job[j].tokens = 0
        BY <1>1 DEF Carried, Carries
      <3>3. job[j].read.sold \in Int
        <4>1. job[j] \in Job
          BY DEF TypeOK
        <4>2. job[j].read \in Curve
          BY <4>1 DEF Job
        <4> QED BY <4>2, CurveAssumption DEF Curve
      <3>4. CASE job[j].kind = "undo"
        <4>1. job'[j].next.sold - job'[j].read.sold + job'[j].tokens = 0
          BY <3>1, <3>2, <3>3, <3>4
        <4> QED BY <3>1, <3>4, <4>1 DEF Gap
      <3>5. CASE job[j].kind # "undo"
        BY <3>1, <3>5 DEF Gap
      <3> QED BY <3>4, <3>5
    <2>2. ASSUME Same(j), job'[j].pc = "quoted" PROVE Same(j) /\ Gap(job'[j]) = 0
      BY <2>2 DEF Gap
    <2>3. CASE BuyQuote(j) \/ FirstQuote(j)
      BY <2>2, <2>3, QuotedFacts DEF BuyQuote, FirstQuote, BuyFrom
    <2>4. CASE SellQuote(j)
      BY <2>1, <2>2, <2>4, QuotedFacts DEF SellQuote
    <2>5. CASE UndoQuote(j)
      <3>1. CASE orders[job[j].order].status = "FILLED" /\ orders[job[j].order].side = "BUY"
        BY <2>2, <2>5, <3>1, UndoFacts
      <3> QED BY <2>1, <2>5, <3>1 DEF UndoQuote
    <2> QED BY <2>3, <2>4, <2>5 DEF Quote
  <1> QED BY <1>1, <1>2, <1>3, AccountedMove

LEMMA AccountedWrite ==
  ASSUME FirstFresh, TypeOK, TypeOK', Queue, Asked, Carried, ReadFresh, Accounted,
         NEW j \in Jobs, Write(j) \/ Throws(j)
  PROVE  Accounted'
  <1> USE DEF books, chain
  <1>1. PICK pc : At(j, pc) \/ EndAt(j, pc)
    BY WriteShape
  <1>2. /\ Same(j) /\ job'[j].pc = pc /\ job'[j].kind = job[j].kind
        /\ job'[j].wallet = job[j].wallet /\ job'[j].tokens = job[j].tokens
        /\ job'[j].read = job[j].read /\ job'[j].next = job[j].next
    BY <1>1, AtFacts
  <1>3. /\ job[j] \in Job /\ job[j].tokens \in Nat
        /\ job[j].next \in Curve /\ job[j].read \in Curve /\ job[j].kind \in Kinds \cup {"none"}
    BY DEF TypeOK, Job
  <1>4. /\ job[j].next.sold \in Int /\ job[j].read.sold \in Int /\ curve.sold \in Int
    BY <1>3, SumsAreInt, CurveAssumption DEF Curve
  <1>5. Holds(j)
    BY WriteShape
  <1>6. job[j].kind \in {"buy", "repeat", "first", "sell", "undo"}
    <2>1. AskedBy(j) /\ job[j].kind # "none"
      BY <1>5, HeadFacts DEF Asked
    <2> QED BY <1>3, <2>1, KindsAssumption
  <1>7. Carries(job[j])
    BY DEF Carried
  \* A statement that touches neither, and does not change what is still to be done.
  <1>q. ASSUME curve' = curve, balance' = balance, Gap(job'[j]) = Gap(job[j])
        PROVE  Accounted'
    <2>1. Gap(job[j]) \in Int
      BY <1>3, GapInt
    <2> QED BY <1>2, <1>4, <1>q, <2>1, AccountedMove
  <1>8. CASE Throws(j)
    <2>1. curve' = curve /\ balance' = balance /\ job'[j].pc = job[j].pc
      BY <1>8, AtFacts DEF Throws
    <2>2. Gap(job'[j]) = Gap(job[j])
      BY <1>2, <2>1 DEF Gap
    <2> QED BY <1>q, <2>1, <2>2
  <1>9. CASE SendPayout(j) \/ SendPayoutUnanswered(j)
    <2>1. /\ curve' = curve /\ balance' = balance
          /\ job[j].pc = "quoted" /\ job'[j].pc = "sent"
      BY <1>9, AtFacts DEF SendPayout, SendPayoutUnanswered
    <2>2. Gap(job'[j]) = Gap(job[j])
      BY <1>2, <2>1 DEF Gap
    <2> QED BY <1>q, <2>1, <2>2
  <1>10. CASE MoveCurve(j)
    <2>1. /\ curve' = job[j].next /\ balance' = balance /\ job'[j].pc = "moved"
          /\ job[j].pc \in {"quoted", "sent"}
          /\ job[j].pc = "quoted" \/ job[j].kind = "sell"
      BY <1>10, AtFacts DEF MoveCurve
    <2>2. job[j].read = curve
      BY <1>5, <2>1, HeadFresh
    <2>3. Gap(job[j]) = 0 /\ Gap(job'[j]) = job[j].next.sold - job[j].read.sold
      BY <1>2, <2>1 DEF Gap
    <2>4. curve'.sold - curve.sold = Gap(job'[j]) - Gap(job[j])
      BY <1>4, <2>1, <2>2, <2>3
    <2> QED BY <1>2, <2>1, <2>4, AccountedMove
  <1>11. CASE Credit(j)
    <2>1. /\ curve' = curve /\ job[j].pc = "moved" /\ job'[j].pc = "settled"
          /\ job[j].kind \in {"buy", "repeat", "first"}
          /\ balance' = [balance EXCEPT ![job[j].wallet] = balance[job[j].wallet] + job[j].tokens]
      BY <1>3, <1>11, AtFacts DEF Credit
    <2>2. job[j].wallet \in Wallets /\ job[j].next.sold - job[j].read.sold = job[j].tokens
      BY <1>7, <2>1 DEF Carries, Buying
    <2>3. Gap(job[j]) = job[j].tokens /\ Gap(job'[j]) = 0
      BY <1>2, <2>1, <2>2 DEF Gap
    <2>4. Gap(job'[j]) = Gap(job[j]) - job[j].tokens
      BY <1>3, <2>3
    <2> DEFINE n == job[j].tokens
               w == job[j].wallet
    <2>5. n \in Int /\ w \in Wallets /\ balance' = [balance EXCEPT ![w] = balance[w] + n]
          /\ Gap(job'[j]) = Gap(job[j]) - n
      BY <1>3, <2>1, <2>2, <2>4
    <2> HIDE DEF n, w
    <2> QED BY <1>2, <2>1, <2>5, AccountedSettle
  <1>12. CASE Debit(j)
    <2> DEFINE n == -job[j].tokens
               w == job[j].wallet
    <2>1. /\ curve' = curve /\ job[j].pc = "moved" /\ job'[j].pc = "settled"
          /\ job[j].kind \in {"sell", "undo"}
          /\ balance' = [balance EXCEPT ![w] = balance[w] - job[j].tokens]
      BY <1>12, AtFacts DEF Debit
    <2>2. w \in Wallets
      BY <1>7, <2>1 DEF Carries, Asked, AskedBy
    <2>3. balance[w] - job[j].tokens = balance[w] + n /\ n \in Int
      BY <1>3, <2>2 DEF TypeOK
    <2>4. CASE job[j].kind = "sell"
      <3>1. job[j].next.sold - job[j].read.sold = n
        BY <1>3, <1>4, <1>7, <2>1, <2>4 DEF Carries
      <3>2. Gap(job[j]) = n /\ Gap(job'[j]) = 0
        BY <1>2, <2>1, <2>4, <3>1 DEF Gap
      <3>3. Gap(job'[j]) = Gap(job[j]) - n
        BY <2>3, <3>2
      <3>4. balance' = [balance EXCEPT ![w] = balance[w] + n]
        BY <2>1, <2>3
      <3> HIDE DEF n, w
      <3> QED BY <1>2, <2>1, <2>2, <2>3, <3>3, <3>4, AccountedSettle
    <2>5. CASE job[j].kind = "undo"
      <3>1. Gap(job[j]) = job[j].next.sold - job[j].read.sold
            /\ Gap(job'[j]) = job[j].next.sold - job[j].read.sold + job[j].tokens
        BY <1>2, <2>1, <2>5 DEF Gap
      <3>2. Gap(job'[j]) = Gap(job[j]) - n
        BY <1>3, <1>4, <3>1
      <3>3. balance' = [balance EXCEPT ![w] = balance[w] + n]
        BY <2>1, <2>3
      <3> HIDE DEF n, w
      <3> QED BY <1>2, <2>1, <2>2, <2>3, <3>2, <3>3, AccountedSettle
    <2> QED BY <2>1, <2>4, <2>5
  <1>13. CASE DebitFails(j)
    <2>1. /\ curve' = curve /\ balance' = balance /\ job[j].pc = "moved"
          /\ job'[j].pc \in {"moved", "short"}
      BY <1>13, AtFacts DEF DebitFails
    <2>2. Gap(job'[j]) = Gap(job[j])
      BY <1>2, <2>1 DEF Gap
    <2> QED BY <1>q, <2>1, <2>2
  <1>14. CASE Accrue(j) \/ FillOrder(j) \/ \E o \in Orders : NewOrder(j, o)
    <2>1. /\ curve' = curve /\ balance' = balance /\ job[j].kind # "undo"
          /\ job[j].pc \in {"settled", "accrued"} /\ job'[j].pc \in {"accrued", "over"}
      BY <1>14, AtFacts DEF Accrue, FillOrder, NewOrder
    <2>2. Gap(job[j]) = 0 /\ Gap(job'[j]) = 0
      BY <1>2, <2>1 DEF Gap
    <2> QED BY <1>q, <2>1, <2>2
  <1>15. CASE DeleteOrder(j)
    <2>1. /\ curve' = curve /\ balance' = balance /\ job[j].kind = "undo"
          /\ job[j].pc \in {"settled", "short"}
          /\ job'[j].pc = (IF job[j].pc = "short" THEN "short" ELSE "over")
      BY <1>15, AtFacts DEF DeleteOrder
    <2>2. Gap(job'[j]) = Gap(job[j])
      BY <1>2, <2>1 DEF Gap
    <2> QED BY <1>q, <2>1, <2>2
  <1> QED BY <1>8, <1>9, <1>10, <1>11, <1>12, <1>13, <1>14, <1>15 DEF Write

BooksInv == IInv /\ RowsOwned /\ Carried /\ Accounted

LEMMA BooksInit == Init => BooksInv
  <1> SUFFICES ASSUME Init PROVE BooksInv
    OBVIOUS
  <1>1. IInv
    BY InitInv
  <1>2. RowsOwned
    BY DEF Init, RowsOwned, NoRow
  <1>3. Carried
    BY DEF Init, Carried, Carries, Buying, IdleJob
  <1>4. curve.sold = 0 /\ (\A j \in Jobs : Gaps[j] = 0) /\ (\A w \in Wallets : balance[w] = 0)
    BY DEF Init, EmptyCurve, Gaps, Gap, IdleJob
  <1>5. SumFunctionOnSet(Gaps, Jobs) = 0 /\ SumFunctionOnSet(balance, Wallets) = 0
    BY <1>4, SumZero, FiniteAssumption
  <1> QED BY <1>1, <1>2, <1>3, <1>4, <1>5 DEF BooksInv, Accounted

LEMMA BooksStep ==
  ASSUME FirstFresh, BooksInv, [Next]_vars
  PROVE  BooksInv'
  <1>1. IInv' /\ TypeOK /\ TypeOK'
    BY InductiveStep DEF BooksInv, IInv
  <1>2. RowsOwned' /\ Carried'
    BY RowsOwnedStep, CarriedStep DEF BooksInv, IInv
  <1>3. Accounted'
    <2>1. CASE Request
      BY <1>1, <2>1, AccountedRequest DEF BooksInv
    <2>2. ASSUME NEW j \in Jobs, Advance(j) PROVE Accounted'
      BY <1>1, <2>2, AccountedQuote, AccountedWrite DEF BooksInv, IInv, Advance
    <2>3. CASE Crash \/ UNCHANGED vars
      BY <2>3 DEF Crash, vars, books, BooksInv, Accounted, Gaps
    <2> QED BY <2>1, <2>2, <2>3 DEF Next
  <1> QED BY <1>1, <1>2, <1>3 DEF BooksInv

\* The balances of a token and its curve never drift: they differ by what executions
\* that stand or were cut between their two writes have moved, and by what a reversal
\* could not take out of the curve.  The exception is a first buy, which reads the
\* token before the lock, when a trade has come between (server.ts 747-1262).
THEOREM FreshTokensAccounted == Spec /\ []FirstFresh => []TokensAccounted
  <1>1. Init => BooksInv
    BY BooksInit
  <1>2. FirstFresh /\ BooksInv /\ [Next]_vars => BooksInv'
    BY BooksStep
  <1>3. BooksInv => TokensAccounted
    BY UnsettledIsGap, IssuedIs DEF BooksInv, IInv, Accounted, TokensAccounted
  <1> QED BY <1>1, <1>2, <1>3, PTL DEF Spec

\* A token that was created without a first buy never drifts (server.ts 792-1262).
THEOREM TokensAlwaysAccounted ==
  ASSUME "first" \notin Kinds
  PROVE  Spec => []TokensAccounted
  <1>1. IInv => FirstFresh
    BY NoFirstNoStale
  <1> QED BY <1>1, FreshTokensAccounted, InductiveInvariant, PTL

-----------------------------------------------------------------------------
(* The orders of the buys that are under way.                              *)

\* A buy that waits for the lock or holds it was started by this process, and its
\* order is pending and paid with what it carries.
Live(k) ==
  /\ job[k].born = crashes
  /\ orders[job[k].order].status = "PENDING"
  /\ paid[job[k].order] = job[k].zec
LiveBuys == \A k \in Jobs : Queued(k) /\ job[k].kind = "buy" => Live(k)

\* One process books an order once.
OneRun == \A j, k \in Jobs :
  job[j].kind = "buy" /\ job[k].kind = "buy" /\ job[j].order = job[k].order
  /\ job[j].born = job[k].born => j = k

\* What is being reversed is filled.
UndoneFilled == \A j \in Jobs :
  Holds(j) /\ job[j].kind = "undo" /\ job[j].pc \in Started
  => orders[job[j].order].status = "FILLED"

UnplacedUnpaid == \A o \in Orders : orders[o].status = "NONE" => paid[o] = 0

\* A first buy comes before anything has moved the curve.
FirstOnEmpty ==
  /\ \A j \in Jobs : job[j].kind = "first" => job[j].read.reserve = 0
  /\ \A j \in Jobs : job[j].pc = "created" => job[j].kind = "first"
  /\ (\A j \in Jobs : job[j].pc = "idle") => curve.reserve = 0

OrdersInv == LiveBuys /\ OneRun /\ UndoneFilled /\ UnplacedUnpaid /\ FirstOnEmpty

LEMMA HeadQueued ==
  ASSUME TypeOK, NEW j \in Jobs, Holds(j)
  PROVE  Queued(j)
  <1>1. queue \in Seq(Jobs) /\ queue # <<>> /\ j = Head(queue)
    BY DEF TypeOK, Holds
  <1>2. 1 \in DOMAIN queue /\ queue[1] = j
    BY <1>1
  <1> QED BY <1>2 DEF Queued

LEMMA QueuedStarts ==
  ASSUME TypeOK, NEW j \in Jobs, Starts(j), NEW k \in Jobs, Queued(k)'
  PROVE  Queued(k) \/ k = j
  <1>1. queue \in Seq(Jobs) /\ queue' = Append(queue, j)
    BY DEF TypeOK, Starts
  <1>2. PICK i \in DOMAIN queue' : queue'[i] = k
    BY DEF Queued
  <1>3. (i \in DOMAIN queue /\ queue'[i] = queue[i]) \/ queue'[i] = j
    BY <1>1
  <1> QED BY <1>2, <1>3 DEF Queued

LEMMA QueuedEnds ==
  ASSUME TypeOK, Queue, NEW j \in Jobs, Ends(j), NEW k \in Jobs, Queued(k)'
  PROVE  Queued(k) /\ k # j
  <1>1. queue \in Seq(Jobs) /\ queue # <<>> /\ queue' = Tail(queue) /\ j = queue[1]
        /\ Len(queue) \in Nat /\ Len(queue) >= 1
    BY HeadFacts DEF Ends
  <1>2. PICK i \in DOMAIN queue' : queue'[i] = k
    BY DEF Queued
  <1>3. i + 1 \in 1..Len(queue) /\ queue[i + 1] = k /\ i + 1 # 1 /\ 1 \in 1..Len(queue)
    BY <1>1, <1>2
  <1>4. k # j
    BY <1>1, <1>3 DEF Queue
  <1>5. i + 1 \in DOMAIN queue
    BY <1>1, <1>3
  <1> QED BY <1>3, <1>4, <1>5 DEF Queued

LEMMA QueuedAdvance ==
  ASSUME TypeOK, Queue, Asked, NEW j \in Jobs, Advance(j), NEW k \in Jobs, Queued(k)'
  PROVE  Queued(k) /\ (k = j => Moves(j))
  <1>1. CASE Moves(j)
    BY <1>1 DEF Moves, Queued
  <1>2. CASE Ends(j)
    BY <1>2, QueuedEnds
  <1> QED BY <1>1, <1>2, AdvanceShape

\* What a step of an execution keeps of its variables.
LEMMA AdvanceKeeps ==
  ASSUME TypeOK, Queue, Asked, NEW j \in Jobs, Advance(j)
  PROVE  /\ Same(j) /\ Holds(j) /\ job'[j].kind = job[j].kind /\ job'[j].order = job[j].order
         /\ job'[j].born = job[j].born
         /\ job[j].kind # "undo" => job'[j].zec = job[j].zec
         /\ job'[j].pc \notin {"idle", "created"} /\ crashes' = crashes /\ paid' = paid
         /\ job[j].kind = "first" => job'[j].read = job[j].read
  <1> USE DEF chain
  <1>0. job \in [Jobs -> Job] /\ job[j] \in Job
    BY DEF TypeOK
  <1>1. ASSUME NEW pc, At(j, pc) \/ EndAt(j, pc)
        PROVE  /\ Same(j) /\ job'[j].kind = job[j].kind /\ job'[j].order = job[j].order
               /\ job'[j].born = job[j].born /\ job'[j].zec = job[j].zec
               /\ job'[j].pc = pc /\ job'[j].read = job[j].read
    BY <1>1, AtFacts
  <1>2. CASE BuyQuote(j)
    BY <1>2, QuotedFacts DEF BuyQuote, BuyFrom
  <1>3. CASE FirstQuote(j)
    BY <1>3, QuotedFacts DEF FirstQuote, BuyFrom
  <1>4. CASE SellQuote(j)
    <2>1. CASE Sellable(job[j].wallet, job[j].tokens)
      BY <1>4, <2>1, QuotedFacts DEF SellQuote
    <2>2. CASE ~Sellable(job[j].wallet, job[j].tokens)
      <3>1. EndAt(j, "over")
        BY <1>4, <2>2 DEF SellQuote
      <3> QED BY <1>1, <1>4, <3>1 DEF SellQuote
    <2> QED BY <2>1, <2>2
  <1>5. CASE UndoQuote(j)
    <2>1. CASE orders[job[j].order].status = "FILLED" /\ orders[job[j].order].side = "BUY"
      <3>1. job'[j].born = job[j].born
        BY <1>0, <1>5, <2>1 DEF UndoQuote, Job
      <3> QED BY <1>5, <2>1, <3>1, UndoFacts DEF UndoQuote
    <2>2. CASE ~(orders[job[j].order].status = "FILLED" /\ orders[job[j].order].side = "BUY")
      <3>1. EndAt(j, "over")
        BY <1>5, <2>2 DEF UndoQuote
      <3> QED BY <1>1, <1>5, <3>1 DEF UndoQuote
    <2> QED BY <2>1, <2>2
  <1>6. CASE Throws(j)
    <2>1. job[j].pc \notin {"idle", "created"}
      BY <1>6, HeadFacts DEF Throws, Started
    <2> QED BY <1>1, <1>6, <2>1 DEF Throws
  <1>7. CASE Write(j)
    <2>1. PICK pc \in {"sent", "moved", "settled", "short", "accrued", "over"} :
            At(j, pc) \/ EndAt(j, pc)
      BY <1>7 DEF Write, SendPayout, SendPayoutUnanswered, MoveCurve, Credit, Debit, DebitFails,
                  Accrue, FillOrder, NewOrder, DeleteOrder
    <2>2. Holds(j) /\ crashes' = crashes /\ paid' = paid
      BY <1>7 DEF Write, SendPayout, SendPayoutUnanswered, MoveCurve, Credit, Debit, DebitFails,
                  Accrue, FillOrder, NewOrder, DeleteOrder
    <2> QED BY <1>1, <2>1, <2>2
  <1> QED BY <1>2, <1>3, <1>4, <1>5, <1>6, <1>7 DEF Advance, Quote

\* What a step of an execution does to the orders.
LEMMA AdvanceOrders ==
  ASSUME TypeOK, Queue, Asked, OrdersInv, NEW j \in Jobs, Advance(j)
  PROVE  \/ orders' = orders
         \/ /\ Ends(j) /\ job[j].kind = "buy" /\ job[j].order \in Orders
            /\ orders[job[j].order].status = "PENDING"
            /\ orders'[job[j].order].status = "FAILED" \/ FillOrder(j)
            /\ orders'[job[j].order].status \in {"FAILED", "FILLED"}
            /\ \A o \in Orders : o # job[j].order => orders'[o] = orders[o]
         \/ \E x \in Orders : NewOrder(j, x)
         \/ /\ DeleteOrder(j) /\ Ends(j) /\ job[j].order \in Orders
            /\ orders[job[j].order].status = "FILLED"
            /\ orders'[job[j].order].status = "DELETED"
            /\ \A o \in Orders : o # job[j].order => orders'[o] = orders[o]
  <1> USE DEF books
  <1>0. orders \in [Orders -> Order] /\ (job[j].kind \in {"buy", "undo"} => job[j].order \in Orders)
    BY DEF TypeOK, Asked, AskedBy
  <1>1. CASE Quote(j)
    BY <1>1 DEF Quote, BuyQuote, FirstQuote, SellQuote, UndoQuote
  <1>e. ASSUME NEW pc, Holds(j), EndAt(j, pc) PROVE Ends(j)
    BY <1>e, AtFacts DEF EndAt, Passed, Ends
  <1>p. ASSUME Holds(j), job[j].kind = "buy" PROVE orders[job[j].order].status = "PENDING"
    BY <1>p, HeadQueued DEF OrdersInv, LiveBuys, Live
  <1>2. CASE FillOrder(j)
    <2>1. Holds(j) /\ job[j].kind = "buy" /\ EndAt(j, "over")
      BY <1>2 DEF FillOrder
    <2>2. /\ orders'[job[j].order].status = "FILLED"
          /\ \A o \in Orders : o # job[j].order => orders'[o] = orders[o]
      BY <1>0, <1>2, <2>1 DEF FillOrder, Order
    <2> QED BY <1>0, <1>2, <1>e, <1>p, <2>1, <2>2
  <1>3. CASE DeleteOrder(j)
    <2>1. /\ Holds(j) /\ job[j].kind = "undo" /\ job[j].pc \in {"settled", "short"}
          /\ \E pc \in {"short", "over"} : EndAt(j, pc)
      BY <1>3 DEF DeleteOrder
    <2>2. /\ orders'[job[j].order].status = "DELETED"
          /\ \A o \in Orders : o # job[j].order => orders'[o] = orders[o]
      BY <1>0, <1>3, <2>1 DEF DeleteOrder, Order
    <2>3. orders[job[j].order].status = "FILLED"
      BY <2>1 DEF OrdersInv, UndoneFilled, Started
    <2> QED BY <1>0, <1>3, <1>e, <2>1, <2>2, <2>3
  <1>4. CASE Throws(j)
    <2>1. CASE job[j].kind = "buy" /\ orders' = [orders EXCEPT ![job[j].order].status = "FAILED"]
      <3>1. /\ orders'[job[j].order].status = "FAILED"
            /\ \A o \in Orders : o # job[j].order => orders'[o] = orders[o]
        BY <1>0, <2>1 DEF Order
      <3>2. Holds(j) /\ EndAt(j, job[j].pc)
        BY <1>4 DEF Throws
      <3> QED BY <1>0, <1>e, <1>p, <2>1, <3>1, <3>2
    <2> QED BY <1>4, <2>1 DEF Throws
  <1>5. CASE Write(j) /\ ~FillOrder(j) /\ ~DeleteOrder(j)
    BY <1>5 DEF Write, SendPayout, SendPayoutUnanswered, MoveCurve, Credit, Debit, DebitFails,
                Accrue
  <1> QED BY <1>1, <1>2, <1>3, <1>4, <1>5 DEF Advance

LEMMA OrdersInit == Init => OrdersInv
  <1> SUFFICES ASSUME Init PROVE OrdersInv
    OBVIOUS
  <1>1. \A j \in Jobs : job[j].kind = "none" /\ job[j].pc = "idle"
    BY DEF Init, IdleJob
  <1>2. curve.reserve = 0 /\ \A o \in Orders : paid[o] = 0
    BY DEF Init, EmptyCurve
  <1>3. LiveBuys
    BY <1>1 DEF LiveBuys
  <1> QED BY <1>1, <1>2, <1>3 DEF OrdersInv, OneRun, UndoneFilled, UnplacedUnpaid,
             FirstOnEmpty

\* What a request does to the orders, the payments and the executions.
LEMMA RequestOrders ==
  ASSUME TypeOK, Queue, Asked, OrdersInv, Request
  PROVE  /\ \A o \in Orders : orders[o].status # "NONE" => orders'[o] = orders[o]
         /\ crashes' = crashes
         /\ \/ UNCHANGED <<job, queue, paid>>
            \/ /\ UNCHANGED orders
               /\ \E j \in Jobs :
                    /\ Starts(j) \/ Waits(j)
                    /\ job'[j].pc = "created" => job'[j].kind = "first"
                    /\ \/ /\ job'[j].kind = "buy" /\ job'[j].born = crashes
                          /\ job'[j].order \in Orders /\ OriginalRun(job'[j].order) = {}
                          /\ orders[job'[j].order].status = "PENDING"
                          /\ paid' = [paid EXCEPT ![job'[j].order] = job'[j].zec]
                       \/ /\ paid' = paid /\ job'[j].kind # "buy"
                          /\ job'[j].kind = "first" => job'[j].read.reserve = 0
  <1> USE DEF books, chain
  <1>0. job \in [Jobs -> Job] /\ orders \in [Orders -> Order]
    BY DEF TypeOK
  <1>1. ASSUME NEW o \in Orders, NEW w \in Wallets, NEW z \in Payments, PlaceOrder(o, w, z)
        PROVE  /\ \A r \in Orders : orders[r].status # "NONE" => orders'[r] = orders[r]
               /\ crashes' = crashes /\ UNCHANGED <<job, queue, paid>>
    BY <1>0, <1>1 DEF PlaceOrder
  <1>2. ASSUME NEW j \in Jobs, NEW o \in Orders, NEW z \in Payments, BuyPaid(j, o, z)
        PROVE  /\ Starts(j) /\ job'[j].kind = "buy" /\ job'[j].born = crashes
               /\ job'[j].order \in Orders /\ OriginalRun(job'[j].order) = {}
               /\ orders[job'[j].order].status = "PENDING" /\ UNCHANGED <<orders, crashes>>
               /\ paid' = [paid EXCEPT ![job'[j].order] = job'[j].zec]
    <2>1. Starts(j) /\ job'[j].kind = "buy" /\ job'[j].born = crashes /\ job'[j].order = o
          /\ job'[j].zec = z
      BY <1>2, EnqueueFacts DEF BuyPaid
    <2> QED BY <1>2, <2>1 DEF BuyPaid
  <1>3. ASSUME NEW j \in Jobs, NEW o \in Orders, NEW z \in Payments, BuyPaidAgain(j, o, z)
        PROVE  Starts(j) /\ job'[j].kind = "repeat" /\ UNCHANGED <<orders, crashes, paid>>
    BY <1>3, EnqueueFacts DEF BuyPaidAgain
  <1>4. ASSUME NEW j \in Jobs, NEW w \in Wallets, NEW z \in Payments, FirstBuyPaid(j, w, z)
        PROVE  /\ Waits(j) /\ UNCHANGED <<orders, crashes, paid>> /\ job'[j].kind = "first"
               /\ job'[j].read.reserve = 0
    <2>1. \A k \in Jobs : job[k].pc = "idle"
      BY <1>4 DEF FirstBuyPaid, IdleJob
    <2>2. curve.reserve = 0
      BY <2>1 DEF OrdersInv, FirstOnEmpty
    <2>3. job'[j].kind = "first" /\ job'[j].read = curve /\ job'[j].pc = "created" /\ Same(j)
      BY <1>0, <1>4 DEF FirstBuyPaid, IdleJob, Same
    <2> QED BY <1>4, <2>1, <2>2, <2>3 DEF FirstBuyPaid, Waits
  <1>5. ASSUME NEW j \in Jobs, FirstBuyQueues(j)
        PROVE  /\ Starts(j) /\ UNCHANGED <<orders, crashes, paid>>
               /\ job'[j].kind = "first" /\ job'[j].read.reserve = 0
    <2>1. job[j].pc = "created" /\ job[j].kind = "first" /\ job[j].read.reserve = 0
      BY <1>5 DEF FirstBuyQueues, OrdersInv, FirstOnEmpty
    <2>2. job'[j].kind = "first" /\ job'[j].read = job[j].read
      BY <1>0, <1>5, <2>1 DEF FirstBuyQueues, Job
    <2> QED BY <1>0, <1>5, <2>1, <2>2 DEF FirstBuyQueues, Starts, Same, Appended, Job
  <1>6. ASSUME NEW j \in Jobs, NEW w \in Wallets, NEW t \in Sales, SellAsked(j, w, t)
        PROVE  Starts(j) /\ job'[j].kind = "sell" /\ UNCHANGED <<orders, crashes, paid>>
    BY <1>6, EnqueueFacts DEF SellAsked
  <1>7. ASSUME NEW j \in Jobs, NEW o \in Orders, UndoAsked(j, o)
        PROVE  Starts(j) /\ job'[j].kind = "undo" /\ UNCHANGED <<orders, crashes, paid>>
    BY <1>7, EnqueueFacts DEF UndoAsked
  <1>8. \A j \in Jobs : Starts(j) => job'[j].pc # "created"
    BY DEF Starts
  <1> QED BY <1>1, <1>2, <1>3, <1>4, <1>5, <1>6, <1>7, <1>8 DEF Request

LEMMA LiveBuysStep ==
  ASSUME TypeOK, Queue, Asked, OrdersInv, [Next]_vars
  PROVE  LiveBuys'
  <1> SUFFICES ASSUME NEW k \in Jobs, Queued(k)', job'[k].kind = "buy"
               PROVE  Live(k)'
    BY DEF LiveBuys
  <1>s. ASSUME Queued(k), job'[k].kind = job[k].kind, job'[k].order = job[k].order,
               job'[k].zec = job[k].zec, job'[k].born = job[k].born, crashes' = crashes,
               orders'[job[k].order].status = orders[job[k].order].status,
               paid'[job[k].order] = paid[job[k].order]
        PROVE  Live(k)'
    BY <1>s DEF OrdersInv, LiveBuys, Live
  <1>1. CASE Request
    <2>1. /\ \A o \in Orders : orders[o].status # "NONE" => orders'[o] = orders[o]
          /\ crashes' = crashes
      BY <1>1, RequestOrders
    <2>2. ASSUME Queued(k), job'[k] = job[k], paid'[job[k].order] = paid[job[k].order]
          PROVE  Live(k)'
      <3>1. job[k].order \in Orders /\ orders[job[k].order].status # "NONE"
        BY <2>2 DEF Asked, AskedBy
      <3> QED BY <1>s, <2>1, <2>2, <3>1
    <2>3. CASE UNCHANGED <<job, queue, paid>>
      BY <2>2, <2>3 DEF Queued
    <2>4. ASSUME NEW j \in Jobs, Starts(j) \/ Waits(j), UNCHANGED orders,
                 \/ /\ job'[j].kind = "buy" /\ job'[j].born = crashes
                    /\ job'[j].order \in Orders /\ OriginalRun(job'[j].order) = {}
                    /\ orders[job'[j].order].status = "PENDING"
                    /\ paid' = [paid EXCEPT ![job'[j].order] = job'[j].zec]
                 \/ paid' = paid /\ job'[j].kind # "buy"
          PROVE  Live(k)'
      <3>1. CASE k = j
        <4>1. paid'[job'[j].order] = job'[j].zec
          BY <2>4, <3>1 DEF TypeOK
        <4> QED BY <2>1, <2>4, <3>1, <4>1 DEF Live
      <3>2. CASE k # j
        <4>1. job'[k] = job[k] /\ Queued(k)
          BY <2>4, <3>2, QueuedStarts DEF Starts, Waits, Same, Queued
        <4>2. job[k].born = crashes /\ job[k].kind = "buy"
          BY <4>1 DEF OrdersInv, LiveBuys, Live
        <4>3. paid'[job[k].order] = paid[job[k].order]
          <5>1. CASE paid' = paid
            BY <5>1
          <5>2. CASE /\ OriginalRun(job'[j].order) = {}
                     /\ paid' = [paid EXCEPT ![job'[j].order] = job'[j].zec]
            <6>1. k \in OriginalRun(job[k].order)
              BY <4>2 DEF OriginalRun
            <6>2. job[k].order # job'[j].order
              BY <5>2, <6>1
            <6>3. job[k].order \in Orders
              BY <4>2 DEF Asked, AskedBy
            <6> QED BY <5>2, <6>2, <6>3 DEF TypeOK
          <5> QED BY <2>4, <5>1, <5>2
        <4> QED BY <2>2, <4>1, <4>3
      <3> QED BY <3>1, <3>2
    <2> QED BY <1>1, <2>3, <2>4, RequestOrders
  <1>2. ASSUME NEW j \in Jobs, Advance(j) PROVE Live(k)'
    <2>1. /\ Same(j) /\ Holds(j) /\ job'[j].kind = job[j].kind /\ job'[j].order = job[j].order
          /\ job'[j].born = job[j].born
          /\ job[j].kind # "undo" => job'[j].zec = job[j].zec
          /\ crashes' = crashes /\ paid' = paid
      BY <1>2, AdvanceKeeps
    <2>2. Queued(k) /\ (k = j => Moves(j))
      BY <1>2, QueuedAdvance
    <2>3. /\ job'[k].kind = job[k].kind /\ job'[k].order = job[k].order
          /\ job'[k].zec = job[k].zec /\ job'[k].born = job[k].born
          /\ job[k].kind = "buy"
      BY <2>1 DEF Same
    <2>4. /\ job[k].order \in Orders /\ orders[job[k].order].status = "PENDING"
          /\ job[k].born = crashes
      BY <2>2, <2>3 DEF OrdersInv, LiveBuys, Live, Asked, AskedBy
    <2>5. orders'[job[k].order].status = orders[job[k].order].status
      <3>1. CASE orders' = orders
        BY <3>1
      <3>2. CASE /\ Ends(j) /\ job[j].kind = "buy"
                 /\ \A o \in Orders : o # job[j].order => orders'[o] = orders[o]
        <4>1. Queued(k) /\ k # j
          BY <3>2, QueuedEnds
        <4>2. job[j].born = crashes
          BY <2>1, <3>2, HeadQueued DEF OrdersInv, LiveBuys, Live
        <4>3. job[k].order # job[j].order
          BY <2>3, <2>4, <3>2, <4>1, <4>2 DEF OrdersInv, OneRun
        <4> QED BY <2>4, <3>2, <4>3
      <3>3. ASSUME NEW x \in Orders, NewOrder(j, x)
            PROVE  orders'[job[k].order].status = orders[job[k].order].status
        BY <2>4, <3>3 DEF NewOrder, TypeOK
      <3>4. CASE /\ orders[job[j].order].status = "FILLED"
                 /\ \A o \in Orders : o # job[j].order => orders'[o] = orders[o]
        BY <2>4, <3>4
      <3> QED BY <1>2, <3>1, <3>2, <3>3, <3>4, AdvanceOrders
    <2> QED BY <1>s, <2>1, <2>2, <2>3, <2>5
  <1>3. CASE Crash
    BY <1>3 DEF Crash, Queued
  <1>4. CASE UNCHANGED vars
    BY <1>4, <1>s DEF vars, books, chain, Queued
  <1> QED BY <1>1, <1>2, <1>3, <1>4 DEF Next

LEMMA OneRunStep ==
  ASSUME TypeOK, Queue, Asked, OrdersInv, [Next]_vars
  PROVE  OneRun'
  <1>s. ASSUME \A k \in Jobs : /\ job'[k].kind = job[k].kind /\ job'[k].order = job[k].order
                               /\ job'[k].born = job[k].born
        PROVE  OneRun'
    BY <1>s DEF OrdersInv, OneRun
  <1>1. CASE Request
    <2>1. CASE UNCHANGED job
      BY <1>s, <2>1
    <2>2. ASSUME NEW j \in Jobs, Same(j), job'[j].kind = "buy", job'[j].born = crashes,
                 OriginalRun(job'[j].order) = {}
          PROVE  OneRun'
      <3>1. \A k \in Jobs : ~(job[k].kind = "buy" /\ job[k].order = job'[j].order
                              /\ job[k].born = crashes)
        BY <2>2 DEF OriginalRun
      <3> QED BY <2>2, <3>1 DEF Same, OrdersInv, OneRun
    <2>3. ASSUME NEW j \in Jobs, Same(j), job'[j].kind # "buy"
          PROVE  OneRun'
      BY <2>3 DEF Same, OrdersInv, OneRun
    <2> QED BY <1>1, <2>1, <2>2, <2>3, RequestOrders DEF Starts, Waits
  <1>2. ASSUME NEW j \in Jobs, Advance(j) PROVE OneRun'
    BY <1>s, <1>2, AdvanceKeeps DEF Same
  <1>3. CASE Crash \/ UNCHANGED vars
    BY <1>s, <1>3 DEF Crash, vars
  <1> QED BY <1>1, <1>2, <1>3 DEF Next

LEMMA UndoneFilledStep ==
  ASSUME TypeOK, Queue, Asked, OrdersInv, [Next]_vars
  PROVE  UndoneFilled'
  <1> SUFFICES ASSUME NEW k \in Jobs, Holds(k)', job'[k].kind = "undo", job'[k].pc \in Started
               PROVE  orders'[job'[k].order].status = "FILLED"
    BY DEF UndoneFilled
  <1>0. job'[k].pc # "queued"
    BY DEF Started
  <1>1. CASE Request
    <2>1. Holds(k) /\ job'[k] = job[k]
      BY <1>0, <1>1, HeadStays
    <2>2. orders[job[k].order].status = "FILLED" /\ job[k].order \in Orders
      BY <2>1 DEF OrdersInv, UndoneFilled, Asked, AskedBy
    <2> QED BY <1>1, <2>1, <2>2, RequestOrders
  <1>2. ASSUME NEW j \in Jobs, Advance(j) PROVE orders'[job'[k].order].status = "FILLED"
    <2>1. k = j /\ Holds(j) /\ queue' = queue
      BY <1>0, <1>2, HeadMoves
    <2>2. job[j].kind = "undo" /\ job'[j].order = job[j].order
      BY <1>2, <2>1, AdvanceKeeps
    <2>3. CASE Quote(j)
      <3>1. UndoQuote(j) /\ orders' = orders
        BY <2>2, <2>3 DEF Quote, BuyQuote, FirstQuote, SellQuote, UndoQuote, books
      <3>2. orders[job[j].order].status = "FILLED"
        <4>1. ASSUME EndAt(j, "over") PROVE FALSE
          <5>1. job'[j].pc = "over"
            BY <4>1, AtFacts
          <5> QED BY <2>1, <5>1 DEF Started
        <4> QED BY <3>1, <4>1 DEF UndoQuote
      <3> QED BY <2>1, <2>2, <3>1, <3>2
    <2>4. CASE Throws(j)
      <3>1. Ends(j)
        BY <2>4, AtFacts DEF Throws, EndAt, Passed, Ends
      <3> QED BY <1>0, <3>1, EndsQueue
    <2>5. CASE Write(j)
      <3>1. job[j].pc \in Started
        BY <2>5 DEF Write, SendPayout, SendPayoutUnanswered, MoveCurve, Credit, Debit, DebitFails,
                    Accrue, FillOrder, NewOrder, DeleteOrder, Started
      <3>2. orders[job[j].order].status = "FILLED"
        BY <2>1, <2>2, <3>1 DEF OrdersInv, UndoneFilled
      <3>3. orders' = orders \/ Ends(j) \/ \E x \in Orders : NewOrder(j, x)
        BY <1>2, AdvanceOrders
      <3>4. ~Ends(j)
        BY <1>0, EndsQueue
      <3>5. ~\E x \in Orders : NewOrder(j, x)
        BY <2>2 DEF NewOrder
      <3> QED BY <2>1, <2>2, <3>2, <3>3, <3>4, <3>5
    <2> QED BY <1>2, <2>3, <2>4, <2>5 DEF Advance
  <1>3. CASE Crash
    BY <1>3 DEF Crash, Holds
  <1>4. CASE UNCHANGED vars
    BY <1>4 DEF vars, books, Holds, OrdersInv, UndoneFilled
  <1> QED BY <1>1, <1>2, <1>3, <1>4 DEF Next

LEMMA UnplacedUnpaidStep ==
  ASSUME TypeOK, Queue, Asked, OrdersInv, [Next]_vars
  PROVE  UnplacedUnpaid'
  <1> SUFFICES ASSUME NEW o \in Orders, orders'[o].status = "NONE"
               PROVE  paid'[o] = 0
    BY DEF UnplacedUnpaid
  <1>1. orders[o].status = "NONE"
    BY RowsStay
  <1>2. paid[o] = 0
    BY <1>1 DEF OrdersInv, UnplacedUnpaid
  <1>3. paid'[o] = paid[o]
    <2>1. CASE Request
      <3>1. ASSUME NEW r \in Orders, NEW z, orders[r].status = "PENDING",
                   paid' = [paid EXCEPT ![r] = z]
            PROVE  paid'[o] = paid[o]
        BY <1>1, <3>1 DEF TypeOK
      <3> QED BY <2>1, <3>1, RequestOrders
    <2>2. ASSUME NEW j \in Jobs, Advance(j) PROVE paid' = paid
      BY <2>2, AdvanceKeeps
    <2> QED BY <2>1, <2>2 DEF Next, Crash, vars, chain
  <1> QED BY <1>2, <1>3

LEMMA FirstOnEmptyStep ==
  ASSUME TypeOK, Queue, Asked, OrdersInv, [Next]_vars
  PROVE  FirstOnEmpty'
  <1>s. ASSUME job' = job, curve' = curve PROVE FirstOnEmpty'
    BY <1>s DEF OrdersInv, FirstOnEmpty
  <1>1. CASE Request
    <2>1. ASSUME NEW j \in Jobs, Starts(j) \/ Waits(j),
                 job'[j].pc = "created" => job'[j].kind = "first",
                 job'[j].kind = "first" => job'[j].read.reserve = 0
          PROVE  FirstOnEmpty'
      <3>1. job'[j].pc # "idle" /\ Same(j)
        BY <2>1 DEF Starts, Waits
      <3> QED BY <2>1, <3>1 DEF Same, OrdersInv, FirstOnEmpty
    <2>2. curve' = curve
      BY <1>1, RequestShape
    <2> QED BY <1>1, <1>s, <2>1, <2>2, RequestOrders
  <1>2. ASSUME NEW j \in Jobs, Advance(j) PROVE FirstOnEmpty'
    <2>1. /\ Same(j) /\ job'[j].kind = job[j].kind /\ job'[j].pc \notin {"idle", "created"}
          /\ job[j].kind = "first" => job'[j].read = job[j].read
      BY <1>2, AdvanceKeeps
    <2> QED BY <2>1 DEF Same, OrdersInv, FirstOnEmpty
  <1>3. CASE Crash \/ UNCHANGED vars
    BY <1>3, <1>s DEF Crash, vars, books
  <1> QED BY <1>1, <1>2, <1>3 DEF Next

LEMMA OrdersStep ==
  ASSUME TypeOK, Queue, Asked, OrdersInv, [Next]_vars
  PROVE  OrdersInv'
  BY LiveBuysStep, OneRunStep, UndoneFilledStep, UnplacedUnpaidStep, FirstOnEmptyStep DEF OrdersInv

-----------------------------------------------------------------------------
(* The ZEC of the books and of the vault.                                  *)

Repeating == {"repeat", "first"}
Taken(r) == r.read.reserve - r.next.reserve

\* What an execution adds to the vault's side, Excess, less what it holds of the vault
\* and has not booked yet.
Stake(r) ==
  IF r.kind = "sell"
  THEN IF r.pc = "sent" THEN Net(Taken(r))
       ELSE IF r.pc \in {"moved", "settled"} THEN -Fee(Taken(r)) ELSE 0
  ELSE IF r.kind = "buy"
  THEN IF r.pc \in {"moved", "settled"} THEN Net(r.zec)
       ELSE IF r.pc = "accrued" THEN r.zec ELSE 0
  ELSE IF r.kind \in Repeating
  THEN IF r.pc \in {"created", "queued", "quoted"} THEN -r.zec
       ELSE IF r.pc \in {"moved", "settled"} THEN -Fee(r.zec) ELSE 0
  ELSE 0

\* What was paid for an order and no buy has filled it with.
Bill(row, z) == IF row.status \in {"PENDING", "FAILED"} THEN z ELSE 0

Stakes == [j \in Jobs |-> Stake(job[j])]
Bills == [o \in Orders |-> Bill(orders[o], paid[o])]

Covered ==
  vault + SumFunctionOnSet(Stakes, Jobs)
    >= curve.reserve + accrued + SumFunctionOnSet(Bills, Orders)

LEMMA StakeInt ==
  ASSUME NEW r \in Job
  PROVE  Stake(r) \in Int /\ Taken(r) \in Int /\ r.zec \in Nat
         /\ Fee(r.zec) \in Nat /\ Net(r.zec) \in Nat /\ Net(r.zec) = r.zec - Fee(r.zec)
         /\ Fee(Taken(r)) \in Int /\ Net(Taken(r)) \in Int
         /\ Net(Taken(r)) = Taken(r) - Fee(Taken(r))
  <1>1. r.next \in Curve /\ r.read \in Curve /\ r.zec \in Nat
    BY DEF Job
  <1>2. Taken(r) \in Int
    BY <1>1 DEF Curve, Taken
  <1>3. /\ Fee(Taken(r)) \in Int /\ Net(Taken(r)) \in Int
        /\ Net(Taken(r)) = Taken(r) - Fee(Taken(r))
    BY <1>2, FeeInt DEF Net
  <1>4. Fee(r.zec) \in Nat /\ Net(r.zec) \in Nat /\ Net(r.zec) = r.zec - Fee(r.zec)
    BY <1>1, FeeFacts DEF Net
  <1>5. Stake(r) \in Int
    BY <1>1, <1>3, <1>4 DEF Stake
  <1> QED BY <1>1, <1>2, <1>3, <1>4, <1>5

LEMMA StakesTyped == TypeOK => \A j \in Jobs : Stakes[j] = Stake(job[j]) /\ Stakes[j] \in Int
  BY StakeInt DEF TypeOK, Stakes

LEMMA BillsTyped ==
  TypeOK => \A o \in Orders : Bills[o] = Bill(orders[o], paid[o]) /\ Bills[o] \in Nat
  BY DEF TypeOK, Bills, Bill

LEMMA MoneyTyped ==
  ASSUME TypeOK
  PROVE  /\ vault \in Int /\ curve.reserve \in Int /\ accrued \in Int
         /\ SumFunctionOnSet(Stakes, Jobs) \in Int /\ SumFunctionOnSet(Bills, Orders) \in Int
  <1>1. \A j \in Jobs : Stakes[j] \in Int
    BY StakesTyped
  <1>2. \A o \in Orders : Bills[o] \in Int
    BY BillsTyped
  <1>3. SumFunctionOnSet(Stakes, Jobs) \in Int /\ SumFunctionOnSet(Bills, Orders) \in Int
    BY <1>1, <1>2, SumInt, FiniteAssumption
  <1> QED BY <1>3 DEF TypeOK, Curve

LEMMA StakesChange ==
  ASSUME TypeOK, TypeOK', NEW j \in Jobs, Same(j)
  PROVE  SumFunctionOnSet(Stakes', Jobs)
           = SumFunctionOnSet(Stakes, Jobs) - Stake(job[j]) + Stake(job'[j])
  <1> DEFINE f == Stakes
             g == Stakes'
  <1>1. \A k \in Jobs : f[k] = Stake(job[k]) /\ f[k] \in Int
    BY StakesTyped
  <1>2. \A k \in Jobs : g[k] = Stake(job'[k]) /\ g[k] \in Int
    BY StakeInt DEF TypeOK, Stakes
  <1>3. \A k \in Jobs \ {j} : g[k] = f[k]
    BY <1>1, <1>2 DEF Same
  <1>4. IsFiniteSet(Jobs)
    BY FiniteAssumption
  <1> HIDE DEF f, g
  <1>5. SumFunctionOnSet(g, Jobs) = SumFunctionOnSet(f, Jobs) - f[j] + g[j]
    <2>1. (\A k \in Jobs : f[k] \in Int) /\ g[j] \in Int
      BY <1>1, <1>2
    <2> QED BY <1>3, <1>4, <2>1, SumChange
  <1>6. f[j] = Stake(job[j]) /\ g[j] = Stake(job'[j])
    BY <1>1, <1>2
  <1> QED BY <1>5, <1>6 DEF f, g

LEMMA OrderSumChange ==
  ASSUME NEW o \in Orders, NEW f, NEW g, \A x \in Orders : f[x] \in Int, g[o] \in Int,
         \A x \in Orders \ {o} : g[x] = f[x]
  PROVE  SumFunctionOnSet(g, Orders) = SumFunctionOnSet(f, Orders) - f[o] + g[o]
  <1>1. IsFiniteSet(Orders)
    BY FiniteAssumption
  <1> QED BY <1>1, SumChange

LEMMA BillsChange ==
  ASSUME TypeOK, TypeOK', NEW o \in Orders,
         \A x \in Orders \ {o} : orders'[x] = orders[x] /\ paid'[x] = paid[x]
  PROVE  SumFunctionOnSet(Bills', Orders)
           = SumFunctionOnSet(Bills, Orders) - Bill(orders[o], paid[o]) + Bill(orders'[o], paid'[o])
  <1> DEFINE f == Bills
             g == Bills'
  <1>1. \A x \in Orders : f[x] = Bill(orders[x], paid[x]) /\ f[x] \in Int
    BY BillsTyped
  <1>2. \A x \in Orders : g[x] = Bill(orders'[x], paid'[x]) /\ g[x] \in Int
    BY DEF TypeOK, Bills, Bill
  <1>3. \A x \in Orders \ {o} : g[x] = f[x]
    BY <1>1, <1>2
  <1> HIDE DEF f, g
  <1>5. SumFunctionOnSet(g, Orders) = SumFunctionOnSet(f, Orders) - f[o] + g[o]
    <2>1. \A x \in Orders : f[x] \in Int
      BY <1>1
    <2>2. g[o] \in Int
      BY <1>2
    <2> QED BY <1>3, <2>1, <2>2, OrderSumChange
  <1>6. f[o] = Bill(orders[o], paid[o]) /\ g[o] = Bill(orders'[o], paid'[o])
    BY <1>1, <1>2
  <1> QED BY <1>5, <1>6 DEF f, g

\* A step of one execution that leaves what is paid and unfilled alone.
LEMMA CoveredJob ==
  ASSUME TypeOK, TypeOK', Covered, NEW j \in Jobs, Same(j),
         \A x \in Orders : Bill(orders'[x], paid'[x]) = Bill(orders[x], paid[x]),
         vault' - curve'.reserve - accrued' + Stake(job'[j])
           >= vault - curve.reserve - accrued + Stake(job[j])
  PROVE  Covered'
  <1>1. SumFunctionOnSet(Stakes', Jobs)
           = SumFunctionOnSet(Stakes, Jobs) - Stake(job[j]) + Stake(job'[j])
    BY StakesChange
  <1>2. Bills' = Bills
    BY DEF Bills
  <1>3. vault' \in Int /\ curve'.reserve \in Int /\ accrued' \in Int
    BY DEF TypeOK, Curve
  <1>4. Stake(job[j]) \in Int /\ Stake(job'[j]) \in Int
    BY StakeInt DEF TypeOK
  <1>5. Covered' <=> vault' + SumFunctionOnSet(Stakes', Jobs)
                       >= curve'.reserve + accrued' + SumFunctionOnSet(Bills', Orders)
    BY DEF Covered
  <1> QED BY <1>1, <1>2, <1>3, <1>4, <1>5, MoneyTyped DEF Covered

\* A step of one execution that pays or fills an order.
LEMMA CoveredOrder ==
  ASSUME TypeOK, TypeOK', Covered, NEW j \in Jobs, Same(j), NEW o \in Orders,
         \A x \in Orders \ {o} : orders'[x] = orders[x] /\ paid'[x] = paid[x],
         curve' = curve, accrued' = accrued,
         vault' + Stake(job'[j]) - Bill(orders'[o], paid'[o])
           >= vault + Stake(job[j]) - Bill(orders[o], paid[o])
  PROVE  Covered'
  <1>1. SumFunctionOnSet(Stakes', Jobs)
           = SumFunctionOnSet(Stakes, Jobs) - Stake(job[j]) + Stake(job'[j])
    BY StakesChange
  <1>2. SumFunctionOnSet(Bills', Orders)
          = SumFunctionOnSet(Bills, Orders) - Bill(orders[o], paid[o]) + Bill(orders'[o], paid'[o])
    BY BillsChange
  <1>3. vault' \in Int
    BY DEF TypeOK
  <1>4. Stake(job[j]) \in Int /\ Stake(job'[j]) \in Int
    BY StakeInt DEF TypeOK
  <1>5. Bill(orders[o], paid[o]) \in Int /\ Bill(orders'[o], paid'[o]) \in Int
    BY DEF TypeOK, Bill
  <1>6. Covered' <=> vault' + SumFunctionOnSet(Stakes', Jobs)
                       >= curve'.reserve + accrued' + SumFunctionOnSet(Bills', Orders)
    BY DEF Covered
  <1> QED BY <1>1, <1>2, <1>3, <1>4, <1>5, <1>6, MoneyTyped DEF Covered

LEMMA CoveredRequest ==
  ASSUME TypeOK, TypeOK', Queue, Asked, OrdersInv, Covered, Request
  PROVE  Covered'
  <1> USE DEF books, chain
  <1>0. /\ job \in [Jobs -> Job] /\ vault \in Int /\ curve.reserve \in Int /\ accrued \in Int
        /\ orders \in [Orders -> Order] /\ paid \in [Orders -> Nat]
    BY MoneyTyped DEF TypeOK
  <1>1. ASSUME NEW o \in Orders, NEW w \in Wallets, NEW z \in Payments, PlaceOrder(o, w, z)
        PROVE  Covered'
    <2>1. orders[o].status = "NONE" /\ paid[o] = 0 /\ paid' = paid
      BY <1>1 DEF PlaceOrder, OrdersInv, UnplacedUnpaid
    <2>2. \A x \in Orders : x # o => orders'[x] = orders[x]
      BY <1>0, <1>1 DEF PlaceOrder
    <2>3. \A x \in Orders : Bill(orders'[x], paid'[x]) = Bill(orders[x], paid[x])
      BY <2>1, <2>2 DEF Bill
    <2>4. Bills' = Bills
      BY <2>3 DEF Bills
    <2>5. Stakes' = Stakes /\ vault' = vault /\ curve' = curve /\ accrued' = accrued
      BY <1>1 DEF PlaceOrder, Stakes
    <2> QED BY <2>4, <2>5 DEF Covered
  <1>2. ASSUME NEW j \in Jobs, NEW o \in Orders, NEW z \in Payments, BuyPaid(j, o, z)
        PROVE  Covered'
    <2>1. Same(j) /\ job[j].pc = "idle" /\ job'[j].pc = "queued" /\ job'[j].kind = "buy"
      BY <1>2, EnqueueFacts DEF BuyPaid, Enqueue, Starts
    <2>2. Stake(job[j]) = 0 /\ Stake(job'[j]) = 0
      BY <2>1 DEF Stake
    <2>a. paid' = [paid EXCEPT ![o] = z] /\ z \in Nat \ {0}
      BY <1>2, AmountsAssumption DEF BuyPaid
    <2>b. \/ paid[o] = 0 /\ vault' = vault + z
          \/ paid[o] = z /\ vault' = vault
      BY <1>2, <2>a DEF BuyPaid
    <2>c. orders[o].status = "PENDING" /\ orders' = orders /\ curve' = curve /\ accrued' = accrued
      BY <1>2 DEF BuyPaid
    <2>d. paid'[o] = z /\ \A x \in Orders \ {o} : paid'[x] = paid[x]
      BY <1>0, <2>a
    <2>3. /\ orders[o].status = "PENDING" /\ orders' = orders /\ paid'[o] = z
          /\ \A x \in Orders \ {o} : paid'[x] = paid[x]
          /\ curve' = curve /\ accrued' = accrued /\ z \in Nat /\ paid[o] \in Nat
          /\ (paid[o] = 0 /\ vault' = vault + z) \/ (paid[o] = z /\ vault' = vault)
      BY <1>0, <2>a, <2>b, <2>c, <2>d
    <2>4. Bill(orders[o], paid[o]) = paid[o] /\ Bill(orders'[o], paid'[o]) = z
      BY <2>3 DEF Bill
    <2>5. vault' + Stake(job'[j]) - Bill(orders'[o], paid'[o])
            >= vault + Stake(job[j]) - Bill(orders[o], paid[o])
      BY <1>0, <2>2, <2>3, <2>4
    <2> QED BY <2>1, <2>3, <2>5, CoveredOrder
  <1>q. ASSUME NEW j \in Jobs, Same(j), orders' = orders, paid' = paid, curve' = curve,
               accrued' = accrued, vault' + Stake(job'[j]) >= vault + Stake(job[j])
        PROVE  Covered'
    <2>1. vault' \in Int
      BY DEF TypeOK
    <2>2. Stake(job[j]) \in Int /\ Stake(job'[j]) \in Int
      BY StakeInt DEF TypeOK
    <2>3. vault' - curve'.reserve - accrued' + Stake(job'[j])
           >= vault - curve.reserve - accrued + Stake(job[j])
      BY <1>0, <1>q, <2>1, <2>2
    <2> QED BY <1>q, <2>3, CoveredJob
  <1>z. ASSUME NEW z \in Payments, NEW s, NEW t, vault' = vault + z, s = -z, t = 0
        PROVE  vault' + s >= vault + t
    BY <1>0, <1>z, AmountsAssumption
  <1>3. ASSUME NEW j \in Jobs, NEW o \in Orders, NEW z \in Payments, BuyPaidAgain(j, o, z)
        PROVE  Covered'
    <2>1. /\ Same(j) /\ job[j].pc = "idle" /\ job'[j].pc = "queued" /\ job'[j].kind = "repeat"
          /\ job'[j].zec = z
      <3>1. Enqueue(j, "repeat", o, orders[o].wallet, z, 0)
        BY <1>3 DEF BuyPaidAgain
      <3>2. Starts(j) /\ job'[j].kind = "repeat" /\ job'[j].zec = z
        BY <3>1, EnqueueFacts
      <3> QED BY <3>1, <3>2 DEF Enqueue, Starts
    <2>2. Stake(job[j]) = 0 /\ Stake(job'[j]) = -z
      BY <2>1 DEF Stake, Repeating
    <2>3. /\ orders' = orders /\ paid' = paid /\ curve' = curve /\ accrued' = accrued
          /\ vault' = vault + z
      BY <1>3 DEF BuyPaidAgain
    <2> QED BY <1>q, <1>z, <2>1, <2>2, <2>3
  <1>4. ASSUME NEW j \in Jobs, NEW w \in Wallets, NEW z \in Payments, FirstBuyPaid(j, w, z)
        PROVE  Covered'
    <2>1. /\ Same(j) /\ job[j].pc = "idle" /\ job'[j].pc = "created" /\ job'[j].kind = "first"
          /\ job'[j].zec = z
      BY <1>0, <1>4 DEF FirstBuyPaid, Same, IdleJob
    <2>2. Stake(job[j]) = 0 /\ Stake(job'[j]) = -z
      BY <2>1 DEF Stake, Repeating
    <2>3. /\ orders' = orders /\ paid' = paid /\ curve' = curve /\ accrued' = accrued
          /\ vault' = vault + z
      BY <1>4 DEF FirstBuyPaid
    <2> QED BY <1>q, <1>z, <2>1, <2>2, <2>3
  <1>5. ASSUME NEW j \in Jobs, FirstBuyQueues(j) PROVE Covered'
    <2>1. /\ Same(j) /\ job[j].pc = "created" /\ job'[j].pc = "queued"
          /\ job'[j].kind = job[j].kind /\ job'[j].zec = job[j].zec
      BY <1>0, <1>5 DEF FirstBuyQueues, Same, Job
    <2>2. Stake(job[j]) = Stake(job'[j]) /\ Stake(job[j]) \in Int
      BY <1>0, <2>1, StakeInt DEF Stake
    <2>3. /\ orders' = orders /\ paid' = paid /\ curve' = curve /\ accrued' = accrued
          /\ vault' = vault
      BY <1>5 DEF FirstBuyQueues
    <2>4. vault' + Stake(job'[j]) >= vault + Stake(job[j])
      BY <1>0, <2>2, <2>3
    <2> QED BY <1>q, <2>1, <2>3, <2>4
  <1>6. ASSUME NEW j \in Jobs, NEW o, NEW w, NEW z, NEW t, NEW kind \in {"sell", "undo"},
               Enqueue(j, kind, o, w, z, t), UNCHANGED <<books, chain>>
        PROVE  Covered'
    <2>1. /\ Same(j) /\ job[j].pc = "idle" /\ job'[j].pc = "queued" /\ job'[j].kind = kind
      BY <1>6, EnqueueFacts DEF Enqueue, Starts
    <2>2. Stake(job[j]) = 0 /\ Stake(job'[j]) = 0
      BY <2>1 DEF Stake, Repeating
    <2>3. vault' + Stake(job'[j]) >= vault + Stake(job[j])
      BY <1>0, <1>6, <2>2
    <2> QED BY <1>6, <1>q, <2>1, <2>3
  <1>7. ASSUME NEW j \in Jobs, NEW w \in Wallets, NEW t \in Sales, SellAsked(j, w, t)
        PROVE  Covered'
    BY <1>6, <1>7 DEF SellAsked
  <1>8. ASSUME NEW j \in Jobs, NEW o \in Orders, UndoAsked(j, o) PROVE Covered'
    BY <1>6, <1>8 DEF UndoAsked
  <1> QED BY <1>1, <1>2, <1>3, <1>4, <1>5, <1>7, <1>8 DEF Request

LEMMA CoveredQuote ==
  ASSUME TypeOK, TypeOK', Queue, Asked, Covered, NEW j \in Jobs, Quote(j)
  PROVE  Covered'
  <1> USE DEF books, chain
  <1>1. /\ UNCHANGED <<curve, accrued, orders, paid, vault>>
        /\ job[j].pc = "queued" /\ job[j].kind # "none"
    BY DEF Quote, BuyQuote, FirstQuote, SellQuote, UndoQuote
  <1>2. Same(j) /\ job'[j].kind = job[j].kind /\ (job[j].kind # "undo" => job'[j].zec = job[j].zec)
    BY AdvanceKeeps DEF Advance
  <1>3. job'[j].pc \in {"quoted", "over"} /\ (job'[j].pc = "over" => job[j].kind \in {"sell", "undo"})
    <2>1. ASSUME EndAt(j, "over") PROVE job'[j].pc = "over"
      BY <2>1, AtFacts
    <2>2. CASE BuyQuote(j) \/ FirstQuote(j)
      BY <2>2, QuotedFacts DEF BuyQuote, FirstQuote, BuyFrom
    <2>3. CASE SellQuote(j) \/ UndoQuote(j)
      BY <2>3, QuoteKeeps DEF SellQuote, UndoQuote, Quote
    <2> QED BY <2>2, <2>3 DEF Quote
  <1>4. Stake(job'[j]) = Stake(job[j])
    BY <1>1, <1>2, <1>3 DEF Stake, Repeating
  <1>5. Stake(job[j]) \in Int
    BY StakeInt DEF TypeOK
  <1>6. vault' - curve'.reserve - accrued' + Stake(job'[j])
          >= vault - curve.reserve - accrued + Stake(job[j])
    BY <1>1, <1>4, <1>5, MoneyTyped
  <1> QED BY <1>1, <1>2, <1>6, CoveredJob

\* What the trade an execution is about to write does to the reserve and the fees.
LEMMA MoveCovered ==
  ASSUME TypeOK, TypeOK', Queue, Asked, ReadFresh, OrdersInv, NEW j \in Jobs, MoveCurve(j)
  PROVE  vault' - curve'.reserve - accrued' + Stake(job'[j])
           >= vault - curve.reserve - accrued + Stake(job[j])
  <1> USE DEF books, chain
  <1>1. /\ Holds(j) /\ curve' = job[j].next /\ vault' = vault
        /\ job[j].pc = (IF job[j].kind = "sell" THEN "sent" ELSE "quoted")
        /\ job'[j].pc = "moved" /\ job'[j].kind = job[j].kind /\ job'[j].zec = job[j].zec
        /\ job'[j].read = job[j].read /\ job'[j].next = job[j].next
    BY AtFacts DEF MoveCurve
  <1>2. /\ Trade(j)
        /\ job[j].kind # "first" => job[j].read = curve
    BY <1>1 DEF ReadFresh
  <1>3. /\ job[j] \in Job /\ job[j].read \in Curve /\ curve \in Curve /\ job[j].next \in Curve
    BY DEF TypeOK, Job
  <1>4. /\ job[j].zec \in Nat /\ Fee(job[j].zec) \in Nat /\ Net(job[j].zec) \in Nat
        /\ Net(job[j].zec) = job[j].zec - Fee(job[j].zec)
        /\ Taken(job[j]) \in Int /\ Fee(Taken(job[j])) \in Int
        /\ Net(Taken(job[j])) = Taken(job[j]) - Fee(Taken(job[j]))
    BY <1>3, StakeInt
  <1>5. /\ vault \in Int /\ curve.reserve \in Nat /\ accrued \in Nat
        /\ job[j].read.reserve \in Nat /\ job[j].next.reserve \in Nat
    BY <1>3, MoneyTyped DEF Curve, TypeOK
  <1>6. job[j].kind # "undo" => accrued' = accrued
    BY DEF MoveCurve
  <1>7. CASE job[j].kind \in Buying
    <2>1. job[j].next.reserve = job[j].read.reserve + Net(job[j].zec)
      BY <1>2, <1>7 DEF Trade, AfterBuy, Buying
    <2>2. job[j].read.reserve <= curve.reserve
      BY <1>2, <1>5 DEF OrdersInv, FirstOnEmpty
    <2>3. Stake(job'[j]) - Stake(job[j]) = Net(job[j].zec)
          /\ Stake(job[j]) \in Int /\ Stake(job'[j]) \in Int
      <3>1. CASE job[j].kind = "buy"
        <4>1. Stake(job[j]) = 0 /\ Stake(job'[j]) = Net(job[j].zec)
          BY <1>1, <3>1 DEF Stake
        <4> QED BY <1>4, <4>1
      <3>2. CASE job[j].kind \in Repeating
        <4>1. Stake(job[j]) = -job[j].zec /\ Stake(job'[j]) = -Fee(job[j].zec)
          BY <1>1, <3>2 DEF Stake, Repeating
        <4> QED BY <1>4, <4>1
      <3> QED BY <1>7, <3>1, <3>2 DEF Buying, Repeating
    <2> QED BY <1>1, <1>4, <1>5, <1>6, <1>7, <2>1, <2>2, <2>3 DEF Buying
  <1>8. CASE job[j].kind = "sell"
    <2>1. Stake(job[j]) = Net(Taken(job[j])) /\ Stake(job'[j]) = -Fee(Taken(job'[j]))
      BY <1>1, <1>8 DEF Stake
    <2>2. Taken(job'[j]) = Taken(job[j]) /\ Taken(job[j]) = curve.reserve - curve'.reserve
      BY <1>1, <1>2, <1>8 DEF Taken
    <2>3. curve'.reserve \in Int /\ accrued' = accrued /\ vault' = vault
      BY <1>1, <1>5, <1>6, <1>8
    <2> DEFINE t == Taken(job[j])
    <2>4. /\ Stake(job[j]) = t - Fee(t) /\ Stake(job'[j]) = -Fee(t) /\ t \in Int /\ Fee(t) \in Int
          /\ t = curve.reserve - curve'.reserve
      BY <1>4, <2>1, <2>2
    <2> HIDE DEF t
    <2> QED BY <1>5, <2>3, <2>4
  <1>9. CASE job[j].kind = "undo"
    <2>1. Stake(job[j]) = 0 /\ Stake(job'[j]) = 0
      BY <1>1, <1>9 DEF Stake, Repeating
    <2>2. curve'.reserve \in Int /\ curve'.reserve <= curve.reserve
      BY <1>1, <1>2, <1>4, <1>5, <1>9 DEF Trade, AfterUndo, Least0
    <2>3. accrued' \in Int /\ accrued' <= accrued
      BY <1>4, <1>5, <1>9 DEF MoveCurve, Least0
    <2> QED BY <1>1, <1>5, <2>1, <2>2, <2>3
  <1> QED BY <1>2, <1>7, <1>8, <1>9 DEF Trade, Buying

LEMMA CoveredWrite ==
  ASSUME TypeOK, TypeOK', Queue, Asked, ReadFresh, OrdersInv, Covered,
         NEW j \in Jobs, Write(j) \/ Throws(j)
  PROVE  Covered'
  <1> USE DEF books, chain
  <1>1. PICK pc : At(j, pc) \/ EndAt(j, pc)
    BY WriteShape
  <1>2. /\ Same(j) /\ job'[j].pc = pc /\ job'[j].kind = job[j].kind
        /\ job'[j].zec = job[j].zec /\ job'[j].order = job[j].order
        /\ job'[j].read = job[j].read /\ job'[j].next = job[j].next
    BY <1>1, AtFacts
  <1>3. Taken(job'[j]) = Taken(job[j]) /\ Taken(job[j]) = Proceeds(j)
    BY <1>2 DEF Taken, Proceeds
  <1>4. /\ job[j] \in Job /\ Stake(job[j]) \in Int /\ Stake(job'[j]) \in Int
        /\ job[j].zec \in Nat /\ Fee(job[j].zec) \in Nat
        /\ Net(job[j].zec) = job[j].zec - Fee(job[j].zec)
        /\ Fee(Taken(job[j])) \in Int /\ Net(Taken(job[j])) \in Int
    BY StakeInt DEF TypeOK
  <1>5. /\ vault \in Int /\ curve.reserve \in Int /\ accrued \in Int
        /\ vault' \in Int /\ curve'.reserve \in Int /\ accrued' \in Int
    BY MoneyTyped DEF TypeOK, Curve
  <1>6. Holds(j) /\ job[j].kind \in {"buy", "repeat", "first", "sell", "undo"} /\ paid' = paid
    <2>1. Holds(j) /\ AskedBy(j) /\ job[j].kind # "none"
      BY WriteShape, HeadFacts DEF Asked
    <2>2. job[j].kind \in {"buy", "repeat", "first", "sell", "undo"}
      BY <1>4, <2>1, KindsAssumption DEF Job
    <2> QED BY <2>1, <2>2, AdvanceKeeps DEF Advance
  <1>q. ASSUME orders' = orders, curve' = curve,
               vault' - accrued' + Stake(job'[j]) >= vault - accrued + Stake(job[j])
        PROVE  Covered'
    <2>1. vault' - curve'.reserve - accrued' + Stake(job'[j])
           >= vault - curve.reserve - accrued + Stake(job[j])
      BY <1>4, <1>5, <1>q
    <2> QED BY <1>2, <1>6, <1>q, <2>1, CoveredJob
  <1>7. CASE SendPayout(j) \/ SendPayoutUnanswered(j)
    <2>1. /\ orders' = orders /\ curve' = curve /\ accrued' = accrued
          /\ vault' = vault - Net(Proceeds(j)) /\ job[j].kind = "sell"
          /\ job[j].pc = "quoted" /\ job'[j].pc = "sent"
      BY <1>7, AtFacts DEF SendPayout, SendPayoutUnanswered
    <2>2. Stake(job[j]) = 0 /\ Stake(job'[j]) = Net(Proceeds(j))
      BY <1>2, <1>3, <2>1 DEF Stake
    <2>3. vault' - accrued' + Stake(job'[j]) >= vault - accrued + Stake(job[j])
      BY <1>4, <1>5, <2>1, <2>2
    <2> QED BY <1>q, <2>1, <2>3
  <1>8. CASE MoveCurve(j)
    <2>1. orders' = orders
      BY <1>8 DEF MoveCurve
    <2>2. \A x \in Orders : Bill(orders'[x], paid'[x]) = Bill(orders[x], paid[x])
      BY <1>6, <2>1
    <2> QED BY <1>2, <1>8, <2>2, MoveCovered, CoveredJob
  <1>s. ASSUME orders' = orders, curve' = curve, vault' = vault, accrued' = accrued,
               Stake(job'[j]) = Stake(job[j])
        PROVE  Covered'
    BY <1>4, <1>5, <1>q, <1>s
  <1>9. CASE Credit(j) \/ Debit(j) \/ DebitFails(j)
    <2>1. /\ orders' = orders /\ curve' = curve /\ accrued' = accrued /\ vault' = vault
          /\ job[j].pc = "moved" /\ job'[j].pc \in {"moved", "settled", "short"}
          /\ job'[j].pc = "short" => job[j].kind = "undo"
      <3>1. CASE Credit(j) \/ Debit(j)
        <4>1. At(j, "settled")
          BY <3>1 DEF Credit, Debit
        <4>2. job'[j].pc = "settled"
          BY <4>1, AtFacts
        <4> QED BY <3>1, <4>2 DEF Credit, Debit
      <3>2. CASE DebitFails(j) /\ job[j].kind = "sell"
        <4>1. EndAt(j, "moved")
          BY <3>2 DEF DebitFails
        <4> QED BY <3>2, <4>1, AtFacts DEF DebitFails
      <3>3. CASE DebitFails(j) /\ job[j].kind # "sell"
        <4>1. At(j, "short") /\ job[j].kind = "undo"
          BY <3>3 DEF DebitFails
        <4> QED BY <3>3, <4>1, AtFacts DEF DebitFails
      <3> QED BY <1>9, <3>1, <3>2, <3>3
    <2>2. Stake(job'[j]) = Stake(job[j])
      BY <1>2, <1>3, <2>1 DEF Stake, Repeating
    <2> QED BY <1>s, <2>1, <2>2
  <1>10. CASE Accrue(j)
    <2>1. /\ orders' = orders /\ curve' = curve /\ vault' = vault /\ job[j].kind # "undo"
          /\ job[j].pc = "settled" /\ job'[j].pc = "accrued"
          /\ accrued' = accrued + Fee(IF job[j].kind = "sell" THEN Proceeds(j) ELSE job[j].zec)
      BY <1>10, AtFacts DEF Accrue
    <2>2. CASE job[j].kind = "sell"
      <3>1. Stake(job[j]) = -Fee(Proceeds(j)) /\ Stake(job'[j]) = 0
        BY <1>2, <1>3, <2>1, <2>2 DEF Stake
      <3>2. vault' - accrued' + Stake(job'[j]) >= vault - accrued + Stake(job[j])
        BY <1>3, <1>4, <1>5, <2>1, <2>2, <3>1
      <3> QED BY <1>q, <2>1, <3>2
    <2>3. CASE job[j].kind = "buy"
      <3>1. Stake(job[j]) = Net(job[j].zec) /\ Stake(job'[j]) = job[j].zec
        BY <1>2, <2>1, <2>3 DEF Stake
      <3>2. vault' - accrued' + Stake(job'[j]) >= vault - accrued + Stake(job[j])
        BY <1>4, <1>5, <2>1, <2>3, <3>1
      <3> QED BY <1>q, <2>1, <3>2
    <2>4. CASE job[j].kind \in Repeating
      <3>1. Stake(job[j]) = -Fee(job[j].zec) /\ Stake(job'[j]) = 0
        BY <1>2, <2>1, <2>4 DEF Stake, Repeating
      <3>2. vault' - accrued' + Stake(job'[j]) >= vault - accrued + Stake(job[j])
        BY <1>4, <1>5, <2>1, <2>4, <3>1 DEF Repeating
      <3> QED BY <1>q, <2>1, <3>2
    <2> QED BY <1>6, <2>1, <2>2, <2>3, <2>4 DEF Repeating
  <1>11. CASE FillOrder(j)
    <2>1. /\ curve' = curve /\ accrued' = accrued /\ vault' = vault /\ job[j].kind = "buy"
          /\ job[j].pc = "accrued" /\ job'[j].pc = "over"
      BY <1>11, AtFacts DEF FillOrder
    <2>2. Stake(job[j]) = job[j].zec /\ Stake(job'[j]) = 0
      BY <1>2, <2>1 DEF Stake
    <2> DEFINE o == job[j].order
    <2>3. o \in Orders /\ orders[o].status = "PENDING" /\ paid[o] = job[j].zec
      BY <1>6, <2>1, HeadQueued DEF OrdersInv, LiveBuys, Live, Asked, AskedBy
    <2>4. /\ orders'[o].status = "FILLED"
          /\ \A x \in Orders \ {o} : orders'[x] = orders[x] /\ paid'[x] = paid[x]
      BY <1>6, <1>11, <2>3 DEF FillOrder, TypeOK, Order
    <2>5. Bill(orders[o], paid[o]) = job[j].zec /\ Bill(orders'[o], paid'[o]) = 0
      BY <2>3, <2>4 DEF Bill
    <2>6. vault' + Stake(job'[j]) - Bill(orders'[o], paid'[o])
            >= vault + Stake(job[j]) - Bill(orders[o], paid[o])
      BY <1>4, <1>5, <2>1, <2>2, <2>5
    <2> HIDE DEF o
    <2> QED BY <1>2, <2>1, <2>3, <2>4, <2>6, CoveredOrder
  <1>b. ASSUME curve' = curve, vault' = vault, accrued' = accrued,
               Stake(job'[j]) = Stake(job[j]), NEW o \in Orders,
               Bill(orders'[o], paid'[o]) = Bill(orders[o], paid[o]),
               \A x \in Orders : x # o => orders'[x] = orders[x]
        PROVE  Covered'
    <2>1. \A x \in Orders : Bill(orders'[x], paid'[x]) = Bill(orders[x], paid[x])
      BY <1>6, <1>b
    <2>2. vault' - curve'.reserve - accrued' + Stake(job'[j])
           >= vault - curve.reserve - accrued + Stake(job[j])
      BY <1>4, <1>5, <1>b
    <2> QED BY <1>2, <2>1, <2>2, CoveredJob
  <1>12. ASSUME NEW o \in Orders, NewOrder(j, o) PROVE Covered'
    <2>1. /\ curve' = curve /\ accrued' = accrued /\ vault' = vault
          /\ job[j].kind \in {"repeat", "first", "sell"}
          /\ job[j].pc = "accrued" /\ job'[j].pc = "over" /\ orders[o].status = "NONE"
      BY <1>12, AtFacts DEF NewOrder
    <2>2. Stake(job'[j]) = Stake(job[j])
      BY <1>2, <2>1 DEF Stake, Repeating
    <2>3. orders'[o].status = "FILLED" /\ \A x \in Orders : x # o => orders'[x] = orders[x]
      BY <1>12 DEF NewOrder, TypeOK
    <2>4. Bill(orders'[o], paid'[o]) = Bill(orders[o], paid[o])
      BY <2>1, <2>3 DEF Bill
    <2> QED BY <1>b, <2>1, <2>2, <2>3, <2>4
  <1>13. CASE DeleteOrder(j)
    <2>1. /\ curve' = curve /\ accrued' = accrued /\ vault' = vault /\ job[j].kind = "undo"
      BY <1>13 DEF DeleteOrder
    <2>2. Stake(job'[j]) = Stake(job[j])
      BY <1>2, <2>1 DEF Stake, Repeating
    <2> DEFINE o == job[j].order
    <2>3. /\ o \in Orders /\ orders[o].status = "FILLED" /\ orders'[o].status = "DELETED"
          /\ \A x \in Orders : x # o => orders'[x] = orders[x]
      <3>1. o \in Orders /\ job[j].pc \in {"settled", "short"}
        BY <1>13, <2>1 DEF DeleteOrder, Asked, AskedBy
      <3>2. orders[o].status = "FILLED"
        BY <1>6, <2>1, <3>1 DEF OrdersInv, UndoneFilled, Started
      <3> QED BY <1>13, <3>1, <3>2 DEF DeleteOrder, TypeOK, Order
    <2>4. Bill(orders'[o], paid'[o]) = Bill(orders[o], paid[o])
      BY <2>3 DEF Bill
    <2> HIDE DEF o
    <2> QED BY <1>b, <2>1, <2>2, <2>3, <2>4
  <1>14. CASE Throws(j)
    <2>1. /\ curve' = curve /\ accrued' = accrued /\ vault' = vault /\ job'[j].pc = job[j].pc
      BY <1>14, AtFacts DEF Throws
    <2>2. Stake(job'[j]) = Stake(job[j])
      BY <1>2, <1>3, <2>1 DEF Stake
    <2>3. CASE orders' = orders
      BY <1>s, <2>1, <2>2, <2>3
    <2>4. CASE job[j].kind = "buy" /\ orders' = [orders EXCEPT ![job[j].order].status = "FAILED"]
      <3> DEFINE o == job[j].order
      <3>1. o \in Orders /\ orders[o].status = "PENDING"
        BY <1>6, <2>4, HeadQueued DEF OrdersInv, LiveBuys, Live, Asked, AskedBy
      <3>2. orders'[o].status = "FAILED" /\ \A x \in Orders : x # o => orders'[x] = orders[x]
        BY <2>4, <3>1 DEF TypeOK, Order
      <3>3. Bill(orders'[o], paid'[o]) = Bill(orders[o], paid[o])
        BY <1>6, <3>1, <3>2 DEF Bill
      <3> HIDE DEF o
      <3> QED BY <1>b, <2>1, <2>2, <3>1, <3>2, <3>3
    <2> QED BY <1>14, <2>3, <2>4 DEF Throws
  <1> QED BY <1>7, <1>8, <1>9, <1>10, <1>11, <1>12, <1>13, <1>14 DEF Write

LEMMA CoveredStep ==
  ASSUME TypeOK, TypeOK', Queue, Asked, ReadFresh, OrdersInv, Covered, [Next]_vars
  PROVE  Covered'
  <1>1. CASE Request
    BY <1>1, CoveredRequest
  <1>2. ASSUME NEW j \in Jobs, Advance(j) PROVE Covered'
    BY <1>2, CoveredQuote, CoveredWrite DEF Advance
  <1>3. CASE Crash \/ UNCHANGED vars
    BY <1>3 DEF Crash, vars, books, chain, Covered, Stakes, Bills
  <1> QED BY <1>1, <1>2, <1>3 DEF Next

MoneyInv == IInv /\ OrdersInv /\ Covered

LEMMA MoneyInit == Init => MoneyInv
  <1> SUFFICES ASSUME Init PROVE MoneyInv
    OBVIOUS
  <1>1. IInv /\ OrdersInv
    BY InitInv, OrdersInit
  <1>2. (\A j \in Jobs : Stakes[j] = 0) /\ (\A o \in Orders : Bills[o] = 0)
    BY DEF Init, Stakes, Stake, Repeating, IdleJob, Bills, Bill, NoRow
  <1>3. SumFunctionOnSet(Stakes, Jobs) = 0 /\ SumFunctionOnSet(Bills, Orders) = 0
    BY <1>2, SumZero, FiniteAssumption
  <1>4. vault = 0 /\ accrued = 0 /\ curve.reserve = 0
    BY DEF Init, EmptyCurve
  <1> QED BY <1>1, <1>3, <1>4 DEF MoneyInv, Covered

LEMMA MoneyStep == MoneyInv /\ [Next]_vars => MoneyInv'
  BY InductiveStep, OrdersStep, CoveredStep DEF MoneyInv, IInv

\* What is owed and what is booked in excess, of one execution.
LEMMA StakeWithinExcess ==
  ASSUME TypeOK, Asked, NEW j \in Jobs
  PROVE  Stake(job[j]) <= Excess(j) /\ Excess(j) \in Int
  <1>1. /\ job[j].zec \in Nat /\ Fee(job[j].zec) \in Nat /\ Net(job[j].zec) \in Nat
        /\ Net(job[j].zec) = job[j].zec - Fee(job[j].zec)
        /\ Net(Taken(job[j])) \in Int /\ Taken(job[j]) = Proceeds(j)
    BY StakeInt DEF TypeOK, Taken, Proceeds
  <1>2. CASE job[j].kind = "sell"
    <2>1. Fee(Taken(job[j])) \in Nat
      BY <1>1, <1>2, ProceedsNat, FeeFacts
    <2> QED BY <1>1, <1>2, <2>1 DEF Stake, Excess
  <1>3. CASE job[j].kind # "sell"
    BY <1>1, <1>3 DEF Stake, Excess, Repeating
  <1> QED BY <1>2, <1>3

LEMMA CoveredSolvent ==
  ASSUME TypeOK, Asked, Covered
  PROVE  Solvent
  <1> DEFINE e == [j \in Jobs |-> Excess(j)]
  <1>1. \A j \in Jobs : e[j] \in Int /\ Stakes[j] \in Int /\ Stakes[j] <= e[j]
    BY StakeWithinExcess, StakesTyped
  <1>2. Total(Excess) = SumFunctionOnSet(e, Jobs)
    BY DEF Total, SumFunction
  <1>3. \A o \in Orders : Bills[o] \in Nat
    BY BillsTyped
  <1> HIDE DEF e
  <1>4. SumFunctionOnSet(Stakes, Jobs) <= SumFunctionOnSet(e, Jobs)
        /\ SumFunctionOnSet(e, Jobs) \in Int
    BY <1>1, SumLe, SumInt, FiniteAssumption
  <1>5. SumFunctionOnSet(Bills, Orders) \in Nat
    BY <1>3, SumNat, FiniteAssumption
  <1> QED BY <1>2, <1>4, <1>5, MoneyTyped DEF Covered, Solvent

\* The vault covers the curve's reserve and the fees of the token, whatever is bought,
\* sold, reversed, thrown or cut by a crash, but for payouts sent and not written and
\* payments booked whose order is not filled (server.ts 792-1262).
THEOREM AlwaysSolvent == Spec => []Solvent
  <1>1. MoneyInv => Solvent
    BY CoveredSolvent DEF MoneyInv, IInv
  <1> QED BY <1>1, MoneyInit, MoneyStep, PTL DEF Spec
=============================================================================
