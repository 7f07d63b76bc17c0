---------------------------- MODULE PaymentWatch ----------------------------
(***************************************************************************)
(* Attribution of incoming Zcash notes to payment records.                 *)
(*                                                                         *)
(* backend/src/lib/zcashReal.ts keeps, in memory, one watcher per record   *)
(* that waits for a payment and a set of transaction ids already used; a   *)
(* poll asks the wallet service for the unspent notes and attributes them  *)
(* in three passes (diversifier, memo, amount).  backend/src/server.ts     *)
(* settles what the poll attributes, and on boot rebuilds both structures  *)
(* from the database.  The module follows a record from its creation,      *)
(* through the poll and the settlement, across crashes of the backend.     *)
(*                                                                         *)
(* Time is a bounded clock; the four durations of the code are constants   *)
(* that keep their order (5 min <= 20 min < 2 h < 3 h).                    *)
(***************************************************************************)
EXTENDS Integers, FiniteSets

CONSTANTS
  Records,      \* payment records: buy orders and NEAR launches
  NearLaunches, \* the records that are NEAR launches
  Notes,        \* identities of notes received by the platform wallet
  Txids,        \* transaction ids
  TxOf,         \* the transaction that carries each note
  Addresses,    \* one-time addresses; an address stands for its diversifier
  Amounts,      \* payment amounts
  Patched,      \* zingo-cli reports diversifiers (zingolib-patches applied)
  WorkersRepeat,\* two address workers may hand out the same address
  Grace, RepeatWindow, OrderExpiry, HardMax,  \* the durations
  Styles,       \* how payers' notes look: with a memo, with a usable time
  MaxTime,      \* bound: last value of the clock
  MaxSpent,     \* bound: notes spent by payouts
  MaxRestarts,  \* bound: crashes of the backend
  NoAddr, NoRecord, NoWatch, NoNote

ASSUME RecordsAssumption == NearLaunches \subseteq Records /\ NoRecord \notin Records
ASSUME TxOfAssumption == TxOf \in [Notes -> Txids]
ASSUME AddressAssumption == NoAddr \notin Addresses
ASSUME AmountsAssumption == Amounts \subseteq Nat /\ Amounts # {}
ASSUME FlagsAssumption == Patched \in BOOLEAN /\ WorkersRepeat \in BOOLEAN
ASSUME DurationsAssumption ==
  /\ {Grace, RepeatWindow, OrderExpiry, HardMax} \subseteq Nat
  /\ Grace <= RepeatWindow /\ RepeatWindow < OrderExpiry /\ OrderExpiry < HardMax
ASSUME StylesAssumption == Styles \subseteq [memo : BOOLEAN, timed : BOOLEAN]
ASSUME BoundsAssumption ==
  MaxTime \in Nat \ {0} /\ MaxSpent \in Nat /\ MaxRestarts \in Nat

VARIABLES
  now,        \* Date.now(), in units of the clock
  boot,       \* how far the boot sequence has got
  resumedAt,  \* when boot resumed the watchers; Never if it did not
  rows,       \* database: one row per record
  recorded,   \* database: the txids getAllKnownPaymentTxids returns
  credits,    \* database: how often a note was credited to a record
  watchers,   \* memory: the watchers map
  consumed,   \* memory: consumedTxids
  poll,       \* memory: the poll tick in flight
  deliveries, \* memory: onPayment callbacks of this process and their progress
  chain,      \* the notes that reached the wallet, as the chain knows them
  spent,      \* the notes spent by payouts, no longer listed
  restarts    \* crashes so far

persistent == <<rows, recorded, credits>>
memory == <<watchers, consumed, poll, deliveries>>
world == <<now, chain, spent, restarts>>
startup == <<boot, resumedAt>>
vars == <<persistent, memory, world, startup>>

Never == -1     \* firstMatchedAt is undefined
Missing == 0    \* a note without a usable time; the clock starts at 1
Time == 1..MaxTime

Row == [status : {"NONE", "PENDING", "FILLED", "FAILED"},
        addr : Addresses \cup {NoAddr}, amount : Amounts, created : Time]

Watcher == [addr : Addresses \cup {NoAddr}, amount : Amounts,
            created : Time, original : Time, matched : Time \cup {Never}]

ASSUME NoWatchAssumption == NoWatch \notin Watcher

Note == [payer : Records, amount : Amounts,
         div : Addresses \cup {NoAddr}, memo : Records \cup {NoRecord},
         time : Time \cup {Missing}]

Delivery == [note : Notes, rec : Records, repeat : BOOLEAN,
             step : {"fired", "checked", "credited", "recorded", "over"}]

TypeOK ==
  /\ now \in Time
  /\ boot \in {"resume", "seed", "seeded", "unseeded"}
  /\ resumedAt \in Time \cup {Never}
  /\ rows \in [Records -> Row]
  /\ recorded \subseteq Txids
  /\ credits \in [Notes -> [Records -> Nat]]
  /\ watchers \in [Records -> Watcher \cup {NoWatch}]
  /\ consumed \subseteq Txids
  /\ poll \in [phase : {"idle", "waiting"}, begun : Time, seen : SUBSET Notes]
  /\ deliveries \subseteq Delivery
  /\ chain \in [Notes -> Note \cup {NoNote}]
  /\ spent \subseteq Notes
  /\ restarts \in 0..MaxRestarts

NoRow == [status |-> "NONE", addr |-> NoAddr,
          amount |-> CHOOSE a \in Amounts : TRUE, created |-> 1]
IdlePoll == [phase |-> "idle", begun |-> 1, seen |-> {}]

\* The first boot is over and found an empty database.
Init ==
  /\ now = 1 /\ restarts = 0
  /\ chain = [n \in Notes |-> NoNote] /\ spent = {}
  /\ rows = [r \in Records |-> NoRow]
  /\ recorded = {}
  /\ credits = [n \in Notes |-> [r \in Records |-> 0]]
  /\ boot = "seeded" /\ resumedAt = 1
  /\ watchers = [r \in Records |-> NoWatch]
  /\ consumed = {} /\ poll = IdlePoll /\ deliveries = {}

Watched == {r \in Records : watchers[r] # NoWatch}

-----------------------------------------------------------------------------
(* A buyer's request: the row, the watcher, the address.                   *)

\* createBuyOrder, then pickAndReserveAmount before the first await of
\* generateOrderAddress.
CreateRecord(r, a) ==
  /\ rows[r].status = "NONE"
  /\ rows' = [rows EXCEPT ![r] = [status |-> "PENDING", addr |-> NoAddr,
                                  amount |-> a, created |-> now]]
  /\ watchers' = [watchers EXCEPT ![r] =
       [addr |-> NoAddr, amount |-> a, created |-> now, original |-> now,
        matched |-> Never]]
  /\ UNCHANGED <<recorded, credits, consumed, poll, deliveries, world, startup>>

HandedOut(a) == \E r \in Records :
  rows[r].addr = a \/ (watchers[r] # NoWatch /\ watchers[r].addr = a)

\* The pool (or, when it is empty, an address worker) answers: the address
\* is filled in on the reserved watcher.
AddressReady(r, a) ==
  /\ watchers[r] # NoWatch /\ watchers[r].addr = NoAddr
  /\ HandedOut(a) => WorkersRepeat
  /\ watchers' = [watchers EXCEPT ![r].addr = a]
  /\ UNCHANGED <<persistent, consumed, poll, deliveries, world, startup>>

\* No address could be had: the reservation is given up, and so is an order,
\* unless that write throws.
AddressFails(r) ==
  /\ watchers[r] # NoWatch /\ watchers[r].addr = NoAddr
  /\ watchers' = [watchers EXCEPT ![r] = NoWatch]
  /\ \/ rows' = rows
     \/ /\ r \notin NearLaunches
        /\ rows' = [rows EXCEPT ![r].status = "FAILED"]
  /\ UNCHANGED <<recorded, credits, consumed, poll, deliveries, world, startup>>

\* setOrderAddress, after which the payer is shown the address.
SetOrderAddress(r) ==
  /\ watchers[r] # NoWatch /\ watchers[r].addr # NoAddr
  /\ rows[r].addr = NoAddr
  /\ rows' = [rows EXCEPT ![r].addr = watchers[r].addr]
  /\ UNCHANGED <<recorded, credits, memory, world, startup>>

-----------------------------------------------------------------------------
(* The chain.                                                              *)

Listed == {n \in Notes : chain[n] # NoNote} \ spent

Arrive(n, note) ==
  /\ chain[n] = NoNote
  /\ chain' = [chain EXCEPT ![n] = note]
  /\ UNCHANGED <<persistent, memory, now, spent, restarts, startup>>

\* A payer sends any amount to the address shown, with or without the memo,
\* whatever has become of the record since.
Pay(n, r, a, style) ==
  /\ rows[r].addr # NoAddr
  /\ Arrive(n, [payer |-> r, amount |-> a,
                div |-> IF Patched THEN rows[r].addr ELSE NoAddr,
                memo |-> IF style.memo THEN r ELSE NoRecord,
                time |-> IF style.timed THEN now ELSE Missing])

\* A payout spends a listed note, whether or not a poll has seen it.
SpendNote(n) ==
  /\ n \in Listed /\ Cardinality(spent) < MaxSpent
  /\ spent' = spent \cup {n}
  /\ UNCHANGED <<persistent, memory, now, chain, restarts, startup>>

\* Boot's first query is answered within a unit of the clock.
Tick ==
  /\ now < MaxTime /\ boot # "resume"
  /\ now' = now + 1
  /\ UNCHANGED <<persistent, memory, chain, spent, restarts, startup>>

-----------------------------------------------------------------------------
(* The poll.                                                               *)

\* A matched watcher lives for the repeat window; an unmatched one until the
\* soft expiry or the hard cap.
Expired(w) ==
  IF w.matched # Never
  THEN now - w.matched > RepeatWindow
  ELSE \/ now - w.created > OrderExpiry
       \/ now - w.original > HardMax

\* The first, synchronous part of pollOnce: expiry, then the request for the
\* notes when a watcher is left.
PollBegin ==
  LET left == [r \in Records |->
                 IF watchers[r] # NoWatch /\ Expired(watchers[r])
                 THEN NoWatch ELSE watchers[r]]
  IN
  /\ poll.phase = "idle"
  /\ watchers' = left
  /\ poll' = IF \A r \in Records : left[r] = NoWatch THEN poll
             ELSE [phase |-> "waiting", begun |-> now, seen |-> Listed]
  /\ UNCHANGED <<persistent, consumed, deliveries, world, startup>>

\* The wallet service fails or times out: the tick ends, nothing changes.
PollFails ==
  /\ poll.phase = "waiting"
  /\ poll' = IdlePoll
  /\ UNCHANGED <<persistent, watchers, consumed, deliveries, world, startup>>

\* Mutant: a note as old as the watcher is taken for a stale one.
FreshEnoughStrict(n, r) ==
  chain[n].time = Missing \/ chain[n].time > watchers[r].original - Grace

FreshEnough(n, r) ==
  chain[n].time = Missing \/ chain[n].time >= watchers[r].original - Grace

\* Mutant: consumedTxids is not consulted.
AvailableAgain(list) == list

\* Whole transactions are excluded, not single notes.
Available(list) == {n \in list : TxOf[n] \notin consumed}

\* Notes each pass may give to a watcher, out of the notes still available.
ByDiversifier(avail) == [r \in Records |->
  {n \in avail : /\ r \in Watched /\ Patched
                 /\ watchers[r].addr # NoAddr /\ chain[n].div = watchers[r].addr
                 /\ FreshEnough(n, r)}]

ByMemo(avail) == [r \in Records |->
  {n \in avail : r \in Watched /\ chain[n].memo = r /\ FreshEnough(n, r)}]

\* Mutant: watchers in their repeat window do not count.
UnambiguousUnmatched(r) == \A q \in Watched \ {r} :
  watchers[q].amount # watchers[r].amount \/ watchers[q].matched # Never

\* Pass 2 refuses to guess when two watched records expect the same amount.
Unambiguous(r) == \A q \in Watched \ {r} : watchers[q].amount # watchers[r].amount

ByAmount(avail) == [r \in Records |->
  {n \in avail : /\ r \in Watched /\ Unambiguous(r)
                 /\ chain[n].amount = watchers[r].amount
                 /\ FreshEnough(n, r)}]

Given(m) == {m[r] : r \in DOMAIN m}

\* The results of one pass over the watchers, each of which takes the first
\* available candidate: the order of the wallet's list is not known.
Passes(cand) ==
  {m \in UNION {[D -> Notes] : D \in SUBSET Records} :
     /\ \A r \in DOMAIN m : m[r] \in cand[r]
     /\ \A r, q \in DOMAIN m : m[r] = m[q] => r = q
     /\ \A r \in Records \ DOMAIN m : cand[r] \subseteq Given(m)}

\* Mutant: isRepeat is read off the watchers as the tick began.
CallbacksStale(m, before) ==
  {[note |-> m[r], rec |-> r, repeat |-> watchers[r].matched # Never, step |-> "fired"]
     : r \in DOMAIN m}

\* onPayment callbacks of a pass; before is the set of records matched so far.
Callbacks(m, before) ==
  {[note |-> m[r], rec |-> r, repeat |-> r \in before, step |-> "fired"]
     : r \in DOMAIN m}

\* What the three passes do: the transactions are used up, a first match
\* opens the repeat window of its watcher, and every match is a callback, a
\* repeat when its watcher has matched before, be it in this very tick.
Attribute(m0, m1, m2) ==
  LET before == {r \in Watched : watchers[r].matched # Never}
      hit == DOMAIN m0 \cup DOMAIN m1 \cup DOMAIN m2
      taken == Given(m0) \cup Given(m1) \cup Given(m2)
  IN
  /\ consumed' = consumed \cup {TxOf[n] : n \in taken}
  /\ watchers' = [r \in Records |->
       IF r \in hit \ before THEN [watchers[r] EXCEPT !.matched = now]
       ELSE watchers[r]]
  /\ deliveries' = deliveries
       \cup Callbacks(m0, before)
       \cup Callbacks(m1, before \cup DOMAIN m0)
       \cup Callbacks(m2, before \cup DOMAIN m0 \cup DOMAIN m1)

\* The second part of pollOnce, synchronous from the answer on.  The service
\* read the list at some moment between the request and the answer.
PollReply(list) ==
  /\ poll.phase = "waiting"
  /\ poll.seen \ spent \subseteq list /\ list \subseteq poll.seen \cup Listed
  /\ \E m0 \in Passes(ByDiversifier(Available(list))) :
     \E m1 \in Passes(ByMemo(Available(list) \ Given(m0))) :
     \E m2 \in Passes(ByAmount(Available(list) \ (Given(m0) \cup Given(m1)))) :
       Attribute(m0, m1, m2)
  /\ poll' = IdlePoll
  /\ UNCHANGED <<persistent, world, startup>>

-----------------------------------------------------------------------------
(* Settlement: handlePaymentDetected, cut where it awaits.                 *)

Advance(d, step) ==
  deliveries' = (deliveries \ {d}) \cup {[d EXCEPT !.step = step]}

\* The status is read once, before the token's lock is taken.  A repeat of
\* an order needs the original filled; a launch accepts any payment while
\* it is pending.
Accepts(d) ==
  rows[d.rec].status =
    IF d.repeat /\ d.rec \notin NearLaunches THEN "FILLED" ELSE "PENDING"

HandlerCheck(d) ==
  /\ d.step = "fired"
  /\ Advance(d, IF Accepts(d) THEN "checked" ELSE "over")
  /\ UNCHANGED <<persistent, watchers, consumed, poll, world, startup>>

\* The buy is applied to the curve and the balance.
HandlerCredit(d) ==
  /\ d.step = "checked" /\ d.rec \notin NearLaunches
  /\ credits' = [credits EXCEPT ![d.note][d.rec] = @ + 1]
  /\ Advance(d, "credited")
  /\ UNCHANGED <<rows, recorded, watchers, consumed, poll, world, startup>>

\* fillBuyOrder, or createRepeatBuyOrder for a repeat: the txid is stored.
HandlerRecord(d) ==
  /\ d.step = "credited"
  /\ rows' = IF d.repeat THEN rows ELSE [rows EXCEPT ![d.rec].status = "FILLED"]
  /\ recorded' = recorded \cup {TxOf[d.note]}
  /\ Advance(d, "recorded")
  /\ UNCHANGED <<credits, watchers, consumed, poll, world, startup>>

\* markNearLaunchPaid stores the txid on the launch, which
\* getAllKnownPaymentTxids does not read.
HandlerMarkPaid(d) ==
  /\ d.step = "checked" /\ d.rec \in NearLaunches
  /\ credits' = [credits EXCEPT ![d.note][d.rec] = @ + 1]
  /\ rows' = [rows EXCEPT ![d.rec].status = "FILLED"]
  /\ Advance(d, "recorded")
  /\ UNCHANGED <<recorded, watchers, consumed, poll, world, startup>>

\* A read or a write of the database throws.  The catch fails an original
\* order, unless that write throws as well; a repeat and a launch are only
\* logged.
HandlerThrows(d) ==
  /\ d.step \in {"fired", "checked", "credited"}
  /\ \/ rows' = rows
     \/ /\ ~d.repeat /\ d.rec \notin NearLaunches
        /\ rows' = [rows EXCEPT ![d.rec].status = "FAILED"]
  /\ Advance(d, "over")
  /\ UNCHANGED <<recorded, credits, watchers, consumed, poll, world, startup>>

-----------------------------------------------------------------------------
(* Boot and crash.                                                         *)

Due(r) ==
  /\ watchers[r] = NoWatch
  /\ rows[r].status = "PENDING" /\ rows[r].addr # NoAddr
  /\ ~(now - rows[r].created > HardMax)

\* Mutants: the original creation time is set afresh, or the soft expiry runs from
\* it.
ResumedAfresh(r) ==
  IF Due(r)
  THEN [addr |-> rows[r].addr, amount |-> rows[r].amount, created |-> now,
        original |-> now, matched |-> Never]
  ELSE watchers[r]
ResumedOld(r) ==
  IF Due(r)
  THEN [addr |-> rows[r].addr, amount |-> rows[r].amount, created |-> rows[r].created,
        original |-> rows[r].created, matched |-> Never]
  ELSE watchers[r]

\* resumeWatching, for every pending row that has an address.
Resumed(r) ==
  IF Due(r)
  THEN [addr |-> rows[r].addr, amount |-> rows[r].amount, created |-> now,
        original |-> rows[r].created, matched |-> Never]
  ELSE watchers[r]

BootResume ==
  /\ boot = "resume"
  /\ watchers' = [r \in Records |-> Resumed(r)]
  /\ boot' = "seed" /\ resumedAt' = now
  /\ UNCHANGED <<persistent, consumed, poll, deliveries, world>>

\* The query fails: it is logged and boot goes on without the watchers.
BootResumeFails ==
  /\ boot = "resume"
  /\ boot' = "seed" /\ resumedAt' = Never
  /\ UNCHANGED <<persistent, memory, world>>

\* Mutant: the set is replaced, not added to.
BootSeedReplaces ==
  /\ boot = "seed"
  /\ consumed' = recorded
  /\ boot' = "seeded"
  /\ UNCHANGED <<resumedAt, persistent, watchers, poll, deliveries, world>>

BootSeed ==
  /\ boot = "seed"
  /\ consumed' = consumed \cup recorded
  /\ boot' = "seeded"
  /\ UNCHANGED <<resumedAt, persistent, watchers, poll, deliveries, world>>

BootSeedFails ==
  /\ boot = "seed"
  /\ boot' = "unseeded"
  /\ UNCHANGED <<resumedAt, persistent, memory, world>>

Restart ==
  /\ restarts < MaxRestarts
  /\ restarts' = restarts + 1
  /\ boot' = "resume" /\ resumedAt' = Never
  /\ watchers' = [r \in Records |-> NoWatch]
  /\ consumed' = {} /\ poll' = IdlePoll /\ deliveries' = {}
  /\ UNCHANGED <<persistent, now, chain, spent>>

-----------------------------------------------------------------------------
Request ==
  \E r \in Records :
    \/ \E a \in Amounts : CreateRecord(r, a)
    \/ \E a \in Addresses : AddressReady(r, a)
    \/ AddressFails(r)
    \/ SetOrderAddress(r)

Chain ==
  \/ \E n \in Notes, r \in Records, a \in Amounts, style \in Styles :
       Pay(n, r, a, style)
  \/ \E n \in Notes : SpendNote(n)
  \/ Tick

PollAnswered == \E list \in SUBSET Notes : PollReply(list)
Poll == PollBegin \/ PollAnswered \/ PollFails

Settle(d) ==
  \/ HandlerCheck(d)
  \/ HandlerCredit(d)
  \/ HandlerRecord(d)
  \/ HandlerMarkPaid(d)
  \/ HandlerThrows(d)

Boot == BootResume \/ BootResumeFails \/ BootSeed \/ BootSeedFails

Next ==
  \/ Request
  \/ Chain
  \/ Poll
  \/ \E d \in deliveries : Settle(d)
  \/ Boot
  \/ Restart

Spec == Init /\ [][Next]_vars

-----------------------------------------------------------------------------
(* Safety.                                                                 *)

\* A note pays for one record in the life of a process, whichever pass,
\* tick or repeat finds it: no two callbacks carry the same note.
NoteDeliveredOnce ==
  \A d, e \in deliveries : d.note = e.note => d = e

\* Once boot has seeded consumedTxids, no note whose txid the database knows
\* as a payment can be handed to a record again, although fills keep adding
\* txids and notes stay listed for ever.
SeededNotesExcluded ==
  boot = "seeded" => recorded \subseteq consumed

\* A record gets one original payment per process: everything after it is
\* flagged as a repeat, across passes of a tick, ticks and slow settlement.
OneOriginalPayment ==
  \A d, e \in deliveries : d.rec = e.rec /\ ~d.repeat /\ ~e.repeat => d = e

\* The order was failed because no address could be had for it.
AddressLost(r) == rows[r].status = "FAILED" /\ rows[r].addr = NoAddr

\* A payment handed over for an order is taken when the settlement looks at
\* it, however slow the settlements before it are: one original, which finds
\* the order pending, then repeats, which find it filled.  It is dropped, with
\* its transaction used up, in two cases only: the address was lost, or it is
\* a repeat and its original is not recorded.
PaymentsTaken ==
  /\ OneOriginalPayment
  /\ \A d \in deliveries :
       d.step = "fired" /\ d.rec \notin NearLaunches /\ ~AddressLost(d.rec)
       => \/ Accepts(d)
          \/ d.repeat /\ \E e \in deliveries :
               e.rec = d.rec /\ ~e.repeat /\ e.step # "recorded"

NewDeliveries == {d \in deliveries' : d.step = "fired" /\ d \notin deliveries}

\* The address of a record was handed to no other record.
OwnAddress(r) == \A q \in Records \ {r} :
  /\ rows[q].addr # rows[r].addr
  /\ watchers[q] # NoWatch => watchers[q].addr # rows[r].addr

\* A payer who sends exactly the amount asked never pays for somebody else's
\* record while the record paid for is watched and its address is its own:
\* no pass crosses two live orders, even of the same amount.
ExactPaymentNotCrossed ==
  [][\A d \in NewDeliveries :
       LET p == chain[d.note].payer IN
         /\ p \in Watched /\ (Patched => OwnAddress(p))
         /\ chain[d.note].amount = watchers[p].amount
         => d.rec = p]_vars

\* Redeploys do not keep an abandoned record alive: no poll begun after the
\* hard cap, counted from the record's creation, makes its first match.
HardLifetime ==
  [][\A d \in NewDeliveries :
       ~d.repeat => poll.begun - rows[d.rec].created <= HardMax]_vars

Later(s, t) == IF s > t THEN s ELSE t

\* A payment sent around a restart finds somebody watching: a pending record
\* whose payer has the address stays watched for the whole soft window,
\* counted afresh from the last boot, unless a payment for it was found.
NotAbandonedEarly ==
  \A r \in Records :
    /\ rows[r].status = "PENDING" /\ rows[r].addr # NoAddr
    /\ resumedAt # Never
    /\ now - Later(resumedAt, rows[r].created) <= OrderExpiry
    /\ now - rows[r].created <= HardMax
    => r \in Watched \/ \E d \in deliveries : d.rec = r

-----------------------------------------------------------------------------
(* The parts of the inductive invariant that are not properties above.     *)

DeliveredConsumed == \A d \in deliveries : TxOf[d.note] \in consumed

NotesAddressed ==
  \A n \in Notes : chain[n] # NoNote =>
    /\ rows[chain[n].payer].addr # NoAddr
    /\ Patched => chain[n].div = rows[chain[n].payer].addr
    /\ chain[n].memo \in {chain[n].payer, NoRecord}

BlankRows == \A r \in Records :
  rows[r].status = "NONE" => rows[r].addr = NoAddr /\ watchers[r] = NoWatch

PollSeesChain == \A n \in poll.seen : chain[n] # NoNote

IInv ==
  /\ TypeOK
  /\ NoteDeliveredOnce
  /\ SeededNotesExcluded
  /\ DeliveredConsumed
  /\ NotesAddressed
  /\ BlankRows
  /\ PollSeesChain

-----------------------------------------------------------------------------
(* What a comment of the code says of it, and the code does not do.        *)

\* A note that paid one record is not credited to a second one later, also
\* across a restart (zcashReal.ts, on consumedTxids).
NoSecondRecordCredited ==
  \A n \in Notes : \A r, q \in Records :
    credits[n][r] > 0 /\ credits[n][q] > 0 => r = q

-----------------------------------------------------------------------------
(* Liveness.  The poll timer never stops, the wallet service does not fail *)
(* for ever, and a callback that runs is run to its end.                   *)

Fairness ==
  /\ WF_vars(PollBegin)
  /\ SF_vars(PollAnswered)
  /\ WF_vars(BootResume \/ BootResumeFails)
  /\ WF_vars(BootSeed \/ BootSeedFails)
  /\ WF_vars(\E d \in deliveries : Settle(d))

FairSpec == Spec /\ Fairness

\* The note reached the address of a watched record that can take it.
PaidToWatched(n) ==
  /\ n \in Listed
  /\ chain[n].payer \in Watched
  /\ Patched /\ watchers[chain[n].payer].addr = chain[n].div

HandedOver(n) == \E d \in deliveries : d.note = n

\* A payment to the address of a watched record is handed to the settlement
\* in the end, unless the watch ends or a payout spends the note first.
PaymentDetected ==
  \A n \in Notes :
    PaidToWatched(n) ~> (HandedOver(n) \/ ~PaidToWatched(n))
=============================================================================
