---------------------------- MODULE PaymentPages -----------------------------
(***************************************************************************)
(* The pages of the browser that ask for a payment and wait for it: the    *)
(* dialogs that buy and sell a token, the page that creates a token and    *)
(* the page that launches one on NEAR (frontend/app/launchpad).  NftPages  *)
(* adds the pages of the collection that work the same way.                *)
(*                                                                         *)
(* A page asks the backend for a record (an order, a creation, a launch),  *)
(* shows where to pay, lets the extension of a wallet send the payment,    *)
(* and asks again and again what became of the record.  Every await of a   *)
(* handler is a point where anything else may happen first: a second       *)
(* answer, another click, leaving the page, the record settling.  One page *)
(* is open, and what it shows decides what can be clicked.                 *)
(*                                                                         *)
(* Statuses have one name for all kinds of record: "done" is FILLED,       *)
(* CREATED or LIVE, "paid" is PAID or DEPLOYING.  What is typed into the   *)
(* forms, and how much is paid, is left out.                               *)
(***************************************************************************)
EXTENDS Integers

CONSTANTS
  Kinds,       \* the pages explored: "buy", "sell", "create", "launch", ...
  Again,       \* bound: the pages on which a second record is explored
  Records,     \* records the backend may make
  NoRecord,    \* not a record
  MaxSends,    \* bound: sends of a record, asked for, made or failed
  MaxQuotes    \* bound: amounts asked for a launch

ASSUME NoRecordAssumption == NoRecord \notin Records

VARIABLES
  kind,      \* which page is open
  page,      \* its React state
  call,      \* the request that makes a record, as far as it came
  row,       \* database: the status of each record
  been,      \* history: <<record, status>> that were so at some time
  mine,      \* history: the records made for the page as it is open now
  answers,   \* <<record, status, phase it was asked in>> on their way to the page
  asked,     \* sends of a record that wait for the approval of a wallet
  unheard,   \* sends made whose answer has not reached the page
  sends,     \* history: payments the page made for a record
  troubles,  \* history: errors the page showed about a payment of a record
  quoted,    \* history: times an amount to pay was asked for a record
  quotes,    \* launch: per method, the quotes on their way to the page
  proofs     \* launch: payments presented to the backend, not yet answered

moneyVars == <<asked, unheard, sends, troubles>>
serverVars == <<row, been>>
launchOnlyVars == <<quotes, proofs>>
pageVars == <<kind, page, call, serverVars, mine, answers, moneyVars, quoted,
              launchOnlyVars>>

Statuses == {"none", "pending", "paid", "done", "failed"}
Methods == {"ZEC", "WALLET"}
PagePhases == {"amount", "form", "idle", "loading", "confirm", "soldOut", "notConfigured",
           "waiting", "pickMethod", "pay", "confirming", "orchestrating",
           "filled", "result", "created", "revealed", "live", "failed"}
DonePhases == {"filled", "result", "created", "revealed", "live"}

\* The phase in which a page of each kind opens.
FirstPhase ==
  CASE kind = "buy" -> "amount"
    [] kind \in {"sell", "create", "launch"} -> "form"
    [] kind = "item" -> "idle"
    [] OTHER -> "loading"
Opening == [phase |-> FirstPhase, record |-> NoRecord, asking |-> FALSE,
            sending |-> FALSE, sent |-> FALSE, method |-> "none"]
NoCall == [at |-> "none", record |-> NoRecord]

PagesTypeOK ==
  /\ kind \in Kinds
  /\ page \in [phase : PagePhases, record : Records \cup {NoRecord}, asking : BOOLEAN,
               sending : BOOLEAN, sent : BOOLEAN, method : Methods \cup {"none"}]
  /\ call \in [at : {"none", "asked", "opened"}, record : Records \cup {NoRecord}]
  /\ row \in [Records -> Statuses]
  /\ been \subseteq Records \X Statuses
  /\ answers \subseteq Records \X Statuses \X PagePhases
  /\ mine \subseteq Records
  /\ \A f \in {asked, unheard, sends, troubles, quoted} : f \in [Records -> Nat]
  /\ quotes \in [Methods -> Nat] /\ proofs \in Nat

PagesInit ==
  /\ kind \in Kinds
  /\ page = Opening /\ call = NoCall
  /\ row = [r \in Records |-> "none"] /\ been = {}
  /\ mine = {} /\ answers = {}
  /\ asked = [r \in Records |-> 0] /\ unheard = asked
  /\ sends = asked /\ troubles = asked /\ quoted = asked
  /\ quotes = [m \in Methods |-> 0] /\ proofs = 0

-----------------------------------------------------------------------------
\* What the pages have in common.

Button(b, shown) == IF shown THEN {b} ELSE {}

\* The status of r becomes s.
Become(r, s) ==
  /\ row' = [row EXCEPT ![r] = s]
  /\ been' = been \cup {<<r, s>>}

\* A handler sets its WAIT flag and calls the backend.
Asks ==
  /\ call.at = "none"
  /\ page' = [page EXCEPT !.asking = TRUE]
  /\ call' = [at |-> "asked", record |-> NoRecord]
  /\ UNCHANGED <<kind, serverVars, mine, answers, moneyVars, quoted, launchOnlyVars>>

\* The answer arrives: the record is kept and what comes next is shown.
Opens(phase) ==
  /\ call.at = "opened"
  /\ page' = [page EXCEPT !.phase = phase, !.record = call.record, !.asking = FALSE]
  /\ call' = NoCall
  /\ UNCHANGED <<kind, serverVars, mine, answers, moneyVars, quoted, launchOnlyVars>>

\* The call, its answer or what the handler does with the answer fails: the
\* message is shown in the phase the page was in.  When it is the drawing of the
\* QR code that fails, the record has already been kept.
Refuses ==
  /\ call.at # "none"
  /\ \E r \in {page.record} \cup ({call.record} \ {NoRecord}) :
       page' = [page EXCEPT !.record = r, !.asking = FALSE]
  /\ call' = NoCall
  /\ UNCHANGED <<kind, serverVars, mine, answers, asked, unheard, sends, quoted,
                 launchOnlyVars>>
Refused == Refuses /\ UNCHANGED troubles

Fresh(r) == row[r] = "none" /\ (kind \in Again \/ \A q \in Records : row[q] = "none")

\* The backend makes the record; the answer is on its way.
RecordMade(r) ==
  /\ call.at = "asked" /\ Fresh(r)
  /\ call' = [at |-> "opened", record |-> r]
  /\ Become(r, "pending")
  /\ mine' = mine \cup {r}
  /\ quoted' = [quoted EXCEPT ![r] = IF kind = "launch" THEN 0 ELSE 1]
  /\ UNCHANGED <<kind, page, answers, moneyVars, launchOnlyVars>>

\* The backend detects the payment, builds what was paid for, or gives up: the
\* other modules say when.
RecordSettles(r) ==
  /\ \/ row[r] = "pending" /\ kind # "launch" /\ \E s \in {"done", "failed"} : Become(r, s)
     \/ row[r] = "pending" /\ kind = "launch" /\ Become(r, "paid")
     \/ row[r] = "paid" /\ \E s \in {"done", "failed"} : Become(r, s)
  /\ UNCHANGED <<kind, page, call, mine, answers, moneyVars, quoted, launchOnlyVars>>

\* The extension of a wallet is asked to send the exact amount.
AsksWallet ==
  /\ page.record # NoRecord
  /\ sends[page.record] + asked[page.record] + troubles[page.record] < MaxSends
  /\ page' = [page EXCEPT !.sending = TRUE]
  /\ asked' = [asked EXCEPT ![page.record] = @ + 1]
  /\ UNCHANGED <<kind, call, serverVars, mine, answers, unheard, sends, troubles, quoted,
                 launchOnlyVars>>

\* The user approves and the wallet sends.
WalletSends(r) ==
  /\ asked[r] > 0
  /\ asked' = [asked EXCEPT ![r] = @ - 1]
  /\ unheard' = [unheard EXCEPT ![r] = @ + 1]
  /\ sends' = [sends EXCEPT ![r] = @ + 1]
  /\ UNCHANGED <<kind, page, call, serverVars, mine, answers, troubles, quoted,
                 launchOnlyVars>>

\* Mutant: the id of the transaction is not kept.
NoirSentUnkept ==
  \E r \in mine :
    /\ unheard[r] > 0
    /\ unheard' = [unheard EXCEPT ![r] = @ - 1]
    /\ page' = [page EXCEPT !.sending = FALSE]
    /\ UNCHANGED <<kind, call, serverVars, mine, answers, asked, sends, troubles, quoted,
                   launchOnlyVars>>

\* The id of the transaction comes back: a note replaces the button.
NoirSent ==
  \E r \in mine :
    /\ unheard[r] > 0
    /\ unheard' = [unheard EXCEPT ![r] = @ - 1]
    /\ page' = [page EXCEPT !.sent = TRUE, !.sending = FALSE]
    /\ UNCHANGED <<kind, call, serverVars, mine, answers, asked, sends, troubles, quoted,
                   launchOnlyVars>>

\* Refused by the user, or failed before or after the payment went out.
WalletFails ==
  \E r \in mine :
    /\ \/ asked[r] > 0 /\ asked' = [asked EXCEPT ![r] = @ - 1] /\ UNCHANGED unheard
       \/ unheard[r] > 0 /\ unheard' = [unheard EXCEPT ![r] = @ - 1] /\ UNCHANGED asked
    /\ troubles' = [troubles EXCEPT ![r] = @ + 1]
    /\ page' = [page EXCEPT !.sending = FALSE]
    /\ UNCHANGED <<kind, call, serverVars, mine, answers, sends, quoted, launchOnlyVars>>

\* payWithNoir, the same on every page that has it.
PaysWithNoir(buttons) == ("pay" \in buttons /\ AsksWallet) \/ NoirSent \/ WalletFails

\* The timer asks what became of the record.  The answer may be late, overtaken,
\* or one of several that say the same.
AsksStatus ==
  /\ page.record # NoRecord
  /\ answers' = answers \cup {<<page.record, row[page.record], page.phase>>}
  /\ UNCHANGED <<kind, page, call, serverVars, mine, moneyVars, quoted, launchOnlyVars>>

\* An answer arrives and leads to a phase.
Hears(a, phase) ==
  /\ page' = [page EXCEPT !.phase = phase]
  /\ answers' \in {answers, answers \ {a}}
  /\ UNCHANGED <<kind, call, serverVars, mine, moneyVars, quoted, launchOnlyVars>>

\* The component goes away: closed, or another page.  What it still waits for is
\* dropped when it comes; a payment that waits for approval may still be made.
Leave ==
  /\ page # Opening \/ call # NoCall
  /\ page' = Opening /\ call' = NoCall
  /\ mine' = {} /\ answers' = {}
  /\ quotes' = [m \in Methods |-> 0] /\ proofs' = 0
  /\ UNCHANGED <<kind, serverVars, moneyVars, quoted>>

-----------------------------------------------------------------------------
\* Buying a token: BuyModal.tsx.

BuyView ==
  Button("submit", page.phase = "amount" /\ ~page.asking)
  \cup Button("pay", page.phase = "waiting" /\ ~page.sent /\ ~page.sending)

BuySubmit ==
  kind = "buy" /\ (("submit" \in BuyView /\ Asks) \/ Opens("waiting") \/ Refused)

BuyPay == kind = "buy" /\ PaysWithNoir(BuyView)

BuyAfter(s) ==
  CASE s = "done" -> "filled" [] s = "failed" -> "failed" [] OTHER -> page.phase
BuyPoll ==
  /\ kind = "buy"
  /\ \/ page.phase = "waiting" /\ AsksStatus
     \/ \E a \in answers : Hears(a, BuyAfter(a[2]))

-----------------------------------------------------------------------------
\* Selling a token: SellModal.tsx.  The record stands for what one dialog sells;
\* it is sold and paid out within the call.

SellView == Button("submit", page.phase = "form" /\ ~page.asking)

SellSubmit ==
  /\ kind = "sell"
  /\ \/ "submit" \in SellView /\ Asks
     \/ Opens("result")
     \* an error after the sale is all the seller hears of it
     \/ /\ Refuses
        /\ troubles' = [r \in Records |-> troubles[r] + IF call.record = r THEN 1 ELSE 0]

\* POST /api/orders/sell, which TokenLedger models.
SaleMade(r) ==
  /\ kind = "sell" /\ call.at = "asked"
  /\ mine = {r} \/ (mine = {} /\ Fresh(r))
  /\ sends[r] < MaxSends
  /\ call' = [at |-> "opened", record |-> r]
  /\ Become(r, "done")
  /\ mine' = {r}
  /\ sends' = [sends EXCEPT ![r] = @ + 1]
  /\ quoted' = [quoted EXCEPT ![r] = 1]
  /\ UNCHANGED <<kind, page, answers, asked, unheard, troubles, launchOnlyVars>>

-----------------------------------------------------------------------------
\* Creating a token: create/page.tsx.

CreateFormView == Button("submit", page.phase = "form" /\ ~page.asking)
CreateWaitView == Button("pay", page.phase = "waiting" /\ ~page.sent /\ ~page.sending)
CreateFailedView == Button("retry", page.phase = "failed")

CreateSubmit ==
  kind = "create" /\ (("submit" \in CreateFormView /\ Asks) \/ Opens("waiting") \/ Refused)

CreatePay == kind = "create" /\ PaysWithNoir(CreateWaitView)

CreateAfter(s) ==
  CASE s = "done" -> "created" [] s = "failed" -> "failed" [] OTHER -> page.phase
CreatePoll ==
  /\ kind = "create"
  /\ \/ page.phase = "waiting" /\ AsksStatus
     \/ \E a \in answers : Hears(a, CreateAfter(a[2]))

\* Back to the form.  The fields of the payment are cleared, but what payWithNoir
\* set is not, and answers about the old creation may still come.
CreateRetry ==
  /\ kind = "create" /\ "retry" \in CreateFailedView
  /\ page' = [page EXCEPT !.phase = "form", !.record = NoRecord]
  /\ UNCHANGED <<kind, call, serverVars, mine, answers, moneyVars, quoted, launchOnlyVars>>

-----------------------------------------------------------------------------
\* Launching a token on NEAR: near/page.tsx.

LaunchFormView == Button("submit", page.phase = "form" /\ ~page.asking)
LaunchPickView == IF page.phase = "pickMethod" THEN Methods ELSE {}
LaunchPayView ==
  Button("pay", page.phase = "pay" /\ page.method = "WALLET" /\ ~page.sending)

LaunchSubmit ==
  kind = "launch" /\ (("submit" \in LaunchFormView /\ Asks) \/ Opens("pickMethod") \/ Refused)

\* Nothing keeps a second method from being picked before the first is quoted:
\* each quote that comes puts the page into "pay", whatever it shows by then, unless
\* none was made, or the code of a quote in ZEC cannot be drawn.
LaunchPick ==
  /\ kind = "launch"
  /\ \/ \E m \in LaunchPickView :
          /\ quoted[page.record] < MaxQuotes
          /\ quotes' = [quotes EXCEPT ![m] = @ + 1]
          /\ quoted' = [quoted EXCEPT ![page.record] = @ + 1]
          /\ page' = [page EXCEPT !.method = "none"]
     \/ \E m \in Methods :
          /\ quotes[m] > 0
          /\ quotes' = [quotes EXCEPT ![m] = @ - 1]
          /\ \/ page' \in {[page EXCEPT !.method = m, !.phase = "pay"], page}
             \/ m = "ZEC" /\ page' = [page EXCEPT !.method = m]
          /\ UNCHANGED quoted
  /\ UNCHANGED <<call, kind, serverVars, mine, answers, moneyVars, proofs>>

\* A payment that a wallet of another chain sent is presented to the backend.
LaunchPay ==
  /\ kind = "launch"
  /\ \/ "pay" \in LaunchPayView /\ AsksWallet
     \/ WalletFails
     \/ \E r \in mine :
          /\ unheard[r] > 0
          /\ unheard' = [unheard EXCEPT ![r] = @ - 1]
          /\ page' = [page EXCEPT !.phase = "confirming", !.sending = FALSE]
          /\ proofs' = proofs + 1
          /\ UNCHANGED <<kind, call, serverVars, mine, answers, asked, sends, troubles,
                         quoted, quotes>>

\* submitProofWithRetry.  While confirmations are missing it is presented again,
\* which changes nothing here; any other error gives the button back.
LaunchProof ==
  /\ kind = "launch" /\ proofs > 0
  /\ proofs' = proofs - 1
  /\ \/ /\ row[page.record] # "pending"
        /\ page' = [page EXCEPT !.phase =
                      IF row[page.record] = "failed" THEN "failed" ELSE "orchestrating"]
        /\ UNCHANGED troubles
     \/ /\ page' = [page EXCEPT !.phase = "pay"]
        /\ troubles' = [troubles EXCEPT ![page.record] = @ + 1]
  /\ UNCHANGED <<kind, call, serverVars, mine, answers, asked, unheard, sends, quoted, quotes>>

\* Mutant: any answer but a failure is taken for the payment.
LaunchZecAfterAny(s) == IF s = "failed" THEN "failed" ELSE "orchestrating"

\* A ZEC payment is found by the backend: the page watches the launch leave PENDING.
LaunchZecAfter(s) ==
  CASE s = "pending" -> page.phase [] s = "failed" -> "failed" [] OTHER -> "orchestrating"

LaunchDeployAfter(s) ==
  CASE s = "done" -> "live" [] s = "failed" -> "failed" [] OTHER -> page.phase

LaunchAfter(s, p) == IF p = "pay" THEN LaunchZecAfter(s) ELSE LaunchDeployAfter(s)
LaunchPoll ==
  /\ kind = "launch"
  /\ \/ page.phase = "pay" /\ page.method = "ZEC" /\ AsksStatus
     \/ page.phase = "orchestrating" /\ AsksStatus
     \/ \E a \in answers : Hears(a, LaunchAfter(a[2], a[3]))

-----------------------------------------------------------------------------
LaunchpadNext ==
  /\ kind \in {"buy", "sell", "create", "launch"}
  /\ \/ BuySubmit \/ BuyPay \/ BuyPoll
     \/ SellSubmit
     \/ CreateSubmit \/ CreatePay \/ CreatePoll \/ CreateRetry
     \/ LaunchSubmit \/ LaunchPick \/ LaunchPay \/ LaunchProof \/ LaunchPoll
     \/ \E r \in Records :
          \/ kind # "sell" /\ RecordMade(r)
          \/ SaleMade(r) \/ RecordSettles(r) \/ WalletSends(r)
     \/ Leave

\* A page says that its record is done, deployed or failed only when that is so:
\* however answers overtake each other, whatever was clicked and left meanwhile
\* (setPhase in the polls of BuyModal.tsx, create/page.tsx, near/page.tsx, the mint
\* page and the page of a piece).  After a retry the page of a creation may speak
\* of any creation made in it.
PageTellsTruth ==
  /\ page.phase \in DonePhases =>
       \E r \in (IF kind = "create" THEN mine ELSE {page.record}) : <<r, "done">> \in been
  /\ page.phase = "orchestrating" => <<page.record, "paid">> \in been
  /\ page.phase = "failed" => \E r \in mine : <<r, "failed">> \in been

\* A page lets its user pay (or sell) once for each amount it quoted, and once
\* more for each error it showed about it: no second click, no late answer and no
\* return to the form offers what was already sent (payWithNoir, payWithWallet,
\* submit of SellModal.tsx).
PaidOnceUnlessTold == \A r \in Records : sends[r] <= quoted[r] + troubles[r]
=============================================================================
