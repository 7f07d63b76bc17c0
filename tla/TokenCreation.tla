---------------------------- MODULE TokenCreation ---------------------------
(***************************************************************************)
(* The creation of a token: backend/src/server.ts reserves a symbol, waits *)
(* for the fee, and settles the payment (or an administrator's recovery)   *)
(* into a token and the creator's bundled first buy, one statement of      *)
(* backend/src/lib/store.ts at a time; the creator's page polls the        *)
(* reservation until it is created or failed.                              *)
(*                                                                         *)
(* A settlement is a note the watcher attributed, or a run of the          *)
(* administrator's route.  A note whose txid became a token's genesis memo *)
(* is known again after a restart; any other is detected anew.             *)
(***************************************************************************)
EXTENDS Integers, FiniteSets

CONSTANTS
  Creations,         \* ids of PendingTokenCreation rows
  Symbols,           \* token symbols, upper case
  Settlements,       \* notes that pay for creations, and administrator's runs
  MaxCreationFaults, \* bound: crashes, and statements that throw
  NoCreation, NoSettlement

ASSUME CreationsAssumption == NoCreation \notin Creations /\ NoSettlement \notin Settlements
ASSUME SymbolsAssumption ==
  Symbols # {} /\ IsFiniteSet(Symbols) /\ IsFiniteSet(Settlements)
ASSUME CreationBoundsAssumption == MaxCreationFaults \in Nat

VARIABLES
  creation,        \* database: the reservations, and requests about to make one
  token,           \* database: the token of each symbol
  firstBuys,       \* database: first buys executed for a creation
  settling,        \* memory: the settlements in progress
  page,            \* what the creator's page shows
  disturbed,       \* history: creations whose settlement was broken off, or was
                   \* not the only one under way
  creationFaults

creationRows == <<creation, token, firstBuys>>
creationVars == <<creationRows, settling, page, disturbed, creationFaults>>

Creation == [status : {"NONE", "CHECKED", "PENDING", "CREATED", "FAILED"},
             symbol : Symbols, address : {"none", "asked", "given"}]
Settlement == [creation : Creations \cup {NoCreation}, admin : BOOLEAN,
               at : {"unseen", "complete", "create", "update", "firstBuy", "fail", "over"}]
Token == [of : Creations \cup {NoCreation}, genesis : Settlements \cup {NoSettlement}]

CreationTypeOK ==
  /\ creation \in [Creations -> Creation]
  /\ token \in [Symbols -> Token]
  /\ firstBuys \in [Creations -> Nat]
  /\ settling \in [Settlements -> Settlement]
  /\ page \in [Creations -> {"form", "waiting", "created", "failed"}]
  /\ disturbed \subseteq Creations
  /\ creationFaults \in Nat

NoToken == [of |-> NoCreation, genesis |-> NoSettlement]
Unseen == [creation |-> NoCreation, admin |-> FALSE, at |-> "unseen"]
Settled == [Unseen EXCEPT !.at = "over"]

CreationInit ==
  /\ creation = [c \in Creations |->
       [status |-> "NONE", symbol |-> CHOOSE s \in Symbols : TRUE, address |-> "none"]]
  /\ token = [s \in Symbols |-> NoToken]
  /\ firstBuys = [c \in Creations |-> 0]
  /\ settling = [p \in Settlements |-> Unseen]
  /\ page = [c \in Creations |-> "form"]
  /\ disturbed = {} /\ creationFaults = 0

Fault == creationFaults < MaxCreationFaults /\ creationFaults' = creationFaults + 1
NoFault == creationFaults' = creationFaults

-----------------------------------------------------------------------------
(* POST /api/tokens and the page's submit.                                 *)

\* getToken and isSymbolReserved: a reservation that nobody pays stays PENDING.
Reserved(s) == \E c \in Creations : creation[c].status = "PENDING" /\ creation[c].symbol = s
CheckSymbol(c, s) ==
  /\ creation[c].status = "NONE"
  /\ token[s] = NoToken /\ ~Reserved(s)
  /\ creation' = [creation EXCEPT ![c].status = "CHECKED", ![c].symbol = s]
  /\ UNCHANGED <<token, firstBuys, settling, page, disturbed, creationFaults>>

\* createPendingTokenCreation, after every check was awaited.
Reserve(c) ==
  /\ creation[c].status = "CHECKED"
  /\ creation' = [creation EXCEPT ![c].status = "PENDING", ![c].address = "asked"]
  /\ UNCHANGED <<token, firstBuys, settling, page, disturbed, creationFaults>>

AwaitsAddress(c) == creation[c].address = "asked"

\* generateOrderAddress and setPendingTokenCreationAddress; the page shows it.
Address(c) ==
  /\ AwaitsAddress(c)
  /\ creation' = [creation EXCEPT ![c].address = "given"]
  /\ page' = [page EXCEPT ![c] = "waiting"]
  /\ UNCHANGED <<token, firstBuys, settling, disturbed, creationFaults>>

\* No address: the reservation is given up, unless that write throws.
NoAddress(c) ==
  /\ AwaitsAddress(c)
  /\ \/ creation' = [creation EXCEPT ![c].status = "FAILED", ![c].address = "none"] /\ NoFault
     \/ creation' = [creation EXCEPT ![c].address = "none"] /\ Fault
  /\ UNCHANGED <<token, firstBuys, settling, page, disturbed>>

\* The page's poll.
PollCreation(c) ==
  /\ page[c] = "waiting" /\ creation[c].status \in {"CREATED", "FAILED"}
  /\ page' = [page EXCEPT ![c] = IF creation[c].status = "CREATED" THEN "created" ELSE "failed"]
  /\ UNCHANGED <<creationRows, settling, disturbed, creationFaults>>

-----------------------------------------------------------------------------
(* Settlement.                                                             *)

Active(p) == settling[p].at \notin {"unseen", "over"}
UnderWay(c) == AwaitsAddress(c) \/ \E p \in Settlements : Active(p) /\ settling[p].creation = c

\* A settlement starts on a row it finds PENDING; otherwise nothing happens.
Begin(p, c, admin) ==
  /\ settling[p].at = "unseen"
  /\ settling' = [settling EXCEPT ![p] =
       IF creation[c].status = "PENDING"
       THEN [creation |-> c, admin |-> admin, at |-> "complete"] ELSE Settled]
  /\ disturbed' = IF UnderWay(c) THEN disturbed \cup {c} ELSE disturbed
  /\ UNCHANGED <<creationRows, page, creationFaults>>

\* handlePaymentDetected: the watcher of an addressed creation has a note.
PaymentDetected(p, c) == creation[c].address = "given" /\ Begin(p, c, FALSE)

\* POST /api/admin/force-complete-token-creation
ForceComplete(p, c) == creation[c].status = "PENDING" /\ Begin(p, c, TRUE)

Go(p, at) == settling' = [settling EXCEPT ![p].at = at]
Finish(p) == settling' = [settling EXCEPT ![p] = Settled]

\* What follows a throw: handlePaymentDetected fails the reservation, the
\* administrator's route answers with an error.
Thrown(p) == IF settling[p].admin THEN Finish(p) ELSE Go(p, "fail")

\* completePendingTokenCreation reads the row again.
Complete(p) ==
  LET c == settling[p].creation IN
  /\ settling[p].at = "complete"
  /\ IF creation[c].status = "PENDING" THEN Go(p, "create") ELSE Finish(p)
  /\ UNCHANGED <<creationRows, page, disturbed, creationFaults>>

\* Mutant: a symbol that is taken passes for created.
CreateTokenTaken(p) ==
  LET c == settling[p].creation
      s == creation[c].symbol IN
  /\ settling[p].at = "create"
  /\ token' = IF token[s] = NoToken THEN [token EXCEPT ![s] = [of |-> c, genesis |-> p]] ELSE token
  /\ Go(p, "update")
  /\ UNCHANGED <<creation, firstBuys, page, disturbed, creationFaults>>

\* createToken: the symbol is unique in the database.
CreateToken(p) ==
  LET c == settling[p].creation
      s == creation[c].symbol IN
  /\ settling[p].at = "create"
  /\ IF token[s] = NoToken
     THEN token' = [token EXCEPT ![s] = [of |-> c, genesis |-> p]] /\ Go(p, "update")
     ELSE token' = token /\ Thrown(p)
  /\ UNCHANGED <<creation, firstBuys, page, disturbed, creationFaults>>

CreateTokenThrows(p) ==
  /\ settling[p].at = "create" /\ Fault
  /\ Thrown(p)
  /\ UNCHANGED <<creationRows, page, disturbed>>

\* The row becomes CREATED; only a payment goes on to the bundled first buy.
MarkCreated(p) ==
  LET c == settling[p].creation IN
  /\ settling[p].at = "update"
  /\ creation' = [creation EXCEPT ![c].status = "CREATED"]
  /\ IF settling[p].admin THEN Finish(p) ELSE Go(p, "firstBuy")
  /\ UNCHANGED <<token, firstBuys, page, disturbed, creationFaults>>

MarkCreatedThrows(p) ==
  /\ settling[p].at = "update" /\ Fault
  /\ Thrown(p)
  /\ disturbed' = disturbed \cup {settling[p].creation}
  /\ UNCHANGED <<creationRows, page>>

\* Mutant: a buy that seems to have failed is tried again.
FirstBuyAgain(p) ==
  LET c == settling[p].creation IN
  /\ settling[p].at = "firstBuy" /\ firstBuys[c] <= Cardinality(Settlements)
  /\ \E n \in {0, 1} : firstBuys' = [firstBuys EXCEPT ![c] = @ + n]
  /\ Finish(p) \/ settling' = settling
  /\ UNCHANGED <<creation, token, page, disturbed, creationFaults>>

\* The buy is TokenLedger's.  There may be none, and one that fails is logged and
\* forgotten.
FirstBuy(p) ==
  LET c == settling[p].creation IN
  /\ settling[p].at = "firstBuy"
  /\ \E n \in {0, 1} : firstBuys' = [firstBuys EXCEPT ![c] = @ + n]
  /\ Finish(p)
  /\ UNCHANGED <<creation, token, page, disturbed, creationFaults>>

\* failPendingTokenCreation, whatever the row says by now; or it throws too.
FailCreation(p) ==
  LET c == settling[p].creation IN
  /\ settling[p].at = "fail"
  /\ \/ creation' = [creation EXCEPT ![c].status = "FAILED"] /\ NoFault
     \/ creation' = creation /\ Fault
  /\ Finish(p)
  /\ UNCHANGED <<token, firstBuys, page, disturbed>>

\* The backend stops and boots: requests in progress are gone, a note is forgotten
\* unless a token names it, and the watchers of pending, addressed creations come
\* back.
Known(p) == \E s \in Symbols : token[s].genesis = p
RestartCreations ==
  /\ Fault
  /\ settling' = [p \in Settlements |-> IF Known(p) THEN Settled ELSE Unseen]
  /\ creation' = [c \in Creations |->
       [creation[c] EXCEPT !.status = IF @ = "CHECKED" THEN "NONE" ELSE @,
                           !.address = IF @ = "asked" THEN "none" ELSE @]]
  /\ disturbed' = disturbed \cup
       {c \in Creations : \E p \in Settlements : settling[p].creation = c /\ Active(p)}
  /\ UNCHANGED <<token, firstBuys, page>>

CreationNext ==
  \/ \E c \in Creations : \/ \E s \in Symbols : CheckSymbol(c, s)
                          \/ Reserve(c) \/ Address(c) \/ NoAddress(c) \/ PollCreation(c)
  \/ \E p \in Settlements, c \in Creations : PaymentDetected(p, c) \/ ForceComplete(p, c)
  \/ \E p \in Settlements :
       \/ Complete(p) \/ CreateToken(p) \/ CreateTokenThrows(p)
       \/ MarkCreated(p) \/ MarkCreatedThrows(p) \/ FirstBuy(p) \/ FailCreation(p)
  \/ RestartCreations

CreationSpec == CreationInit /\ [][CreationNext]_creationVars

-----------------------------------------------------------------------------
(* Properties.                                                             *)

Owns(c) == \E s \in Symbols : token[s].of = c

\* What a reservation says is true: unless its settlement was broken off or ran
\* beside another one, it is CREATED exactly when its token exists (or the next
\* statement is about to say so), and a creator whose page shows a failure has no
\* token.  Two reservations of one symbol may both be paid: one of them fails.
CreationTold == \A c \in Creations \ disturbed :
  /\ Owns(c) => \/ creation[c].status = "CREATED"
                \/ \E p \in Settlements : settling[p].creation = c /\ settling[p].at = "update"
  /\ creation[c].status = "CREATED" => Owns(c)
  /\ page[c] = "failed" => ~Owns(c)

\* However often a creation is paid, recovered, retried or interrupted, the
\* creator's bundled buy is executed at most once, and only on a token that this
\* creation made (the symbol's uniqueness is what stands behind it: the status is
\* read before it is written).
FirstBuyOnce == \A c \in Creations : firstBuys[c] <= IF Owns(c) THEN 1 ELSE 0
=============================================================================
