------------------------------- MODULE XLogin --------------------------------
(***************************************************************************)
(* Signing in with X in one browser, and what rests on it: the page that   *)
(* mints claims the whitelist entry of the handle that signed in, through  *)
(* a proxy that takes the handle from a signed cookie and from nowhere     *)
(* else (frontend/app/api/auth/twitter, frontend/app/api/nft/whitelist).   *)
(*                                                                         *)
(* Nothing is kept on the server: the attempt under way and the handle     *)
(* that signed in are two cookies, shared by the tabs of the browser, in   *)
(* which people may sign in with several accounts, one after the other or  *)
(* in two tabs at once.  The page shows the handle it once asked for.  The *)
(* wizard that submits entries is closed (WHITELIST_CLOSED): its proxy is  *)
(* called by tabs that loaded it before.                                   *)
(*                                                                         *)
(* Left out: an X login that is not configured, and where the browser is   *)
(* sent back to.                                                           *)
(***************************************************************************)
EXTENDS Integers

CONSTANTS
  Attempts,    \* visits of start, each with a state and a PKCE pair of its own
  XAccounts,   \* X accounts
  NoAttempt,   \* not an attempt
  NoAccount,   \* not an account
  PendingTtl,  \* PENDING_TTL_SECONDS
  VerifiedTtl, \* VERIFIED_TTL_SECONDS
  MaxXTime,    \* bound: the clock
  MaxReads     \* bound: times the page asks who signed in

ASSUME XNamesAssumption == NoAccount \notin XAccounts /\ NoAttempt \notin Attempts
ASSUME XTimesAssumption == {PendingTtl, VerifiedTtl, MaxXTime, MaxReads} \subseteq Nat

VARIABLES
  time,      \* the server's clock
  pending,   \* cookie zodd_oauth_pending: the attempt, its expiry
  verified,  \* cookie zodd_verified_x: the account, its expiry
  attempt,   \* X: how far each attempt came, or the account its code stands for
  callbacks, \* attempts whose callback is being served
  logins,    \* history: accounts X named, and when
  mintTab,   \* the page that mints: [open, shown, since, claiming]
  reads,     \* answers about the session on their way: the account, and whether
             \* somebody signed in since
  sessionsAsked,     \* reads so far
  claims,    \* claims and submissions on their way to the proxy
  relayed,   \* history: what a proxy passed on last
  listing,     \* the backend's whitelist: the status of each handle
  stood,     \* history: <<account, status>> that were so at some time
  typed,     \* the closed whitelist's page: the handle typed
  checks,    \* its answers on their way
  result     \* what it shows

cookieVars == <<pending, verified>>
oauthVars == <<cookieVars, attempt, callbacks, logins>>
mintPageVars == <<mintTab, reads, sessionsAsked, claims>>
statusVars == <<typed, checks, result>>
xLoginVars == <<time, oauthVars, mintPageVars, relayed>>
xStatusVars == <<statusVars, listing, stood>>
xVars == <<xLoginVars, xStatusVars>>

NoPending == [attempt |-> NoAttempt, exp |-> 0]
NoVerified == [account |-> NoAccount, exp |-> 0]
NoPage == [open |-> FALSE, shown |-> NoAccount, since |-> FALSE, claiming |-> FALSE]
Entries == {"none", "PENDING", "APPROVED", "REJECTED"}
NotRelayed == [account |-> NoAccount, at |-> 0, shown |-> NoAccount, since |-> FALSE]
NotChecked == <<NoAccount, "unchecked">>

Somebody == XAccounts \cup {NoAccount}

XTypeOK ==
  /\ time \in 0 .. MaxXTime
  /\ pending \in [attempt : Attempts \cup {NoAttempt}, exp : Nat]
  /\ verified \in [account : Somebody, exp : Nat]
  /\ attempt \in [Attempts -> {"fresh", "started", "spent"} \cup XAccounts]
  /\ callbacks \subseteq Attempts
  /\ logins \subseteq [account : XAccounts, at : 0 .. MaxXTime]
  /\ mintTab \in [open : BOOLEAN, shown : Somebody, since : BOOLEAN, claiming : BOOLEAN]
  /\ reads \subseteq [account : Somebody, since : BOOLEAN]
  /\ sessionsAsked \in 0 .. MaxReads
  /\ claims \subseteq [cookie : [account : Somebody, exp : Nat], shown : Somebody,
                      since : BOOLEAN]
  /\ relayed \in [account : Somebody, at : 0 .. MaxXTime, shown : Somebody,
                  since : BOOLEAN]
  /\ listing \in [XAccounts -> Entries] /\ stood \subseteq XAccounts \X Entries
  /\ typed \in Somebody
  /\ checks \subseteq XAccounts \X Entries
  /\ result \in (XAccounts \X Entries) \cup {NotChecked}

XInit ==
  /\ time = 0 /\ pending = NoPending /\ verified = NoVerified
  /\ attempt = [a \in Attempts |-> "fresh"] /\ callbacks = {} /\ logins = {}
  /\ mintTab = NoPage /\ reads = {} /\ sessionsAsked = 0 /\ claims = {}
  /\ relayed = NotRelayed
  /\ listing = [c \in XAccounts |-> "none"] /\ stood = {}
  /\ typed = NoAccount /\ checks = {} /\ result = NotChecked

-----------------------------------------------------------------------------
\* Cookies.

\* Mutant: the expiry is not looked at.
VerifyTokenForever(token) == TRUE

\* verifyToken: the signature holds; the token has not expired.
VerifyToken(token) == ~(time > token.exp)

\* What a request that carries the cookie says of who signed in.
Session(cookie) == IF VerifyToken(cookie) THEN cookie.account ELSE NoAccount

-----------------------------------------------------------------------------
\* Signing in.

\* GET start: the tab leaves for X.  An attempt of another tab loses its cookie.
Start(a) ==
  /\ attempt[a] = "fresh"
  /\ attempt' = [attempt EXCEPT ![a] = "started"]
  /\ pending' = [attempt |-> a, exp |-> time + PendingTtl]
  /\ mintTab' \in {mintTab, NoPage}
  /\ UNCHANGED <<time, verified, callbacks, logins, reads, sessionsAsked, claims, relayed>>

\* Somebody signs in at X and consents: X sends the browser back with a code.
Consents(a) ==
  /\ attempt[a] = "started"
  /\ \E c \in XAccounts : attempt' = [attempt EXCEPT ![a] = c]
  /\ UNCHANGED <<time, cookieVars, callbacks, logins, mintPageVars, relayed>>

\* GET callback, up to the exchange of the code: the state is that of the cookie.
Callback(a) ==
  /\ attempt[a] \in XAccounts
  /\ pending.attempt = a /\ VerifyToken(pending)
  /\ callbacks' = callbacks \cup {a}
  /\ UNCHANGED <<time, cookieVars, attempt, logins, mintPageVars, relayed>>

\* Its answer.  X takes a code once and names the account, or something fails.  The
\* cookie of the attempt is deleted, also when it is a newer one by now.
CallbackAnswered(a) ==
  /\ a \in callbacks /\ callbacks' = callbacks \ {a}
  /\ \/ /\ attempt[a] \in XAccounts
        /\ attempt' = [attempt EXCEPT ![a] = "spent"]
        /\ logins' = logins \cup {[account |-> attempt[a], at |-> time]}
        /\ verified' = [account |-> attempt[a], exp |-> time + VerifiedTtl]
        /\ pending' = NoPending
        /\ reads' = {[r EXCEPT !.since = TRUE] : r \in reads}
        /\ mintTab' = [mintTab EXCEPT !.since = TRUE]
     \/ /\ attempt' \in {attempt, [attempt EXCEPT ![a] = "spent"]}
        /\ UNCHANGED <<cookieVars, logins, reads, mintTab>>
  /\ UNCHANGED <<time, sessionsAsked, claims, relayed>>

-----------------------------------------------------------------------------
\* The page that mints.

\* It opens, or its wallet changes: who signed in is asked for.
AsksSession ==
  /\ sessionsAsked < MaxReads /\ sessionsAsked' = sessionsAsked + 1
  /\ mintTab' = [mintTab EXCEPT !.open = TRUE]
  /\ reads' = reads \cup {[account |-> Session(verified), since |-> FALSE]}
  /\ UNCHANGED <<time, oauthVars, claims, relayed>>

\* An answer is shown, whichever was asked for last.
HearsSession ==
  /\ \E r \in reads :
       /\ reads' = reads \ {r}
       /\ mintTab' = IF mintTab.open
                     THEN [mintTab EXCEPT !.shown = r.account, !.since = r.since]
                     ELSE mintTab
  /\ UNCHANGED <<time, oauthVars, sessionsAsked, claims, relayed>>

\* claimByX: the button is there when somebody signed in.  The browser adds the
\* cookie.
ClaimByX ==
  /\ mintTab.open /\ mintTab.shown # NoAccount /\ ~mintTab.claiming
  /\ mintTab' = [mintTab EXCEPT !.claiming = TRUE]
  /\ claims' = claims \cup {[cookie |-> verified, shown |-> mintTab.shown,
                             since |-> mintTab.since]}
  /\ UNCHANGED <<time, oauthVars, reads, sessionsAsked, relayed>>

\* What the proxies have in common: without a valid cookie nothing is passed on.
Relay(c) ==
  /\ claims' = claims \ {c}
  /\ relayed' = IF Session(c.cookie) = NoAccount THEN relayed
                ELSE [account |-> Session(c.cookie), at |-> time,
                      shown |-> c.shown, since |-> c.since]
  /\ UNCHANGED <<time, oauthVars, reads, sessionsAsked>>

\* POST claim-by-x; NftWhitelist models what the backend makes of it.
ClaimRelayed ==
  \E c \in claims :
    /\ c.shown # NoAccount /\ Relay(c)
    /\ mintTab' = [mintTab EXCEPT !.claiming = FALSE]

\* POST submit, by a wizard that is still open.
WizardSubmits ==
  /\ ~\E c \in claims : c.shown = NoAccount
  /\ claims' = claims \cup {[cookie |-> verified, shown |-> NoAccount, since |-> FALSE]}
  /\ UNCHANGED <<time, oauthVars, mintTab, reads, sessionsAsked, relayed>>

SubmitRelayed == \E c \in claims : c.shown = NoAccount /\ Relay(c) /\ UNCHANGED mintTab

Elapse ==
  /\ time < MaxXTime /\ time' = time + 1
  /\ UNCHANGED <<oauthVars, mintPageVars, relayed>>

XLoginNext ==
  \/ \E a \in Attempts : Start(a) \/ Consents(a) \/ Callback(a) \/ CallbackAnswered(a)
  \/ AsksSession \/ HearsSession
  \/ ClaimByX \/ ClaimRelayed \/ WizardSubmits \/ SubmitRelayed
  \/ Elapse

-----------------------------------------------------------------------------
\* The page of the closed whitelist tells the status of the handle typed into it.

TypeHandle(c) ==
  /\ typed # c /\ typed' = c /\ result' = NotChecked
  /\ UNCHANGED <<checks, listing, stood>>

\* checkStatus.  The key Enter asks while an answer is awaited, too.
CheckStatus ==
  /\ typed # NoAccount
  /\ result' = NotChecked
  /\ checks' = checks \cup {<<typed, listing[typed]>>}
  /\ UNCHANGED <<typed, listing, stood>>

StatusShown ==
  /\ \E s \in checks : result' = s /\ checks' = checks \ {s}
  /\ UNCHANGED <<typed, listing, stood>>

\* Applications and reviews, which NftWhitelist models.
EntryMoves(c) ==
  /\ \E s \in CASE listing[c] = "PENDING" -> {"APPROVED", "REJECTED"}
                [] listing[c] = "APPROVED" -> {}
                [] OTHER -> {"PENDING"} :
       listing' = [listing EXCEPT ![c] = s] /\ stood' = stood \cup {<<c, s>>}
  /\ UNCHANGED statusVars

XStatusNext ==
  \/ \E c \in XAccounts : TypeHandle(c) \/ EntryMoves(c)
  \/ CheckStatus \/ StatusShown

XNext ==
  \/ XLoginNext /\ UNCHANGED xStatusVars
  \/ XStatusNext /\ UNCHANGED xLoginVars

XSpec == XInit /\ [][XNext]_xVars

-----------------------------------------------------------------------------
\* A handle is passed on to the backend only while X has named it in this browser no
\* longer than a session ago, however attempts, callbacks and claims of several tabs
\* overlap; it is the handle the page shows, unless somebody signed in since the page
\* asked; a status shown is one the handle had (the callback, the proxies submit and
\* claim-by-x, claimByX of mint/page.tsx, checkStatus of whitelist/page.tsx).
HandlesProven ==
  /\ relayed # NotRelayed =>
       /\ \E l \in logins : /\ l.account = relayed.account
                           /\ relayed.at - l.at \in 0 .. VerifiedTtl
       /\ relayed.shown # NoAccount /\ ~relayed.since => relayed.shown = relayed.account
  /\ result[2] \notin {"unchecked", "none"} => result \in stood
=============================================================================
