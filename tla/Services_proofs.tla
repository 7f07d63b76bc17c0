--------------------------- MODULE Services_proofs ---------------------------
(***************************************************************************)
(* Proofs about the backend's services beside the markets: logins, the     *)
(* wallet service, the fees' accounts and payouts and the pool of          *)
(* addresses, for any number of requests, tokens, workers and faults;      *)
(* about signing in with X; about the pages of the browser that show the   *)
(* market and ask for payments; and, with what Nft_proofs proves of the    *)
(* mints and the whitelist, about the types of all of them.                *)
(***************************************************************************)
EXTENDS MCServices, Nft_proofs, FiniteSetTheorems, FunctionTheorems, TLAPS

-----------------------------------------------------------------------------
(* Logins.  LoginsAgree speaks of logins that are in.  What makes it       *)
(* inductive: a wallet's id is not above the counter and belongs to one    *)
(* name, and a request that got past its challenge has consumed it, alone  *)
(* and in time.                                                            *)

Admitted(q) == login[q].at \in {"verify", "find", "create", "in"}

Login == [at : LoginSteps, name : Names \cup {"nobody"}, challenge : Challenges \cup {"none"},
          wallet : Nat, inTime : BOOLEAN]

\* Ids of wallets are given out by the counter, to one name each.
IdsApart ==
  /\ \A n \in Names : walletOf[n] <= wallets
  /\ \A n, m \in Names : walletOf[n] = walletOf[m] /\ walletOf[n] # 0 => n = m

\* A challenge that admitted a request is gone, and was in time ...
ChallengeSpent == \A q \in Logins :
  /\ login[q].at = "idle" => login[q].challenge = "none"
  /\ Admitted(q) => login[q].name \in Names
  /\ Admitted(q) /\ login[q].challenge # "none" =>
       challenge[login[q].challenge].at = "consumed" /\ login[q].inTime

\* ... and admitted no other.
OneEach == \A p, q \in Logins :
  Admitted(p) /\ Admitted(q) /\ login[p].challenge = login[q].challenge
    /\ login[p].challenge # "none" => p = q

\* Who is in is in the wallet of the name.
InOwnWallet == \A q \in Logins : login[q].at = "in" =>
  login[q].wallet = walletOf[login[q].name] /\ login[q].wallet # 0

LoginInv == LoginTypeOK /\ IdsApart /\ ChallengeSpent /\ OneEach /\ InOwnWallet

LEMMA LoginInvInit == LoginInit => LoginInv
  BY DEF LoginInit, LoginInv, LoginTypeOK, IdsApart, ChallengeSpent, OneEach, InOwnWallet, Admitted,
         LoginSteps, Names

LEMMA LoginInvNext == LoginInv /\ [LoginNext]_loginVars => LoginInv'
<1> SUFFICES ASSUME LoginInv, [LoginNext]_loginVars PROVE LoginInv'
  OBVIOUS
<1> USE DEF LoginInv
<1>1. ASSUME NEW c \in Challenges, IssueChallenge(c) PROVE LoginInv'
  BY <1>1 DEF IssueChallenge, LoginTypeOK, IdsApart, ChallengeSpent, OneEach, InOwnWallet, Admitted
<1>2. ASSUME NEW c \in Challenges, NEW n \in Extensions, SignChallenge(c, n) PROVE LoginInv'
  BY <1>2 DEF SignChallenge, LoginTypeOK, IdsApart, ChallengeSpent, OneEach, InOwnWallet, Admitted
<1>3. ASSUME NEW c \in Challenges, AgeChallenge(c) PROVE LoginInv'
  BY <1>3 DEF AgeChallenge, LoginTypeOK, IdsApart, ChallengeSpent, OneEach, InOwnWallet, Admitted
<1>4. ASSUME NEW q \in Logins, NEW c \in Challenges, ConsumeChallenge(q, c) PROVE LoginInv'
  <2>0. ASSUME NEW at \in LoginSteps, NEW name \in Names, NEW old \in BOOLEAN
        PROVE  [login[q] EXCEPT !.at = at, !.name = name, !.challenge = c, !.inTime = ~old] \in Login
    <3>1. login[q] \in Login
      BY DEF LoginTypeOK, Login
    <3> QED
      BY <3>1 DEF Login
  <2>1. LoginTypeOK'
    <3>1. signer[c] \in Names /\ challenge[c].old \in BOOLEAN
      BY <1>4 DEF ConsumeChallenge, LoginTypeOK, Names
    <3>2. \E at \in LoginSteps : login' = [login EXCEPT ![q] = [login[q] EXCEPT
             !.at = at, !.name = signer[c], !.challenge = c, !.inTime = ~challenge[c].old]]
      BY <1>4 DEF ConsumeChallenge, LoginSteps
    <3>3. PICK r \in Login : login' = [login EXCEPT ![q] = r]
      BY <2>0, <3>1, <3>2
    <3>4. login' \in [Logins -> Login]
      BY <3>3 DEF LoginTypeOK, Login
    <3>5. /\ challenge' \in [Challenges -> [at : {"none", "issued", "consumed"}, old : BOOLEAN]]
          /\ UNCHANGED <<signer, walletOf, wallets>>
      BY <1>4 DEF ConsumeChallenge, LoginTypeOK
    <3> QED
      BY <3>4, <3>5 DEF LoginTypeOK, Login
  <2>2. IdsApart'
    BY <1>4 DEF ConsumeChallenge, IdsApart
  <2>3. \A p \in Logins : p # q => login'[p] = login[p]
    BY <1>4 DEF ConsumeChallenge, LoginTypeOK
  <2>4. /\ login'[q].at \in {"verify", "refused"}
        /\ login'[q].challenge = c /\ login'[q].name \in Names
        /\ login'[q].at = "verify" => challenge[c].at = "issued" /\ login'[q].inTime
        /\ challenge'[c].at = "consumed"
        /\ \A d \in Challenges : challenge[d].at = "consumed" => challenge'[d].at = "consumed"
    BY <1>4 DEF ConsumeChallenge, LoginTypeOK, Names
  <2>5. ChallengeSpent'
    <3>1. ASSUME NEW p \in Logins, p # q, Admitted(p)', login'[p].challenge # "none"
          PROVE  challenge'[login'[p].challenge].at = "consumed" /\ login'[p].inTime
      <4>1. login[p].challenge \in Challenges
        BY <2>3, <3>1 DEF LoginTypeOK
      <4> QED
        BY <2>3, <2>4, <3>1, <4>1 DEF ChallengeSpent, Admitted
    <3> QED
      BY <2>3, <2>4, <3>1 DEF ChallengeSpent, Admitted
  <2>7. OneEach'
    <3>1. ASSUME NEW p \in Logins, p # q, Admitted(p)', Admitted(q)' PROVE login'[p].challenge \in {c} => c = "none"
      BY <2>3, <2>4, <3>1 DEF ChallengeSpent, Admitted, LoginTypeOK
    <3> QED
      BY <2>3, <2>4, <3>1 DEF OneEach, Admitted
  <2>6. InOwnWallet'
    BY <1>4, <2>3, <2>4 DEF ConsumeChallenge, InOwnWallet
  <2> QED
    BY <2>1, <2>2, <2>5, <2>6, <2>7
<1>5. ASSUME NEW q \in Logins, VerifySignature(q) PROVE LoginInv'
  BY <1>5 DEF VerifySignature, LoginTypeOK, LoginSteps, IdsApart, ChallengeSpent, OneEach, InOwnWallet, Admitted
<1>6. ASSUME NEW q \in Logins, FindWallet(q) PROVE LoginInv'
  BY <1>6 DEF FindWallet, LoginTypeOK, LoginSteps, IdsApart, ChallengeSpent, OneEach, InOwnWallet, Admitted
<1>7. ASSUME NEW n \in Names, AddWallet(n), walletOf[n] = 0 PROVE IdsApart' /\ walletOf'[n] # 0
  BY <1>7 DEF AddWallet, IdsApart, LoginTypeOK
<1>8. ASSUME NEW q \in Logins, CreateWallet(q) PROVE LoginInv'
  <2>1. login[q].name \in Names /\ Admitted(q)
    BY <1>8 DEF CreateWallet, ChallengeSpent, Admitted
  <2>2. CASE walletOf[login[q].name] = 0
    <3>1. AddWallet(login[q].name)
      BY <1>8, <2>2 DEF CreateWallet
    <3>2. login' = [login EXCEPT ![q].at = "in", ![q].wallet = wallets'] /\ challenge' = challenge
          /\ signer' = signer
      BY <1>8, <2>2 DEF CreateWallet
    <3>3. LoginTypeOK'
      <4>1. wallets' \in Nat /\ walletOf' \in [Names -> Nat]
        BY <2>1, <3>1 DEF AddWallet, LoginTypeOK
      <4>2. [login[q] EXCEPT !.at = "in", !.wallet = wallets'] \in Login
        <5>1. login[q] \in Login
          BY DEF LoginTypeOK, Login
        <5> QED
          BY <4>1, <5>1 DEF Login, LoginSteps
      <4>3. login' = [login EXCEPT ![q] = [login[q] EXCEPT !.at = "in", !.wallet = wallets']]
        BY <3>2
      <4>4. login' \in [Logins -> Login]
        BY <4>2, <4>3 DEF LoginTypeOK, Login
      <4> QED
        BY <3>2, <4>1, <4>4 DEF LoginTypeOK, Login
    <3>4. IdsApart' /\ walletOf'[login[q].name] # 0
      BY <1>7, <2>1, <2>2, <3>1
    <3>5. ChallengeSpent'
      BY <2>1, <3>2 DEF LoginTypeOK, ChallengeSpent, Admitted
    <3>7. OneEach'
      BY <2>1, <3>2 DEF LoginTypeOK, OneEach, Admitted
    <3>6. InOwnWallet'
      BY <2>1, <2>2, <3>1, <3>2, <3>4 DEF AddWallet, LoginTypeOK, InOwnWallet, ChallengeSpent, Admitted
    <3> QED
      BY <3>3, <3>4, <3>5, <3>6, <3>7
  <2>3. CASE walletOf[login[q].name] # 0
    BY <1>8, <2>3 DEF CreateWallet, LoginTypeOK, LoginSteps, IdsApart, ChallengeSpent,
                      OneEach, InOwnWallet, Admitted
  <2> QED
    BY <2>2, <2>3
<1>9. ASSUME NEW n \in Phrases, CreateByWords(n) PROVE LoginInv'
  <2>1. n \in Names /\ AddWallet(n) /\ walletOf[n] = 0 /\ UNCHANGED <<challenge, signer, login>>
    BY <1>9 DEF CreateByWords, Names
  <2>2. LoginTypeOK'
    BY <2>1 DEF AddWallet, LoginTypeOK
  <2>3. IdsApart'
    BY <1>7, <2>1
  <2>4. ChallengeSpent' /\ OneEach'
    BY <2>1 DEF ChallengeSpent, OneEach, Admitted
  <2>5. InOwnWallet'
    BY <2>1 DEF AddWallet, LoginTypeOK, InOwnWallet, ChallengeSpent, Admitted
  <2> QED
    BY <2>2, <2>3, <2>4, <2>5
<1>10. ASSUME NEW q \in Logins, NEW n \in Phrases, ImportWords(q, n) PROVE LoginInv'
  <2>1. n \in Names /\ login[q].challenge = "none"
    BY <1>10 DEF ImportWords, ChallengeSpent, Names
  <2>2. /\ login'[q].name = n /\ login'[q].wallet = walletOf[n] /\ login'[q].challenge = "none"
        /\ login'[q].at = IF walletOf[n] # 0 THEN "in" ELSE "refused"
        /\ \A p \in Logins : p # q => login'[p] = login[p]
        /\ UNCHANGED <<challenge, signer, walletOf, wallets>>
    BY <1>10, <2>1 DEF ImportWords, LoginTypeOK
  <2>3. LoginTypeOK'
    <3>1. ASSUME NEW at \in LoginSteps
          PROVE  [login[q] EXCEPT !.name = n, !.wallet = walletOf[n], !.at = at] \in Login
      <4>1. login[q] \in Login /\ walletOf[n] \in Nat
        BY <2>1 DEF LoginTypeOK, Login
      <4> QED
        BY <2>1, <4>1 DEF Login
    <3>2. \E at \in LoginSteps : login' = [login EXCEPT ![q] =
             [login[q] EXCEPT !.name = n, !.wallet = walletOf[n], !.at = at]]
      BY <1>10 DEF ImportWords, LoginSteps
    <3>3. PICK r \in Login : login' = [login EXCEPT ![q] = r]
      BY <3>1, <3>2
    <3>4. login' \in [Logins -> Login]
      BY <3>3 DEF LoginTypeOK, Login
    <3> QED
      BY <2>2, <3>4 DEF LoginTypeOK, Login
  <2>4. IdsApart' /\ ChallengeSpent' /\ OneEach' /\ InOwnWallet'
    BY <2>1, <2>2 DEF IdsApart, ChallengeSpent, OneEach, InOwnWallet, Admitted
  <2> QED
    BY <2>3, <2>4
<1>11. CASE UNCHANGED loginVars
  BY <1>11 DEF loginVars, LoginTypeOK, IdsApart, ChallengeSpent, OneEach, InOwnWallet, Admitted
<1> QED
  BY <1>1, <1>2, <1>3, <1>4, <1>5, <1>6, <1>8, <1>9, <1>10, <1>11 DEF LoginNext

\* The steps of every login keep the invariant, however many names, challenges
\* and requests there are.
THEOREM LoginInvariant == LoginSpec => []LoginInv
  BY LoginInvInit, LoginInvNext, PTL DEF LoginSpec

LEMMA LoginInvAgrees == LoginInv => LoginsAgree
  BY DEF LoginInv, LoginTypeOK, IdsApart, ChallengeSpent, OneEach, InOwnWallet, LoginsAgree, Admitted

\* One name, one wallet, and a challenge admits at most one login, in time.
THEOREM LoginsAgreeAlways == LoginSpec => []LoginsAgree
  BY LoginInvariant, LoginInvAgrees, PTL

-----------------------------------------------------------------------------
(* The wallet service.  ReadyOnSeedWallet is inductive with what is known  *)
(* of a boot's command: it is the first of its queue, and while it waits   *)
(* the volume has the wallet of the seed, or one the boot knew was stray.  *)

OnSeedWallet == volume \in {"good", "damaged"} \/ bootedStray

BootLoads ==
  /\ cliQueue \in Seq(WalletRequests \cup Ensures)
  /\ \A i \in 1..Len(cliQueue) : cliQueue[i] = "load" => i = 1 /\ OnSeedWallet

FlagsTyped == volume \in {"none", "good", "damaged", "stray"} /\ ready \in BOOLEAN

WalletInv == FlagsTyped /\ BootLoads /\ ReadyOnSeedWallet

\* What an append and a dequeue leave of a queue.
LEMMA QueueEdges == ASSUME NEW S, NEW queue \in Seq(S), NEW r \in S
                    PROVE  /\ Append(queue, r) \in Seq(S)
                           /\ Len(Append(queue, r)) = Len(queue) + 1
                           /\ Append(queue, r)[Len(queue) + 1] = r
                           /\ \A i \in 1..Len(queue) : Append(queue, r)[i] = queue[i]
  OBVIOUS

LEMMA QueueHead == ASSUME NEW S, NEW queue \in Seq(S), queue # <<>>
                   PROVE  /\ Tail(queue) \in Seq(S) /\ Head(queue) = queue[1] /\ Head(queue) \in S
                          /\ Len(queue) \in Nat \ {0} /\ Len(Tail(queue)) = Len(queue) - 1
                          /\ \A i \in 1..Len(Tail(queue)) : Tail(queue)[i] = queue[i + 1]
  OBVIOUS

\* What takes the command that runs out of the queue leaves no load in it.
LEMMA Dequeued == ASSUME BootLoads, cliQueue # <<>>
                  PROVE  /\ Tail(cliQueue) \in Seq(WalletRequests \cup Ensures)
                         /\ \A i \in 1..Len(Tail(cliQueue)) : Tail(cliQueue)[i] # "load"
  BY QueueHead DEF BootLoads

LEMMA EnqueueInv == ASSUME WalletInv, NEW r \in WalletRequests, Enqueue(r) PROVE WalletInv'
<1>1. cliQueue' \in Seq(WalletRequests \cup Ensures)
  BY QueueEdges DEF WalletInv, BootLoads, Enqueue
<1>2. r # "load"
  BY WalletRequestsAssumption DEF WalletRequests
<1>3. \A i \in 1..Len(cliQueue') : cliQueue'[i] = "load" => i = 1 /\ OnSeedWallet'
  BY <1>2, QueueEdges DEF WalletInv, BootLoads, Enqueue, OnSeedWallet
<1> QED
  BY <1>1, <1>3 DEF WalletInv, FlagsTyped, BootLoads, ReadyOnSeedWallet, Enqueue

LEMMA WalletNextInv == ASSUME WalletInv, WalletNext PROVE WalletInv'
<1> USE DEF WalletInv, FlagsTyped
<1>1. ASSUME NEW r \in Reads, ReadHeight(r) PROVE WalletInv'
  BY <1>1, EnqueueInv DEF ReadHeight, WalletRequests
<1>2. CASE CliConnectFails \/ CacheDamaged \/ Cooled
  BY <1>2 DEF CliConnectFails, CacheDamaged, Cooled, BootLoads, OnSeedWallet, ReadyOnSeedWallet
<1>3. CASE CliSucceeds
  <2>1. cliQueue # <<>> /\ cliQueue' = Tail(cliQueue) /\ bootedStray' = bootedStray
    BY <1>3 DEF CliSucceeds, Dequeue
  <2>2. BootLoads'
    BY <2>1, Dequeued DEF BootLoads
  <2>3. Running = cliQueue[1] /\ 1 \in 1..Len(cliQueue) /\ Running \in WalletRequests \cup Ensures
    BY <2>1, QueueHead DEF Running, BootLoads
  <2>4. /\ \/ Running \in {"restore", "heal"} /\ volume' = "good"
           \/ Running = "load" /\ volume' = volume
           \/ Running \in WalletRequests /\ volume' \in IF volume = "none" THEN AfterWipe ELSE {volume}
        /\ ready' = (ready \/ Running \in Ensures)
    BY <1>3 DEF CliSucceeds, WalletRequests
  <2>5. Running \in WalletRequests => Running \notin Ensures
    BY WalletRequestsAssumption DEF WalletRequests, Ensures
  <2>6. FlagsTyped'
    BY <2>4 DEF AfterWipe
  <2>7. ReadyOnSeedWallet'
    BY <2>1, <2>3, <2>4, <2>5 DEF ReadyOnSeedWallet, BootLoads, OnSeedWallet, AfterWipe
  <2> QED
    BY <2>2, <2>6, <2>7
<1>4. CASE CliFails \/ CliRefused
  <2>1. cliQueue # <<>> /\ cliQueue' = Tail(cliQueue) /\ UNCHANGED <<ready, bootedStray>>
        /\ volume' \in IF volume = "none" THEN {"none", "good", "stray", "damaged"} ELSE {volume}
    BY <1>4 DEF CliFails, CliRefused, Dequeue, AfterWipe
  <2>2. BootLoads'
    BY <2>1, Dequeued DEF BootLoads
  <2> QED
    BY <2>1, <2>2 DEF ReadyOnSeedWallet
<1>5. CASE CliFindsDamage
  <2> DEFINE heal == ~healing /\ ~cooling /\ Running # "heal"
  <2>1. /\ cliQueue # <<>> /\ bootedStray' = bootedStray
        /\ cliQueue' = IF heal THEN Append(Tail(cliQueue), "heal") ELSE Tail(cliQueue)
        /\ volume' = IF heal THEN "none" ELSE volume
        /\ ready' = (ready /\ ~heal)
    BY <1>5 DEF CliFindsDamage
  <2> heal \in BOOLEAN
    OBVIOUS
  <2> HIDE DEF heal
  <2>2. /\ cliQueue' \in Seq(WalletRequests \cup Ensures)
        /\ \A i \in 1..Len(cliQueue') : cliQueue'[i] # "load"
    <3>1. CASE heal
      <4>1. "heal" \in WalletRequests \cup Ensures
        BY DEF Ensures
      <4>2. cliQueue' = Append(Tail(cliQueue), "heal")
        BY <2>1, <3>1
      <4> QED
        BY <2>1, <4>1, <4>2, Dequeued, QueueEdges
    <3>2. CASE ~heal
      BY <2>1, <3>2, Dequeued
    <3> QED
      BY <3>1, <3>2
  <2>3. BootLoads'
    BY <2>2 DEF BootLoads
  <2>4. ReadyOnSeedWallet'
    <3>1. CASE heal
      BY <2>1, <3>1 DEF ReadyOnSeedWallet
    <3>2. CASE ~heal
      <4>1. ready' = ready
        BY <2>1, <3>2 DEF ReadyOnSeedWallet
      <4> QED
        BY <2>1, <3>2, <4>1 DEF ReadyOnSeedWallet
    <3> QED
      BY <3>1, <3>2
  <2>5. FlagsTyped'
    BY <2>1
  <2> QED
    BY <2>3, <2>4, <2>5
<1>6. CASE RestartWallet
  <2>1. /\ ready' = FALSE /\ bootedStray' = (volume' = "stray")
        /\ cliQueue' = IF volume' = "none" THEN <<"restore">> ELSE <<"load">>
        /\ volume' \in {"none", volume}
    BY <1>6 DEF RestartWallet
  <2>2. volume' \in {"none", "good", "damaged", "stray"}
    BY <2>1
  <2>3. PICK command \in {"restore", "load"} :
          cliQueue' = <<command>> /\ (command = "load" => volume' # "none")
    BY <2>1
  <2>4. BootLoads'
    <3>1. cliQueue' \in Seq(WalletRequests \cup Ensures) /\ Len(cliQueue') = 1 /\ cliQueue'[1] = command
      BY <2>3 DEF Ensures
    <3>2. volume' = "stray" => bootedStray'
      BY <2>1
    <3>3. command = "load" => OnSeedWallet'
      BY <2>2, <2>3, <3>2 DEF OnSeedWallet
    <3> QED
      BY <3>1, <3>3 DEF BootLoads
  <2> QED
    BY <2>1, <2>2, <2>4 DEF ReadyOnSeedWallet
<1> QED
  BY <1>1, <1>2, <1>3, <1>4, <1>5, <1>6 DEF WalletNext

LEMMA WalletInvStays == ASSUME WalletInv, UNCHANGED walletVars PROVE WalletInv'
  BY DEF walletVars, WalletInv, FlagsTyped, BootLoads, OnSeedWallet, ReadyOnSeedWallet

LEMMA PayoutWalletInv == WalletInv /\ [PayoutNext]_payoutVars => WalletInv'
<1> SUFFICES ASSUME WalletInv, [PayoutNext]_payoutVars PROVE WalletInv'
  OBVIOUS
<1>1. ASSUME NEW p \in Payers, NEW a \in Accounts, PayAccount(p, a) PROVE WalletInv'
  <2>1. PICK s \in Sends : SendAccepted(s) \/ SendRefused(s)
    BY <1>1 DEF PayAccount
  <2>2. CASE SendAccepted(s)
    BY <2>1, <2>2, EnqueueInv DEF SendAccepted, WalletRequests
  <2>3. CASE SendRefused(s)
    BY <2>3 DEF SendRefused, WalletInv, FlagsTyped, BootLoads, OnSeedWallet, ReadyOnSeedWallet
  <2> QED
    BY <2>1, <2>2, <2>3
<1>2. CASE UNCHANGED walletVars
  BY <1>2, WalletInvStays
<1> QED
  BY <1>1, <1>2, WalletNextInv
     DEF PayoutNext, Trade, ReadReversal, WriteReversal, StartRun, StartWithdrawal, TakeInHand,
         RecordPayout, DropPayout, FinishPayer, RestartBackend, payoutVars

LEMMA WalletStarts == PayoutInit => WalletInv
<1>1. ASSUME WalletInit PROVE WalletInv
  <2>1. cliQueue \in Seq(WalletRequests \cup Ensures) /\ Len(cliQueue) = 1 /\ cliQueue[1] = "restore"
    BY <1>1 DEF WalletInit, Ensures
  <2>2. BootLoads
    BY <2>1 DEF BootLoads
  <2> QED
    BY <1>1, <2>2 DEF WalletInit, WalletInv, FlagsTyped, ReadyOnSeedWallet
<1> QED
  BY <1>1 DEF PayoutInit

\* A wallet service that says it is ready has the wallet of its seed, whatever is
\* queued when a heal wipes the volume.
THEOREM ReadyOnSeedWalletAlways == PayoutSpec => []ReadyOnSeedWallet
<1>1. WalletInv => ReadyOnSeedWallet
  BY DEF WalletInv
<1> QED
  BY <1>1, WalletStarts, PayoutWalletInv, PTL DEF PayoutSpec

-----------------------------------------------------------------------------
(* The fees' accounts.  FeesAccounted is inductive with the types of what  *)
(* the payouts carry: a payout that waits for its answer has an amount.    *)

PayerRow == [at : {"idle", "pay", "wait", "over"}, due : [Accounts -> Nat],
             send : Sends \cup {"none"}]
PayoutRow == [to : Accounts \cup {"none"}, amount : Nat,
              at : {"none", "asked", "recorded", "dropped"}]
PayersTyped == payer \in [Payers -> PayerRow] /\
               \A p \in Payers : payer[p].at = "wait" => payer[p].send \in Sends

FeesTyped ==
  /\ accrued \in [FeeTokens -> Int] /\ total \in [FeeTokens -> Nat]
  /\ paidOut \in [Accounts -> Int] /\ trades \in [FeeTokens -> Int]
  /\ PayersTyped
  /\ payout \in [Sends -> PayoutRow]
  /\ reversal \in [FeeTokens -> [at : {"idle", "read"}, accrued : Int, total : Nat]]

FeesInv == FeesTyped /\ FeesAccounted

LEMMA PayerStep == ASSUME PayersTyped, NEW p \in Payers, NEW after \in PayerRow,
                          after.at = "wait" => after.send \in Sends,
                          payer' = [payer EXCEPT ![p] = after]
                   PROVE  PayersTyped'
  BY DEF PayersTyped

LEMMA SendTyped == ASSUME PayersTyped, NEW p \in Payers, payer[p].at = "wait" PROVE payer[p].send \in Sends
  BY DEF PayersTyped

\* What becomes of a payer that goes on with the next payout.
LEMMA PayerGoesOn == ASSUME PayersTyped, NEW p \in Payers,
                            payer' = [payer EXCEPT ![p].at = "pay", ![p].send = "none"]
                     PROVE  PayersTyped'
<1> DEFINE after == [payer[p] EXCEPT !.at = "pay", !.send = "none"]
<1>1. payer[p] \in PayerRow
  BY DEF PayersTyped
<1>2. after \in PayerRow /\ after.at = "pay"
  BY <1>1 DEF PayerRow
<1>3. payer' = [payer EXCEPT ![p] = after]
  OBVIOUS
<1> HIDE DEF after
<1> QED
  BY <1>2, <1>3, PayerStep

LEMMA PayoutStep == ASSUME FeesTyped, NEW s \in Sends, NEW at \in {"recorded", "dropped"},
                           payout' = [payout EXCEPT ![s].at = at]
                    PROVE  payout' \in [Sends -> PayoutRow]
  BY DEF FeesTyped, PayoutRow

\* A step that leaves a token's amounts alone leaves its account balanced.
LEMMA AccountKept == ASSUME FeesInv, NEW t \in FeeTokens, t \notin disputed,
                            accrued'[t] = accrued[t], paidOut'[t] = paidOut[t], trades'[t] = trades[t]
                     PROVE  accrued'[t] + paidOut'[t] = Earned(t)'
  BY AccountsAssumption DEF FeesInv, FeesAccounted, Earned

LEMMA TradeFees == ASSUME FeesInv, NEW t \in FeeTokens, Trade(t) PROVE FeesInv'
<1> USE DEF FeesInv
<1>1. FeesTyped'
  BY FeesAssumption DEF Trade, FeesTyped, PayersTyped
<1>2. ASSUME NEW o \in FeeTokens, o \notin disputed PROVE accrued'[o] + paidOut'[o] = Earned(o)'
  <2>1. CASE o = t
    <3>1. accrued'[t] = accrued[t] + CreatorFee /\ paidOut' = paidOut /\ trades'[t] = trades[t] + 1
      BY DEF Trade, FeesTyped
    <3>2. (trades[t] + 1) * CreatorFee = trades[t] * CreatorFee + CreatorFee
      BY FeesAssumption DEF FeesTyped
    <3>3. accrued[t] + paidOut[t] = trades[t] * CreatorFee
      BY <1>2, <2>1, AccountsAssumption DEF FeesAccounted, Earned
    <3>4. accrued[t] \in Int /\ paidOut[t] \in Int /\ CreatorFee \in Int /\ trades[t] * CreatorFee \in Int
      BY FeesAssumption DEF FeesTyped, Accounts
    <3>5. Earned(t)' = (trades[t] + 1) * CreatorFee
      BY <3>1, AccountsAssumption DEF Earned
    <3> QED
      BY <2>1, <3>1, <3>2, <3>3, <3>4, <3>5
  <2>2. CASE o # t
    BY <1>2, <2>2, AccountKept DEF Trade, FeesTyped
  <2> QED
    BY <2>1, <2>2
<1> QED
  BY <1>1, <1>2 DEF FeesAccounted, Trade

LEMMA ReversalFees == ASSUME FeesInv, NEW t \in FeeTokens, WriteReversal(t) PROVE FeesInv'
<1> USE DEF FeesInv
<1>1. FeesTyped'
  <2>1. reversal[t].accrued \in Int /\ reversal[t].total \in Nat /\ {CreatorFee, PlatformFee} \subseteq Nat
    BY FeesAssumption DEF FeesTyped
  <2>2. accrued' \in [FeeTokens -> Int] /\ total' \in [FeeTokens -> Nat]
    BY <2>1 DEF WriteReversal, FeesTyped, AtLeast0
  <2>3. /\ trades' \in [FeeTokens -> Int] /\ UNCHANGED <<paidOut, payer, payout>>
        /\ reversal' \in [FeeTokens -> [at : {"idle", "read"}, accrued : Int, total : Nat]]
    BY DEF WriteReversal, FeesTyped, NoReversal
  <2> QED
    BY <2>2, <2>3 DEF FeesTyped, PayersTyped
<1>2. ASSUME NEW o \in FeeTokens, o \notin disputed' PROVE accrued'[o] + paidOut'[o] = Earned(o)'
  <2>0. o \notin disputed
    BY <1>2 DEF WriteReversal
  <2>1. CASE o = t
    <3>1. accrued[t] = reversal[t].accrued /\ ~(reversal[t].accrued < CreatorFee)
      BY <1>2, <2>1 DEF WriteReversal
    <3>2. accrued'[t] = accrued[t] - CreatorFee /\ paidOut' = paidOut /\ trades'[t] = trades[t] - 1
      BY <3>1, FeesAssumption DEF WriteReversal, FeesTyped, AtLeast0
    <3>3. (trades[t] - 1) * CreatorFee = trades[t] * CreatorFee - CreatorFee
      BY FeesAssumption DEF FeesTyped
    <3>4. accrued[t] + paidOut[t] = trades[t] * CreatorFee
      BY <2>0, <2>1, AccountsAssumption DEF FeesAccounted, Earned
    <3>5. accrued[t] \in Int /\ paidOut[t] \in Int /\ CreatorFee \in Int /\ trades[t] * CreatorFee \in Int
      BY FeesAssumption DEF FeesTyped, Accounts
    <3>6. Earned(t)' = (trades[t] - 1) * CreatorFee
      BY <3>2, AccountsAssumption DEF Earned
    <3> QED
      BY <2>1, <3>2, <3>3, <3>4, <3>5, <3>6
  <2>2. CASE o # t
    BY <2>0, <2>2, AccountKept DEF WriteReversal, FeesTyped
  <2> QED
    BY <2>1, <2>2
<1> QED
  BY <1>1, <1>2 DEF FeesAccounted

LEMMA RecordFees == ASSUME FeesInv, NEW p \in Payers, RecordPayout(p) PROVE FeesInv'
<1> USE DEF FeesInv
<1>1. PICK s \in Sends : payer[p].send = s
  BY SendTyped DEF RecordPayout, FeesTyped
<1>2. payout[s].amount \in Nat /\ payout[s].to \in Accounts \cup {"none"}
  BY DEF FeesTyped, PayoutRow
<1>3. /\ paidOut' = [paidOut EXCEPT ![payout[s].to] = @ + payout[s].amount]
      /\ accrued' = IF payout[s].to = Platform THEN accrued
                    ELSE [accrued EXCEPT ![payout[s].to] = @ - payout[s].amount]
      /\ UNCHANGED <<trades, disputed, total, reversal>>
  BY <1>1 DEF RecordPayout, feeHistory
<1>4. FeesTyped'
  <2>1. PayersTyped'
    BY PayerGoesOn DEF RecordPayout, FeesTyped
  <2>2. payout' \in [Sends -> PayoutRow]
    BY <1>1, PayoutStep DEF RecordPayout
  <2>3. ASSUME NEW a \in Accounts \cup {"none"}, NEW amount \in Nat
        PROVE  /\ [paidOut EXCEPT ![a] = @ + amount] \in [Accounts -> Int]
               /\ [accrued EXCEPT ![a] = @ - amount] \in [FeeTokens -> Int]
    <3>1. paidOut \in [Accounts -> Int] /\ accrued \in [FeeTokens -> Int]
      BY DEF FeesTyped
    <3>2. ASSUME NEW S, NEW f \in [S -> Int], NEW n \in Int PROVE [f EXCEPT ![a] = n] \in [S -> Int]
      OBVIOUS
    <3>3. ASSUME NEW S, NEW f \in [S -> Int]
          PROVE  [f EXCEPT ![a] = @ + amount] \in [S -> Int] /\ [f EXCEPT ![a] = @ - amount] \in [S -> Int]
      <4>1. CASE a \in S
        BY <3>2, <4>1
      <4>2. CASE a \notin S
        BY <4>2
      <4> QED
        BY <4>1, <4>2
    <3> QED
      BY <3>1, <3>3
  <2> QED
    BY <1>2, <1>3, <2>1, <2>2, <2>3 DEF FeesTyped
<1>5. ASSUME NEW o \in FeeTokens, o \notin disputed PROVE accrued'[o] + paidOut'[o] = Earned(o)'
  <2>1. o \in Accounts /\ o # Platform
    BY AccountsAssumption DEF Accounts
  <2>2. CASE payout[s].to = o
    <3>1. paidOut'[o] = paidOut[o] + payout[s].amount /\ accrued'[o] = accrued[o] - payout[s].amount
      BY <1>3, <2>1, <2>2 DEF FeesTyped
    <3>2. accrued[o] \in Int /\ paidOut[o] \in Int
      BY <2>1 DEF FeesTyped
    <3>3. Earned(o)' = Earned(o)
      BY <1>3, <2>1 DEF Earned
    <3> QED
      BY <1>2, <1>5, <3>1, <3>2, <3>3 DEF FeesAccounted
  <2>3. CASE payout[s].to # o
    BY <1>3, <1>5, <2>1, <2>3, AccountKept DEF FeesTyped
  <2> QED
    BY <2>2, <2>3
<1> QED
  BY <1>3, <1>4, <1>5 DEF FeesAccounted

\* The other steps move no fee.
LEMMA FeesKept == ASSUME FeesInv, FeesTyped', UNCHANGED <<accrued, paidOut, trades, disputed>>
                  PROVE  FeesInv'
<1>1. ASSUME NEW t \in FeeTokens, t \notin disputed PROVE accrued'[t] + paidOut'[t] = Earned(t)'
  BY <1>1, AccountKept
<1> QED
  BY <1>1 DEF FeesInv, FeesAccounted

LEMMA TakeFees == ASSUME FeesInv, NEW p \in Payers,
                         StartRun(p) \/ \E amount \in 1..MaxPayout : StartWithdrawal(p, amount)
                  PROVE  FeesInv'
<1>1. PICK due \in [Accounts -> Nat] : TakeInHand(p, due)
  <2>1. CASE StartRun(p)
    <3> DEFINE due == [a \in Accounts |->
                 IF a \in FeeTokens /\ accrued[a] >= MinPayout THEN Lower(accrued[a], MaxPayout) ELSE 0]
    <3>1. ASSUME NEW a \in FeeTokens, accrued[a] >= MinPayout PROVE Lower(accrued[a], MaxPayout) \in Nat
      BY <3>1, FeesAssumption DEF FeesInv, FeesTyped, Lower
    <3>2. due \in [Accounts -> Nat]
      BY <3>1
    <3>3. TakeInHand(p, due)
      BY <2>1 DEF StartRun
    <3> QED
      BY <3>2, <3>3
  <2>2. ASSUME NEW amount \in 1..MaxPayout, StartWithdrawal(p, amount)
        PROVE  \E due \in [Accounts -> Nat] : TakeInHand(p, due)
    <3> DEFINE due == [a \in Accounts |-> IF a = Platform THEN amount ELSE 0]
    <3>1. due \in [Accounts -> Nat] /\ TakeInHand(p, due)
      BY <2>2, FeesAssumption DEF StartWithdrawal
    <3> QED
      BY <3>1
  <2> QED
    BY <2>1, <2>2
<1>2. UNCHANGED <<accrued, paidOut, total, trades, payout, reversal, disputed>>
  BY <1>1 DEF TakeInHand, feeRows
<1>3. payer' = [payer EXCEPT ![p] = [Nobody EXCEPT !.at = "pay", !.due = due]]
  BY <1>1 DEF TakeInHand
<1>4. [Nobody EXCEPT !.at = "pay", !.due = due] \in PayerRow
      /\ [Nobody EXCEPT !.at = "pay", !.due = due].at = "pay"
  <2>1. [a \in Accounts |-> 0] \in [Accounts -> Nat]
    OBVIOUS
  <2>2. Nobody \in PayerRow
    BY <2>1 DEF Nobody, PayerRow
  <2> QED
    BY <2>2 DEF PayerRow
<1>5. PayersTyped'
  BY <1>3, <1>4, PayerStep DEF FeesInv, FeesTyped
<1>6. FeesTyped'
  BY <1>2, <1>5 DEF FeesInv, FeesTyped
<1> QED
  BY <1>2, <1>6, FeesKept

LEMMA PayFees == ASSUME FeesInv, NEW p \in Payers, NEW a \in Accounts, PayAccount(p, a) PROVE FeesInv'
<1>1. PICK s \in Sends :
        \/ /\ payer' = [payer EXCEPT ![p].at = "wait", ![p].send = s, ![p].due[a] = 0]
           /\ payout' = [payout EXCEPT ![s] = [to |-> a, amount |-> payer[p].due[a], at |-> "asked"]]
        \/ payer' = [payer EXCEPT ![p].due[a] = 0] /\ payout' = payout
  BY DEF PayAccount
<1>2. UNCHANGED <<accrued, paidOut, total, trades, reversal, disputed>> /\ payer[p].at = "pay"
  BY DEF PayAccount, feeRows, feeHistory
<1>3. PayersTyped'
  <2>1. payer[p] \in PayerRow /\ PayersTyped
    BY DEF FeesInv, FeesTyped, PayersTyped
  <2>2. [payer[p].due EXCEPT ![a] = 0] \in [Accounts -> Nat]
    BY <2>1 DEF PayerRow
  <2>3. CASE payer' = [payer EXCEPT ![p].at = "wait", ![p].send = s, ![p].due[a] = 0]
    <3> DEFINE after == [payer[p] EXCEPT !.at = "wait", !.send = s, !.due = [@ EXCEPT ![a] = 0]]
    <3>1. after \in PayerRow /\ after.send \in Sends
      BY <2>1, <2>2 DEF PayerRow
    <3>2. payer' = [payer EXCEPT ![p] = after]
      BY <2>3
    <3> HIDE DEF after
    <3> QED
      BY <2>1, <3>1, <3>2, PayerStep
  <2>4. CASE payer' = [payer EXCEPT ![p].due[a] = 0]
    <3> DEFINE after == [payer[p] EXCEPT !.due = [@ EXCEPT ![a] = 0]]
    <3>1. after \in PayerRow /\ after.at = "pay"
      BY <1>2, <2>1, <2>2 DEF PayerRow
    <3>2. payer' = [payer EXCEPT ![p] = after]
      BY <2>4
    <3> HIDE DEF after
    <3> QED
      BY <2>1, <3>1, <3>2, PayerStep
  <2> QED
    BY <1>1, <2>3, <2>4
<1>4. payout' \in [Sends -> PayoutRow]
  <2>1. payer[p].due[a] \in Nat
    BY DEF FeesInv, FeesTyped, PayersTyped, PayerRow
  <2>2. [to |-> a, amount |-> payer[p].due[a], at |-> "asked"] \in PayoutRow
    BY <2>1 DEF PayoutRow
  <2> QED
    BY <1>1, <2>2 DEF FeesInv, FeesTyped
<1>5. FeesTyped'
  BY <1>2, <1>3, <1>4 DEF FeesInv, FeesTyped
<1> QED
  BY <1>2, <1>5, FeesKept

LEMMA FeesInvNext == FeesInv /\ [PayoutNext]_payoutVars => FeesInv'
<1> SUFFICES ASSUME FeesInv, [PayoutNext]_payoutVars PROVE FeesInv'
  OBVIOUS
<1>1. ASSUME NEW t \in FeeTokens, ReadReversal(t) PROVE FeesInv'
  <2>1. UNCHANGED <<accrued, paidOut, total, trades, payer, payout, disputed>>
    BY <1>1 DEF ReadReversal, feeRows, feeHistory
  <2>2. reversal' \in [FeeTokens -> [at : {"idle", "read"}, accrued : Int, total : Nat]]
    BY <1>1 DEF ReadReversal, FeesInv, FeesTyped
  <2>3. FeesTyped'
    BY <2>1, <2>2 DEF FeesInv, FeesTyped, PayersTyped
  <2> QED
    BY <2>1, <2>3, FeesKept
<1>2. ASSUME NEW p \in Payers, DropPayout(p) \/ FinishPayer(p) PROVE FeesInv'
  <2>1. UNCHANGED <<accrued, paidOut, total, trades, reversal, disputed>>
    BY <1>2 DEF DropPayout, FinishPayer, feeRows, feeHistory
  <2>2. payout' \in [Sends -> PayoutRow]
    <3>1. CASE DropPayout(p)
      <4>1. payer[p].send \in Sends
        BY <3>1, SendTyped DEF DropPayout, FeesInv, FeesTyped
      <4> QED
        BY <3>1, <4>1, PayoutStep DEF DropPayout, FeesInv
    <3>2. CASE FinishPayer(p)
      BY <3>2 DEF FinishPayer, FeesInv, FeesTyped
    <3> QED
      BY <1>2, <3>1, <3>2
  <2>3. PayersTyped'
    <3>1. CASE DropPayout(p)
      BY <3>1, PayerGoesOn DEF DropPayout, FeesInv, FeesTyped
    <3>2. CASE FinishPayer(p)
      <4> DEFINE after == [payer[p] EXCEPT !.at = "over"]
      <4>1. after \in PayerRow /\ after.at = "over" /\ payer' = [payer EXCEPT ![p] = after]
        BY <3>2 DEF FinishPayer, FeesInv, FeesTyped, PayersTyped, PayerRow
      <4> HIDE DEF after
      <4> QED
        BY <4>1, PayerStep DEF FeesInv, FeesTyped
    <3> QED
      BY <1>2, <3>1, <3>2
  <2> QED
    BY <2>1, <2>2, <2>3, FeesKept DEF FeesInv, FeesTyped
<1>3. CASE RestartBackend
  <2>1. UNCHANGED <<accrued, paidOut, total, trades, disputed>>
    BY <1>3 DEF RestartBackend, feeRows, feeHistory
  <2>2. payout' \in [Sends -> PayoutRow]
    BY <1>3 DEF RestartBackend, FeesInv, FeesTyped, PayoutRow
  <2>3. PayersTyped'
    <3>1. [a \in Accounts |-> 0] \in [Accounts -> Nat]
      OBVIOUS
    <3>2. [Nobody EXCEPT !.at = "over"] \in PayerRow /\ [Nobody EXCEPT !.at = "over"].at = "over"
      BY <3>1 DEF Nobody, PayerRow
    <3>3. payer' = [q \in Payers |->
            IF payer[q].at = "idle" THEN payer[q] ELSE [Nobody EXCEPT !.at = "over"]]
      BY <1>3 DEF RestartBackend
    <3> QED
      BY <3>2, <3>3 DEF PayersTyped, FeesInv, FeesTyped
  <2>4. reversal' \in [FeeTokens -> [at : {"idle", "read"}, accrued : Int, total : Nat]]
    BY <1>3 DEF RestartBackend, NoReversal
  <2> QED
    BY <2>1, <2>2, <2>3, <2>4, FeesKept DEF FeesInv, FeesTyped
<1>4. CASE UNCHANGED feeVars
  <2>1. UNCHANGED <<accrued, paidOut, total, trades, payer, payout, reversal, disputed>>
    BY <1>4 DEF feeVars, feeRows, feeHistory
  <2> QED
    BY <2>1, FeesKept DEF FeesInv, FeesTyped, PayersTyped
<1> QED
  BY <1>1, <1>2, <1>3, <1>4, TradeFees, ReversalFees, RecordFees, TakeFees, PayFees
     DEF PayoutNext, payoutVars

LEMMA FeesStart == PayoutInit => FeesInv
<1> SUFFICES ASSUME PayoutInit PROVE FeesInv
  OBVIOUS
<1>1. FeesTyped
  <2>1. [a \in Accounts |-> 0] \in [Accounts -> Nat]
    OBVIOUS
  <2>2. PayersTyped
    BY <2>1 DEF PayoutInit, PayersTyped, PayerRow, Nobody
  <2> QED
    BY <2>2 DEF PayoutInit, FeesTyped, PayoutRow, NoReversal
<1>2. ASSUME NEW t \in FeeTokens PROVE accrued[t] + paidOut[t] = Earned(t)
  <2>1. accrued[t] = 0 /\ paidOut[t] = 0 /\ trades[t] = 0
    BY DEF PayoutInit, Accounts
  <2>2. Earned(t) = trades[t] * CreatorFee
    BY AccountsAssumption DEF Earned
  <2> QED
    BY <2>1, <2>2, FeesAssumption
<1> QED
  BY <1>1, <1>2 DEF FeesInv, FeesAccounted

\* Every fee is either owed or paid, on every token whose fees no reversal took back
\* behind a payout.
THEOREM FeesAccountedAlways == PayoutSpec => []FeesAccounted
<1>1. FeesInv => FeesAccounted
  BY DEF FeesInv
<1> QED
  BY <1>1, FeesStart, FeesInvNext, PTL DEF PayoutSpec

-----------------------------------------------------------------------------
(* What the wallet sends.  NothingPaidTwice is about sums over the sends.  *)
(* What makes it inductive: the wallet carries a send out at most once,    *)
(* while it waits in its queue (SendsInv); a payer waits for a send of its *)
(* own (PayoutsLinked); and what payers have in hand of an account is in   *)
(* one hand, and no more than what the account is owed (HeldOnce).         *)

SendsQueued ==
  /\ \A i \in 1..Len(cliQueue) : cliQueue[i] \in Sends => answer[cliQueue[i]] = "waiting"
  /\ \A i, j \in 1..Len(cliQueue) : cliQueue[i] = cliQueue[j] /\ cliQueue[i] \in Sends => i = j

\* What an answer says of a send.
SentOnce == \A s \in Sends :
  /\ sent[s] \in {0, 1}
  /\ answer[s] \in {"unsent", "waiting"} => sent[s] = 0
  /\ answer[s] = "ok" => sent[s] = 1

SendsInv ==
  /\ answer \in [WalletRequests -> {"unsent", "waiting", "ok", "error"}]
  /\ sent \in [Sends -> Nat]
  /\ SendsQueued /\ SentOnce

LEMMA EnqueueSends == ASSUME BootLoads, SendsInv, NEW r \in WalletRequests, answer[r] = "unsent",
                             Enqueue(r)
                      PROVE  SendsInv'
<1> DEFINE queue == cliQueue
<1>1. queue \in Seq(WalletRequests \cup Ensures) /\ r \in WalletRequests \cup Ensures
  BY DEF BootLoads
<1>2. /\ Len(cliQueue') = Len(queue) + 1 /\ cliQueue'[Len(queue) + 1] = r /\ Len(queue) \in Nat
      /\ \A i \in 1..Len(queue) : cliQueue'[i] = queue[i]
  BY <1>1, QueueEdges DEF Enqueue
<1>3. \A i \in 1..Len(queue) : queue[i] \in Sends => queue[i] # r
  BY DEF SendsInv, SendsQueued
<1>4. answer' = [answer EXCEPT ![r] = "waiting"] /\ sent' = sent
  BY DEF Enqueue
<1>5. \A i \in 1..Len(cliQueue') : i = Len(queue) + 1 \/ i \in 1..Len(queue)
  BY <1>2
<1>6. SendsQueued'
  <2>1. ASSUME NEW i \in 1..Len(cliQueue'), cliQueue'[i] \in Sends
        PROVE  answer'[cliQueue'[i]] = "waiting"
    BY <1>2, <1>3, <1>4, <1>5, <2>1 DEF SendsInv, SendsQueued, WalletRequests
  <2>2. ASSUME NEW i \in 1..Len(cliQueue'), NEW j \in 1..Len(cliQueue'),
               cliQueue'[i] = cliQueue'[j], cliQueue'[i] \in Sends
        PROVE  i = j
    BY <1>2, <1>3, <1>5, <2>2 DEF SendsInv, SendsQueued
  <2> QED
    BY <2>1, <2>2 DEF SendsQueued
<1> QED
  BY <1>4, <1>6 DEF SendsInv, SentOnce, WalletRequests

\* The command that runs is over, answered with `reply`; if it is a send it was
\* carried out once more or not, and if it was answered "ok", it was.
LEMMA AnswerSends ==
  ASSUME BootLoads, SendsInv, cliQueue # <<>>, NEW reply \in {"ok", "error"}, Answered(reply),
         cliQueue' = Tail(cliQueue) \/ cliQueue' = Append(Tail(cliQueue), "heal"),
         \/ sent' = sent /\ (Running \in Sends => reply = "error")
         \/ Running \in Sends /\ sent' = [sent EXCEPT ![Running] = @ + 1]
  PROVE  SendsInv'
<1> DEFINE rest == Tail(cliQueue)
<1>1. /\ rest \in Seq(WalletRequests \cup Ensures) /\ Running = cliQueue[1]
      /\ Len(rest) \in Nat /\ Len(cliQueue) = Len(rest) + 1
      /\ \A i \in 1..Len(rest) : rest[i] = cliQueue[i + 1]
  BY QueueHead DEF BootLoads, Running
<1>2. "heal" \in WalletRequests \cup Ensures /\ "heal" \notin Sends
  BY WalletRequestsAssumption DEF Ensures
<1>0. cliQueue' = rest \/ cliQueue' = Append(rest, "heal")
  OBVIOUS
<1> HIDE DEF rest
<1>3. \A i \in 1..Len(cliQueue') : cliQueue'[i] \in Sends =>
        i \in 1..Len(rest) /\ cliQueue'[i] = cliQueue[i + 1]
  <2>1. CASE cliQueue' = rest
    BY <1>1, <2>1
  <2>2. CASE cliQueue' = Append(rest, "heal")
    <3>1. /\ Len(cliQueue') = Len(rest) + 1 /\ cliQueue'[Len(rest) + 1] = "heal"
          /\ \A i \in 1..Len(rest) : cliQueue'[i] = rest[i]
      BY <1>1, <1>2, <2>2, QueueEdges
    <3>2. \A i \in 1..Len(cliQueue') : i \in 1..Len(rest) \/ i = Len(rest) + 1
      BY <1>1, <3>1
    <3>3. \A i \in 1..Len(rest) : cliQueue'[i] = cliQueue[i + 1]
      BY <1>1, <3>1
    <3> QED
      BY <1>2, <3>1, <3>2, <3>3
  <2> QED
    BY <1>0, <2>1, <2>2
<1>4. /\ \A i \in 1..Len(rest) : i + 1 \in 1..Len(cliQueue) /\ i + 1 # 1
      /\ 1 \in 1..Len(cliQueue)
  BY <1>1
<1>5. \A i \in 1..Len(cliQueue') : cliQueue'[i] \in Sends =>
        answer[cliQueue'[i]] = "waiting" /\ cliQueue'[i] # Running
  BY <1>1, <1>3, <1>4 DEF SendsInv, SendsQueued
<1>6. Running \in Sends => answer[Running] = "waiting"
  BY <1>1, <1>4 DEF SendsInv, SendsQueued
<1>7. answer' = IF Running \in WalletRequests THEN [answer EXCEPT ![Running] = reply] ELSE answer
  BY DEF Answered
<1>8. SendsQueued'
  <2>1. ASSUME NEW i \in 1..Len(cliQueue'), cliQueue'[i] \in Sends
        PROVE  answer'[cliQueue'[i]] = "waiting"
    BY <1>5, <1>7, <2>1 DEF SendsInv, WalletRequests
  <2>2. ASSUME NEW i \in 1..Len(cliQueue'), NEW j \in 1..Len(cliQueue'),
               cliQueue'[i] = cliQueue'[j], cliQueue'[i] \in Sends
        PROVE  i = j
    <3>1. /\ i \in 1..Len(rest) /\ cliQueue'[i] = cliQueue[i + 1]
          /\ j \in 1..Len(rest) /\ cliQueue'[j] = cliQueue[j + 1]
      BY <1>3, <2>2
    <3>2. i + 1 = j + 1
      BY <1>4, <2>2, <3>1 DEF SendsInv, SendsQueued
    <3> QED
      BY <3>2
  <2> QED
    BY <2>1, <2>2 DEF SendsQueued
<1>9. answer' \in [WalletRequests -> {"unsent", "waiting", "ok", "error"}] /\ sent' \in [Sends -> Nat]
  BY <1>7 DEF SendsInv
<1>10. SentOnce'
  <2> SUFFICES ASSUME NEW s \in Sends
               PROVE  /\ sent'[s] \in {0, 1}
                      /\ answer'[s] \in {"unsent", "waiting"} => sent'[s] = 0
                      /\ answer'[s] = "ok" => sent'[s] = 1
    BY DEF SentOnce
  <2>1. s \in WalletRequests
    BY DEF WalletRequests
  <2>2. CASE s = Running
    BY <1>6, <1>7, <2>1, <2>2 DEF SendsInv, SentOnce
  <2>3. CASE s # Running
    BY <1>7, <2>1, <2>3 DEF SendsInv, SentOnce
  <2> QED
    BY <2>2, <2>3
<1> QED
  BY <1>8, <1>9, <1>10 DEF SendsInv

LEMMA SendsKept == ASSUME SendsInv, UNCHANGED <<cliQueue, answer, sent>> PROVE SendsInv'
  BY DEF SendsInv, SendsQueued, SentOnce

LEMMA WalletSendsKept == ASSUME BootLoads, SendsInv, WalletNext PROVE SendsInv'
<1>1. ASSUME NEW r \in Reads, ReadHeight(r) PROVE SendsInv'
  BY <1>1, EnqueueSends DEF ReadHeight, WalletRequests
<1>2. CASE CliConnectFails \/ CacheDamaged \/ Cooled
  BY <1>2, SendsKept DEF CliConnectFails, CacheDamaged, Cooled
<1>3. CASE CliSucceeds
  <2>1. cliQueue # <<>> /\ cliQueue' = Tail(cliQueue) /\ Answered("ok")
    BY <1>3 DEF CliSucceeds, Dequeue
  <2>2. Running \in {"restore", "heal", "load"} \cup Reads => Running \notin Sends
    BY WalletRequestsAssumption
  <2>3. \/ sent' = sent /\ Running \notin Sends
        \/ Running \in Sends /\ sent' = [sent EXCEPT ![Running] = @ + 1]
    BY <1>3, <2>2 DEF CliSucceeds
  <2> QED
    BY <2>1, <2>3, AnswerSends
<1>4. CASE CliFails
  <2>1. cliQueue # <<>> /\ cliQueue' = Tail(cliQueue) /\ Answered("error")
    BY <1>4 DEF CliFails, Dequeue
  <2>2. sent' = sent \/ (Running \in Sends /\ sent' = [sent EXCEPT ![Running] = @ + 1])
    BY <1>4 DEF CliFails
  <2> QED
    BY <2>1, <2>2, AnswerSends
<1>5. CASE CliRefused
  <2>1. cliQueue # <<>> /\ cliQueue' = Tail(cliQueue) /\ Answered("error") /\ sent' = sent
    BY <1>5 DEF CliRefused, Dequeue
  <2> QED
    BY <2>1, AnswerSends
<1>6. CASE CliFindsDamage
  <2>1. /\ cliQueue # <<>> /\ Answered("error") /\ sent' = sent
        /\ cliQueue' = Tail(cliQueue) \/ cliQueue' = Append(Tail(cliQueue), "heal")
    BY <1>6 DEF CliFindsDamage
  <2> QED
    BY <2>1, AnswerSends
<1>7. CASE RestartWallet
  <2>1. /\ \E command \in {"restore", "load"} : cliQueue' = <<command>>
        /\ answer' = [r \in WalletRequests |-> IF answer[r] = "waiting" THEN "error" ELSE answer[r]]
        /\ sent' = sent
    BY <1>7 DEF RestartWallet
  <2>2. PICK command \in {"restore", "load"} : cliQueue' = <<command>>
    BY <2>1
  <2>3. Len(cliQueue') = 1 /\ cliQueue'[1] = command /\ command \notin Sends
    BY <2>2, WalletRequestsAssumption
  <2>4. SendsQueued'
    BY <2>3 DEF SendsQueued
  <2>5. SentOnce'
    BY <2>1 DEF SendsInv, SentOnce, WalletRequests
  <2> QED
    BY <2>1, <2>4, <2>5 DEF SendsInv
<1> QED
  BY <1>1, <1>2, <1>3, <1>4, <1>5, <1>6, <1>7 DEF WalletNext

LEMMA PayoutSends == ASSUME BootLoads, SendsInv, [PayoutNext]_payoutVars PROVE SendsInv'
<1>1. ASSUME NEW p \in Payers, NEW a \in Accounts, PayAccount(p, a) PROVE SendsInv'
  <2>1. PICK s \in Sends : SendAccepted(s) \/ SendRefused(s)
    BY <1>1 DEF PayAccount
  <2>2. CASE SendAccepted(s)
    BY <2>2, EnqueueSends DEF SendAccepted, WalletRequests
  <2>3. CASE SendRefused(s)
    <3>1. /\ answer[s] = "unsent" /\ answer' = [answer EXCEPT ![s] = "error"]
          /\ UNCHANGED <<cliQueue, sent>>
      BY <2>3 DEF SendRefused
    <3>2. \A i \in 1..Len(cliQueue) : cliQueue[i] \in Sends => cliQueue[i] # s
      BY <3>1 DEF SendsInv, SendsQueued
    <3>3. SendsQueued'
      BY <3>1, <3>2 DEF SendsInv, SendsQueued, WalletRequests
    <3> QED
      BY <3>1, <3>3 DEF SendsInv, SentOnce, WalletRequests
  <2> QED
    BY <2>1, <2>2, <2>3
<1>2. CASE UNCHANGED walletVars
  BY <1>2, SendsKept DEF walletVars
<1> QED
  BY <1>1, <1>2, WalletSendsKept
     DEF PayoutNext, Trade, ReadReversal, WriteReversal, StartRun, StartWithdrawal, TakeInHand,
         RecordPayout, DropPayout, FinishPayer, RestartBackend, payoutVars

\* A send that was not asked for has no payout, a recorded one was answered "ok",
\* and a payer that waits has asked for the send, alone.
PayoutsLinked ==
  /\ \A s \in Sends : answer[s] = "unsent" => payout[s].at = "none"
  /\ \A s \in Sends : payout[s].at = "recorded" => answer[s] = "ok"
  /\ \A p \in Payers : payer[p].at = "wait" => payout[payer[p].send].at = "asked"
  /\ \A p, q \in Payers : payer[p].at = "wait" /\ payer[q].at = "wait"
                             /\ payer[p].send = payer[q].send => p = q

\* The platform's fees are those of the trades that stand.
TotalsStand == \A t \in FeeTokens :
  /\ trades[t] \in Nat
  /\ total[t] = trades[t] * PlatformFee
  /\ reversal[t].at = "read" => trades[t] > 0 /\ reversal[t].total = total[t]

Owed(a) == IF a = Platform THEN SumFunction(total) - paidOut[a] ELSE accrued[a]
AskedBy(s, a) == payout[s].to = a /\ payout[s].at = "asked"

InOneHand(a) ==
  /\ Owed(a) >= 0
  /\ \A p \in Payers : payer[p].due[a] <= Owed(a)
  /\ \A s \in Sends : AskedBy(s, a) => payout[s].amount <= Owed(a)
  /\ \A p, q \in Payers : payer[p].due[a] > 0 /\ payer[q].due[a] > 0 => p = q
  /\ \A r, s \in Sends : AskedBy(r, a) /\ AskedBy(s, a) => r = s
  /\ \A p \in Payers, s \in Sends : payer[p].due[a] > 0 => ~AskedBy(s, a)

HeldOnce == \A a \in Accounts \ (disputed \cup doubled) : InOneHand(a)

Recorded(send, a) == IF send.to = a /\ send.at = "recorded" THEN send.amount ELSE 0
RecordedTo(a) == SumFunction([s \in Sends |-> Recorded(payout[s], a)])
PaidRecorded == \A a \in Accounts : paidOut[a] = RecordedTo(a)

LEMMA WholeSum == ASSUME NEW S, IsFiniteSet(S), NEW f \in [S -> Nat]
                  PROVE  SumFunction(f) = SumFunctionOnSet(f, S) /\ SumFunction(f) \in Nat
<1>1. SumFunction(f) = SumFunctionOnSet(f, S)
  BY DEF SumFunction
<1> QED
  BY <1>1, SumNat

LEMMA OwedInt == ASSUME FeesTyped, NEW a \in Accounts PROVE Owed(a) \in Int
  BY WholeSum, FinitePayoutsAssumption DEF Owed, FeesTyped, Accounts

LEMMA Fees == PlatformFee \in Nat \ {0} /\ CreatorFee \in Nat \ {0} /\ MaxPayout \in Nat /\ MinPayout \in Nat
  BY FeesAssumption

\* What a record keeps of the totals.
LEMMA TotalsNext == ASSUME FeesInv, FeesInv', TotalsStand, [PayoutNext]_payoutVars PROVE TotalsStand'
<1> USE Fees DEF TotalsStand
<1>1. ASSUME NEW t \in FeeTokens, Trade(t) PROVE TotalsStand'
  <2>1. /\ total' = [total EXCEPT ![t] = @ + PlatformFee] /\ trades' = [trades EXCEPT ![t] = @ + 1]
        /\ reversal' = reversal /\ reversal[t].at = "idle"
    BY <1>1 DEF Trade, NoReversal
  <2>2. (trades[t] + 1) * PlatformFee = trades[t] * PlatformFee + PlatformFee
    OBVIOUS
  <2>3. total'[t] = total[t] + PlatformFee /\ trades'[t] = trades[t] + 1
    BY <2>1 DEF FeesInv, FeesTyped
  <2>4. \A o \in FeeTokens \ {t} : total'[o] = total[o] /\ trades'[o] = trades[o]
    BY <2>1 DEF FeesInv, FeesTyped
  <2> QED
    BY <2>1, <2>2, <2>3, <2>4
<1>2. ASSUME NEW t \in FeeTokens, ReadReversal(t) PROVE TotalsStand'
  BY <1>2 DEF ReadReversal, feeRows, feeHistory, FeesInv, FeesTyped
<1>3. ASSUME NEW t \in FeeTokens, WriteReversal(t) PROVE TotalsStand'
  <2>1. /\ reversal[t].at = "read" /\ trades' = [trades EXCEPT ![t] = @ - 1]
        /\ total' = [total EXCEPT ![t] = AtLeast0(reversal[t].total - PlatformFee)]
        /\ reversal' = [reversal EXCEPT ![t] = NoReversal]
    BY <1>3 DEF WriteReversal
  <2>2. trades[t] \in Nat \ {0} /\ reversal[t].total = total[t] /\ total[t] = trades[t] * PlatformFee
    BY <2>1
  <2>3. /\ (trades[t] - 1) * PlatformFee = trades[t] * PlatformFee - PlatformFee
        /\ (trades[t] - 1) * PlatformFee >= 0
    BY <2>2
  <2>4. total[t] \in Int
    BY <2>2
  <2>5. AtLeast0(reversal[t].total - PlatformFee) = (trades[t] - 1) * PlatformFee
    BY <2>2, <2>3, <2>4 DEF AtLeast0
  <2>6. /\ total'[t] = (trades[t] - 1) * PlatformFee /\ trades'[t] = trades[t] - 1
        /\ reversal'[t].at = "idle"
    BY <2>1, <2>5 DEF FeesInv, FeesTyped, NoReversal
  <2>7. \A o \in FeeTokens \ {t} : /\ total'[o] = total[o] /\ trades'[o] = trades[o]
                                   /\ reversal'[o] = reversal[o]
    BY <2>1 DEF FeesInv, FeesTyped
  <2> QED
    BY <2>2, <2>6, <2>7
<1>4. CASE RestartBackend
  <2>1. /\ reversal' = [t \in FeeTokens |-> NoReversal] /\ UNCHANGED <<total, trades>>
    BY <1>4 DEF RestartBackend, feeRows, feeHistory
  <2> QED
    BY <2>1 DEF NoReversal
<1>5. CASE UNCHANGED <<total, trades, reversal>>
  BY <1>5
<1> QED
  BY <1>1, <1>2, <1>3, <1>4, <1>5
     DEF PayoutNext, StartRun, StartWithdrawal, TakeInHand, PayAccount,
         RecordPayout, DropPayout, FinishPayer, payoutVars, feeVars, feeRows, feeHistory

\* Steps that leave payouts alone, but for those that are answered.
LEMMA LinkedNext == ASSUME FeesInv, BootLoads, SendsInv, PayoutsLinked, [PayoutNext]_payoutVars
                    PROVE  PayoutsLinked'
<1> USE DEF FeesInv, FeesTyped, PayersTyped, PayerRow, PayoutRow
<1>1. ASSUME NEW p \in Payers, NEW a \in Accounts, PayAccount(p, a) PROVE PayoutsLinked'
  <2>1. PICK s \in Sends : /\ answer[s] = "unsent" /\ payer[p].at = "pay"
                           /\ \/ /\ SendAccepted(s)
                                 /\ payer' = [payer EXCEPT ![p].at = "wait", ![p].send = s, ![p].due[a] = 0]
                                 /\ payout' = [payout EXCEPT ![s] = [to |-> a, amount |-> payer[p].due[a],
                                                                    at |-> "asked"]]
                              \/ /\ SendRefused(s)
                                 /\ payer' = [payer EXCEPT ![p].due[a] = 0]
                                 /\ payout' = payout
    BY <1>1 DEF PayAccount
  <2>2. \E reply \in {"waiting", "error"} : answer' = [answer EXCEPT ![s] = reply]
    BY <2>1 DEF SendAccepted, SendRefused, Enqueue
  <2>3. /\ answer'[s] # "unsent" /\ answer[s] = "unsent"
        /\ \A r \in Sends \ {s} : answer'[r] = answer[r]
    BY <2>1, <2>2 DEF SendsInv, WalletRequests
  <2>4. payout[s].at = "none" /\ \A q \in Payers : payer[q].at = "wait" => payer[q].send # s
    BY <2>1 DEF PayoutsLinked
  <2>5. CASE payer' = [payer EXCEPT ![p].at = "wait", ![p].send = s, ![p].due[a] = 0]
             /\ payout' = [payout EXCEPT ![s] = [to |-> a, amount |-> payer[p].due[a], at |-> "asked"]]
    <3>1. /\ payer'[p].at = "wait" /\ payer'[p].send = s
          /\ \A q \in Payers \ {p} : payer'[q] = payer[q]
          /\ payout'[s].at = "asked" /\ \A r \in Sends \ {s} : payout'[r] = payout[r]
      BY <2>5
    <3> HIDE DEF FeesInv, FeesTyped, PayersTyped, PayerRow, PayoutRow
    <3>2. \A r \in Sends : answer'[r] = "unsent" => payout'[r].at = "none"
      BY <2>3, <3>1 DEF PayoutsLinked
    <3>3. \A r \in Sends : payout'[r].at = "recorded" => answer'[r] = "ok"
      BY <2>3, <3>1 DEF PayoutsLinked
    <3>4. ASSUME NEW q \in Payers, payer'[q].at = "wait" PROVE payout'[payer'[q].send].at = "asked"
      <4>1. CASE q = p
        BY <3>1, <4>1
      <4>2. CASE q # p
        <5>1. payer[q].at = "wait" /\ payer[q].send \in Sends
          BY <3>1, <3>4, <4>2, SendTyped DEF FeesInv, FeesTyped
        <5> QED
          BY <2>4, <3>1, <4>2, <5>1 DEF PayoutsLinked
      <4> QED
        BY <4>1, <4>2
    <3>5. ASSUME NEW q \in Payers, NEW r \in Payers, payer'[q].at = "wait", payer'[r].at = "wait",
                 payer'[q].send = payer'[r].send
          PROVE  q = r
      BY <2>4, <3>1, <3>5 DEF PayoutsLinked
    <3> QED
      BY <3>2, <3>3, <3>4, <3>5 DEF PayoutsLinked
  <2>6. CASE payer' = [payer EXCEPT ![p].due[a] = 0] /\ payout' = payout
    <3>1. /\ payer'[p].at = "pay" /\ \A q \in Payers \ {p} : payer'[q] = payer[q]
      BY <2>1, <2>6
    <3> HIDE DEF FeesInv, FeesTyped, PayersTyped, PayerRow, PayoutRow
    <3>1a. \A r \in Sends : answer'[r] = "unsent" => payout'[r].at = "none"
      BY <2>3, <2>4, <2>6 DEF PayoutsLinked
    <3>2. \A r \in Sends : payout'[r].at = "recorded" => answer'[r] = "ok"
      BY <2>3, <2>4, <2>6 DEF PayoutsLinked
    <3>3. \A q \in Payers : payer'[q].at = "wait" =>
            payer[q].at = "wait" /\ payer'[q].send = payer[q].send
      BY <3>1
    <3>4. \A q \in Payers : payer'[q].at = "wait" => payout'[payer'[q].send].at = "asked"
      BY <2>6, <3>3 DEF PayoutsLinked
    <3>5. \A q, r \in Payers : payer'[q].at = "wait" /\ payer'[r].at = "wait"
                                 /\ payer'[q].send = payer'[r].send => q = r
      BY <3>3 DEF PayoutsLinked
    <3> QED
      BY <3>1a, <3>2, <3>4, <3>5 DEF PayoutsLinked
  <2> QED
    BY <2>1, <2>5, <2>6
<1>2. ASSUME NEW p \in Payers, RecordPayout(p) \/ DropPayout(p) PROVE PayoutsLinked'
  <2>1. PICK at \in {"recorded", "dropped"} :
          /\ payer[p].at = "wait" /\ (at = "recorded" => answer[payer[p].send] = "ok")
          /\ payout' = [payout EXCEPT ![payer[p].send].at = at]
          /\ payer' = [payer EXCEPT ![p].at = "pay", ![p].send = "none"]
          /\ UNCHANGED answer
    BY <1>2 DEF RecordPayout, DropPayout, walletVars
  <2> DEFINE s == payer[p].send
  <2>2. s \in Sends /\ payout[s].at = "asked"
    BY <2>1 DEF PayoutsLinked
  <2> HIDE DEF s
  <2>3. /\ payout' = [payout EXCEPT ![s].at = at] /\ (at = "recorded" => answer[s] = "ok")
        /\ \A q \in Payers : payer[q].at = "wait" /\ payer[q].send = s => q = p
    BY <2>1, <2>2 DEF PayoutsLinked, s
  <2>4. /\ payout'[s].at = at /\ \A r \in Sends \ {s} : payout'[r] = payout[r]
        /\ payer'[p].at = "pay" /\ \A q \in Payers \ {p} : payer'[q] = payer[q]
    BY <2>1, <2>2, <2>3
  <2> QED
    BY <2>1, <2>2, <2>3, <2>4 DEF PayoutsLinked
<1>3. ASSUME NEW p \in Payers, NEW due, TakeInHand(p, due) PROVE PayoutsLinked'
  <2>1. /\ payer' = [payer EXCEPT ![p] = [Nobody EXCEPT !.at = "pay", !.due = due]]
        /\ UNCHANGED <<payout, answer>>
    BY <1>3 DEF TakeInHand, walletVars
  <2>2. payer'[p].at = "pay" /\ \A q \in Payers \ {p} : payer'[q] = payer[q]
    BY <2>1 DEF Nobody
  <2> QED
    BY <2>1, <2>2 DEF PayoutsLinked
<1>4. ASSUME NEW p \in Payers, FinishPayer(p) PROVE PayoutsLinked'
  <2>1. payer' = [payer EXCEPT ![p].at = "over"] /\ UNCHANGED <<payout, answer>>
    BY <1>4 DEF FinishPayer, walletVars
  <2>2. payer'[p].at = "over" /\ \A q \in Payers \ {p} : payer'[q] = payer[q]
    BY <2>1
  <2> QED
    BY <2>1, <2>2 DEF PayoutsLinked
<1>5. CASE RestartBackend
  <2>1. /\ \A q \in Payers : payer'[q].at # "wait"
        /\ \A s \in Sends : payout'[s].at = IF payout[s].at = "asked" THEN "dropped" ELSE payout[s].at
        /\ UNCHANGED answer
    BY <1>5 DEF RestartBackend, Nobody, walletVars
  <2> HIDE DEF FeesInv, FeesTyped, PayersTyped, PayerRow, PayoutRow
  <2>2. \A s \in Sends : /\ answer'[s] = "unsent" => payout'[s].at = "none"
                         /\ payout'[s].at = "recorded" => answer'[s] = "ok"
    BY <2>1 DEF PayoutsLinked
  <2> QED
    BY <2>1, <2>2 DEF PayoutsLinked
<1>6. CASE WalletNext /\ UNCHANGED feeVars
  <2>1. \A s \in Sends : /\ answer'[s] = "unsent" => answer[s] = "unsent"
                         /\ answer[s] = "ok" => answer'[s] = "ok"
    <3>1. ASSUME NEW r \in Reads, ReadHeight(r) PROVE answer' = [answer EXCEPT ![r] = "waiting"] /\ answer[r] = "unsent"
      BY <3>1 DEF ReadHeight, Enqueue
    <3>2. ASSUME cliQueue # <<>>, NEW reply \in {"ok", "error"}, Answered(reply)
          PROVE  \A s \in Sends : /\ answer'[s] = "unsent" => answer[s] = "unsent"
                                  /\ answer[s] = "ok" => answer'[s] = "ok"
      <4>1. Running \in Sends => answer[Running] = "waiting"
        BY <3>2, QueueHead DEF BootLoads, Running, SendsInv, SendsQueued
      <4> QED
        BY <3>2, <4>1 DEF Answered, SendsInv, WalletRequests
    <3>3. CliSucceeds \/ CliFails \/ CliRefused \/ CliFindsDamage =>
            cliQueue # <<>> /\ \E reply \in {"ok", "error"} : Answered(reply)
      BY DEF CliSucceeds, CliFails, CliRefused, CliFindsDamage
    <3>4. CliConnectFails \/ CacheDamaged \/ Cooled => UNCHANGED answer
      BY DEF CliConnectFails, CacheDamaged, Cooled
    <3>5. RestartWallet => answer' = [r \in WalletRequests |-> IF answer[r] = "waiting" THEN "error" ELSE answer[r]]
      BY DEF RestartWallet
    <3> QED
      BY <1>6, <3>1, <3>2, <3>3, <3>4, <3>5, WalletRequestsAssumption DEF WalletNext, SendsInv, WalletRequests
  <2>2. UNCHANGED <<payer, payout>>
    BY <1>6 DEF feeVars
  <2> QED
    BY <2>1, <2>2 DEF PayoutsLinked
<1>7. CASE UNCHANGED <<payer, payout, answer>>
  BY <1>7 DEF PayoutsLinked
<1> QED
  BY <1>1, <1>2, <1>3, <1>4, <1>5, <1>6, <1>7
     DEF PayoutNext, Trade, ReadReversal, WriteReversal, StartRun, StartWithdrawal, payoutVars,
         feeVars, walletVars

\* What is in hand stays in one hand while nothing is added to it.
LEMMA HandShrinks ==
  ASSUME FeesTyped, FeesTyped', NEW a \in Accounts, InOneHand(a), Owed(a)' >= Owed(a),
         \A p \in Payers : payer'[p].due[a] \in {0, payer[p].due[a]},
         \A s \in Sends : AskedBy(s, a)' => AskedBy(s, a) /\ payout'[s].amount = payout[s].amount
  PROVE  InOneHand(a)'
<1>0. Owed(a)' \in Int
  BY WholeSum, FinitePayoutsAssumption DEF Owed, FeesTyped, Accounts
<1>1. Owed(a) \in Int /\ Owed(a)' \in Int /\ Owed(a)' >= 0
  BY <1>0, OwedInt DEF InOneHand
<1>2. \A p \in Payers : payer[p].due[a] \in Nat /\ payer'[p].due[a] \in Nat
  BY DEF FeesTyped, PayersTyped, PayerRow
<1>3. \A s \in Sends : payout[s].amount \in Nat
  BY DEF FeesTyped, PayoutRow
<1>4. \A p \in Payers : payer'[p].due[a] > 0 => payer[p].due[a] > 0
  BY <1>2
<1>5. \A p \in Payers : payer'[p].due[a] <= Owed(a)'
  BY <1>1, <1>2 DEF InOneHand
<1>6. \A s \in Sends : AskedBy(s, a)' => payout'[s].amount <= Owed(a)'
  BY <1>1, <1>3 DEF InOneHand
<1>7. \A p, q \in Payers : payer'[p].due[a] > 0 /\ payer'[q].due[a] > 0 => p = q
  BY <1>4 DEF InOneHand
<1>8. \A r, s \in Sends : AskedBy(r, a)' /\ AskedBy(s, a)' => r = s
  BY DEF InOneHand
<1>9. \A p \in Payers, s \in Sends : payer'[p].due[a] > 0 => ~AskedBy(s, a)'
  BY <1>4 DEF InOneHand
<1> QED
  BY <1>1, <1>5, <1>6, <1>7, <1>8, <1>9 DEF InOneHand

\* An account of which nobody has anything in hand.
LEMMA HandEmpty == ASSUME FeesTyped, NEW a \in Accounts, InHand(a) = {}
                   PROVE  /\ \A p \in Payers : payer[p].due[a] = 0
                          /\ \A s \in Sends : ~AskedBy(s, a)
<1>1. \A p \in Payers : payer[p].due[a] \in Nat
  BY DEF FeesTyped, PayersTyped, PayerRow
<1> QED
  BY <1>1 DEF InHand, AskedBy

LEMMA TradeHeld == ASSUME FeesInv, FeesInv', HeldOnce, NEW t \in FeeTokens, Trade(t) PROVE HeldOnce'
<1> SUFFICES ASSUME NEW a \in Accounts \ (disputed' \cup doubled') PROVE InOneHand(a)'
  BY DEF HeldOnce
<1>1. /\ accrued' = [accrued EXCEPT ![t] = @ + CreatorFee]
      /\ total' = [total EXCEPT ![t] = @ + PlatformFee]
      /\ UNCHANGED <<paidOut, payer, payout, disputed, doubled>>
  BY DEF Trade
<1>2. InOneHand(a) /\ FeesTyped /\ FeesTyped'
  BY <1>1 DEF HeldOnce, FeesInv
<1>3. Owed(a)' >= Owed(a)
  <2>1. CASE a = Platform
    <3>1. total \in [FeeTokens -> Nat] /\ total' \in [FeeTokens -> Nat] /\ paidOut[a] \in Int
      BY <1>2 DEF FeesTyped
    <3> DEFINE f == total
               g == total'
    <3>2. \A x \in FeeTokens : f[x] \in Int /\ g[x] \in Int /\ f[x] <= g[x]
      BY <1>1, <3>1, Fees
    <3>3. /\ SumFunction(f) = SumFunctionOnSet(f, FeeTokens) /\ SumFunction(f) \in Nat
          /\ SumFunction(g) = SumFunctionOnSet(g, FeeTokens) /\ SumFunction(g) \in Nat
      BY <3>1, WholeSum, FinitePayoutsAssumption
    <3> HIDE DEF f, g
    <3>4. SumFunction(f) <= SumFunction(g)
      BY <3>2, <3>3, SumLe, FinitePayoutsAssumption
    <3>5. Owed(a) = SumFunction(f) - paidOut[a] /\ Owed(a)' = SumFunction(g) - paidOut[a]
      BY <1>1, <2>1 DEF Owed, f, g
    <3> QED
      BY <3>1, <3>3, <3>4, <3>5
  <2>2. CASE a # Platform
    <3>1. a \in FeeTokens
      BY <2>2 DEF Accounts
    <3> QED
      BY <1>1, <1>2, <2>2, <3>1, Fees DEF Owed, FeesTyped
  <2> QED
    BY <2>1, <2>2
<1> QED
  BY <1>1, <1>2, <1>3, HandShrinks DEF AskedBy

LEMMA ReversalHeld == ASSUME FeesInv, FeesInv', HeldOnce, NEW t \in FeeTokens, WriteReversal(t)
                      PROVE  HeldOnce'
<1> SUFFICES ASSUME NEW a \in Accounts \ (disputed' \cup doubled') PROVE InOneHand(a)'
  BY DEF HeldOnce
<1>1. /\ accrued' = [accrued EXCEPT ![t] = AtLeast0(reversal[t].accrued - CreatorFee)]
      /\ UNCHANGED <<paidOut, payer, payout, doubled>>
      /\ disputed' = disputed \cup
           (IF accrued[t] # reversal[t].accrued \/ reversal[t].accrued < CreatorFee \/ InHand(t) # {}
            THEN {t} ELSE {})
           \cup (IF PaidFrom(Platform) THEN {Platform} ELSE {})
  BY DEF WriteReversal
<1>2. InOneHand(a) /\ FeesTyped /\ FeesTyped'
  BY <1>1 DEF HeldOnce, FeesInv
<1>3. CASE a = Platform
  <2>1. ~PaidFrom(Platform)
    BY <1>1, <1>3
  <2>2. InHand(a) = {} /\ ~(paidOut[a] > 0)
    BY <1>3, <2>1 DEF PaidFrom
  <2>3. /\ \A p \in Payers : payer'[p].due[a] = 0
        /\ \A s \in Sends : ~AskedBy(s, a)'
    BY <1>1, <1>2, <2>2, HandEmpty DEF AskedBy
  <2>4. Owed(a)' = SumFunction(total)' - paidOut[a]
    BY <1>1, <1>3 DEF Owed
  <2>5. SumFunction(total') \in Nat
    BY <1>2, WholeSum, FinitePayoutsAssumption DEF FeesTyped
  <2>6. Owed(a)' >= 0 /\ Owed(a)' \in Int
    BY <1>2, <2>2, <2>4, <2>5 DEF FeesTyped
  <2> QED
    BY <2>3, <2>6 DEF InOneHand
<1>4. CASE a = t
  <2>1. /\ accrued[t] = reversal[t].accrued /\ ~(reversal[t].accrued < CreatorFee)
        /\ InHand(a) = {}
    BY <1>1, <1>4
  <2>2. accrued'[t] = accrued[t] - CreatorFee /\ accrued'[t] >= 0
    BY <1>1, <1>2, <2>1, Fees DEF FeesTyped, AtLeast0
  <2>3. /\ \A p \in Payers : payer'[p].due[a] = 0
        /\ \A s \in Sends : ~AskedBy(s, a)'
    BY <1>1, <1>2, <2>1, HandEmpty DEF AskedBy
  <2>4. Owed(a)' = accrued'[t]
    BY <1>4, AccountsAssumption DEF Owed
  <2> QED
    BY <2>2, <2>3, <2>4 DEF InOneHand
<1>5. CASE a # Platform /\ a # t
  <2>1. a \in FeeTokens
    BY <1>5 DEF Accounts
  <2>2. Owed(a)' = Owed(a)
    BY <1>1, <1>2, <1>5, <2>1 DEF Owed, FeesTyped
  <2>3. Owed(a)' >= Owed(a)
    BY <1>2, <2>2, OwedInt
  <2> QED
    BY <1>1, <1>2, <2>3, HandShrinks DEF AskedBy
<1> QED
  BY <1>3, <1>4, <1>5

\* What a payer takes in hand is owed, and nobody else has any of it in hand.
LEMMA TakeHeld == ASSUME FeesInv, FeesInv', HeldOnce, NEW p \in Payers, NEW due \in [Accounts -> Nat],
                         TakeInHand(p, due),
                         \A a \in Accounts : due[a] > 0 => due[a] <= Owed(a)
                  PROVE  HeldOnce'
<1> SUFFICES ASSUME NEW a \in Accounts \ (disputed' \cup doubled') PROVE InOneHand(a)'
  BY DEF HeldOnce
<1>1. /\ payer' = [payer EXCEPT ![p] = [Nobody EXCEPT !.at = "pay", !.due = due]]
      /\ doubled' = doubled \cup {b \in Accounts : due[b] > 0 /\ InHand(b) # {}}
      /\ UNCHANGED <<accrued, paidOut, total, payout, disputed>>
  BY DEF TakeInHand, feeRows
<1>2. InOneHand(a) /\ FeesTyped /\ FeesTyped'
  BY <1>1 DEF HeldOnce, FeesInv
<1>3. /\ payer'[p].due[a] = due[a]
      /\ \A q \in Payers \ {p} : payer'[q].due[a] = payer[q].due[a]
  BY <1>1, <1>2 DEF Nobody, FeesTyped, PayersTyped
<1>4. Owed(a)' = Owed(a) /\ Owed(a) \in Int /\ \A s \in Sends : AskedBy(s, a)' = AskedBy(s, a)
  BY <1>1, <1>2, OwedInt DEF Owed, AskedBy
<1>5. CASE due[a] > 0
  <2>1. InHand(a) = {}
    BY <1>1, <1>5
  <2>2. (\A q \in Payers : payer[q].due[a] = 0) /\ \A s \in Sends : ~AskedBy(s, a)
    BY <1>2, <2>1, HandEmpty
  <2>3. \A q \in Payers : payer'[q].due[a] = IF q = p THEN due[a] ELSE 0
    BY <1>3, <2>2
  <2>4. due[a] \in Nat /\ due[a] <= Owed(a) /\ Owed(a) >= 0
    BY <1>2, <1>5 DEF InOneHand
  <2>5. /\ Owed(a)' >= 0
        /\ \A q \in Payers : payer'[q].due[a] <= Owed(a)'
        /\ \A s \in Sends : ~AskedBy(s, a)'
        /\ \A q \in Payers : payer'[q].due[a] > 0 => q = p
    BY <1>4, <2>2, <2>3, <2>4
  <2> QED
    BY <2>5 DEF InOneHand
<1>6. CASE ~(due[a] > 0)
  <2>1. \A q \in Payers : payer'[q].due[a] \in {0, payer[q].due[a]}
    BY <1>3, <1>6
  <2> QED
    BY <1>1, <1>2, <1>4, <2>1, HandShrinks
<1> QED
  BY <1>5, <1>6

LEMMA TakenOwed == ASSUME FeesInv, NEW p \in Payers,
                          StartRun(p) \/ \E amount \in 1..MaxPayout : StartWithdrawal(p, amount)
                   PROVE  \E due \in [Accounts -> Nat] :
                            /\ TakeInHand(p, due)
                            /\ \A a \in Accounts : due[a] > 0 => due[a] <= Owed(a)
<1> USE Fees DEF FeesInv
<1>1. CASE StartRun(p)
  <2> DEFINE due == [a \in Accounts |->
               IF a \in FeeTokens /\ accrued[a] >= MinPayout THEN Lower(accrued[a], MaxPayout) ELSE 0]
  <2>1. ASSUME NEW a \in FeeTokens, accrued[a] >= MinPayout
        PROVE  Lower(accrued[a], MaxPayout) \in Nat /\ Lower(accrued[a], MaxPayout) <= Owed(a)
    BY <2>1, AccountsAssumption DEF FeesTyped, Lower, Owed
  <2>2. due \in [Accounts -> Nat] /\ TakeInHand(p, due)
    BY <1>1, <2>1 DEF StartRun
  <2>3. \A a \in Accounts : due[a] > 0 => due[a] <= Owed(a)
    BY <2>1
  <2> QED
    BY <2>2, <2>3
<1>2. ASSUME NEW amount \in 1..MaxPayout, StartWithdrawal(p, amount)
      PROVE  \E due \in [Accounts -> Nat] :
               /\ TakeInHand(p, due)
               /\ \A a \in Accounts : due[a] > 0 => due[a] <= Owed(a)
  <2> DEFINE due == [a \in Accounts |-> IF a = Platform THEN amount ELSE 0]
             all == SumFunction(total)
  <2>1. due \in [Accounts -> Nat] /\ TakeInHand(p, due) /\ amount \in 1..Lower(Claimable, MaxPayout)
    BY <1>2 DEF StartWithdrawal
  <2>2. all \in Nat /\ paidOut[Platform] \in Int /\ Owed(Platform) = all - paidOut[Platform]
        /\ Claimable = AtLeast0(all - paidOut[Platform])
    BY WholeSum, FinitePayoutsAssumption DEF FeesTyped, Accounts, Owed, Claimable
  <2> HIDE DEF all
  <2>3. Lower(Claimable, MaxPayout) \in Int /\ Lower(Claimable, MaxPayout) <= Claimable /\ Claimable \in Int
    BY <2>2 DEF Lower, AtLeast0
  <2>4. amount <= Claimable /\ amount >= 1
    BY <2>1, <2>3
  <2>5. amount <= Owed(Platform)
    BY <2>2, <2>4 DEF AtLeast0
  <2>6. \A a \in Accounts : due[a] > 0 => due[a] <= Owed(a)
    BY <2>5
  <2> QED
    BY <2>1, <2>6
<1> QED
  BY <1>1, <1>2

\* A payout that is asked for leaves the hand of the payer for that of the send.
LEMMA PayHeld == ASSUME FeesInv, FeesInv', SendsInv, PayoutsLinked, HeldOnce,
                        NEW p \in Payers, NEW b \in Accounts, PayAccount(p, b)
                 PROVE  HeldOnce'
<1> SUFFICES ASSUME NEW a \in Accounts \ (disputed' \cup doubled') PROVE InOneHand(a)'
  BY DEF HeldOnce
<1>1. PICK s \in Sends :
        /\ answer[s] = "unsent" /\ payer[p].due[b] > 0
        /\ \/ /\ payer' = [payer EXCEPT ![p].at = "wait", ![p].send = s, ![p].due[b] = 0]
              /\ payout' = [payout EXCEPT ![s] = [to |-> b, amount |-> payer[p].due[b], at |-> "asked"]]
           \/ payer' = [payer EXCEPT ![p].due[b] = 0] /\ payout' = payout
  BY DEF PayAccount
<1>2. UNCHANGED <<accrued, paidOut, total, disputed, doubled>>
  BY DEF PayAccount, feeRows, feeHistory
<1>3. InOneHand(a) /\ FeesTyped /\ FeesTyped'
  BY <1>2 DEF HeldOnce, FeesInv
<1>4. Owed(a)' = Owed(a) /\ Owed(a) \in Int
  BY <1>2, <1>3, OwedInt DEF Owed
<1>5. /\ payer'[p].due[a] = IF a = b THEN 0 ELSE payer[p].due[a]
      /\ \A q \in Payers \ {p} : payer'[q].due[a] = payer[q].due[a]
  BY <1>1, <1>3 DEF FeesTyped, PayersTyped, PayerRow
<1>6. \A q \in Payers : payer'[q].due[a] \in {0, payer[q].due[a]}
  BY <1>5
<1>7. CASE payout' = payout
  BY <1>3, <1>4, <1>6, <1>7, HandShrinks DEF AskedBy
<1>8. CASE payout' = [payout EXCEPT ![s] = [to |-> b, amount |-> payer[p].due[b], at |-> "asked"]]
  <2>1. /\ \A r \in Sends \ {s} : payout'[r] = payout[r]
        /\ payout'[s] = [to |-> b, amount |-> payer[p].due[b], at |-> "asked"]
    BY <1>3, <1>8 DEF FeesTyped
  <2>2. CASE a # b
    <3>1. \A r \in Sends : AskedBy(r, a)' => AskedBy(r, a) /\ payout'[r].amount = payout[r].amount
      BY <2>1, <2>2 DEF AskedBy
    <3> QED
      BY <1>3, <1>4, <1>6, <3>1, HandShrinks
  <2>3. CASE a = b
    <3>1. /\ \A q \in Payers : payer[q].due[a] > 0 => q = p
          /\ \A r \in Sends : ~AskedBy(r, a)
      BY <1>1, <1>3, <2>3 DEF InOneHand
    <3>2. \A q \in Payers : payer[q].due[a] \in Nat
      BY <1>3 DEF FeesTyped, PayersTyped, PayerRow
    <3>3. \A q \in Payers : payer'[q].due[a] = 0
      BY <1>5, <2>3, <3>1, <3>2
    <3>4. \A r \in Sends : AskedBy(r, a)' => r = s
      BY <2>1, <3>1 DEF AskedBy
    <3>5. payout'[s].amount = payer[p].due[a] /\ payer[p].due[a] <= Owed(a)
      BY <1>3, <2>1, <2>3 DEF InOneHand
    <3>6. Owed(a)' >= 0
      BY <1>3, <1>4 DEF InOneHand
    <3> QED
      BY <1>4, <3>3, <3>4, <3>5, <3>6 DEF InOneHand
  <2> QED
    BY <2>2, <2>3
<1> QED
  BY <1>1, <1>7, <1>8

\* What is recorded was the only thing in hand, and no more than what was owed.
LEMMA RecordHeld == ASSUME FeesInv, FeesInv', PayoutsLinked, HeldOnce, NEW p \in Payers, RecordPayout(p)
                    PROVE  HeldOnce'
<1> SUFFICES ASSUME NEW a \in Accounts \ (disputed' \cup doubled') PROVE InOneHand(a)'
  BY DEF HeldOnce
<1>1. PICK s \in Sends : payer[p].send = s
  BY SendTyped DEF RecordPayout, FeesInv, FeesTyped
<1>2. /\ payer[p].at = "wait"
      /\ paidOut' = [paidOut EXCEPT ![payout[s].to] = @ + payout[s].amount]
      /\ accrued' = IF payout[s].to = Platform THEN accrued
                    ELSE [accrued EXCEPT ![payout[s].to] = @ - payout[s].amount]
      /\ payout' = [payout EXCEPT ![s].at = "recorded"]
      /\ payer' = [payer EXCEPT ![p].at = "pay", ![p].send = "none"]
      /\ UNCHANGED <<total, disputed, doubled>>
  BY <1>1 DEF RecordPayout, feeHistory
<1>3. InOneHand(a) /\ FeesTyped /\ FeesTyped'
  BY <1>2 DEF HeldOnce, FeesInv
<1>4. payout[s].at = "asked" /\ payout[s].amount \in Nat
  BY <1>1, <1>2, <1>3 DEF PayoutsLinked, FeesTyped, PayoutRow
<1>5. \A q \in Payers : payer'[q].due[a] = payer[q].due[a] /\ payer[q].due[a] \in Nat
  BY <1>2, <1>3 DEF FeesTyped, PayersTyped, PayerRow
<1>6. /\ payout'[s].at = "recorded" /\ \A r \in Sends \ {s} : payout'[r] = payout[r]
      /\ payout'[s].to = payout[s].to
  BY <1>2, <1>3 DEF FeesTyped
<1>7. \A r \in Sends : AskedBy(r, a)' => r # s /\ AskedBy(r, a) /\ payout'[r].amount = payout[r].amount
  BY <1>6 DEF AskedBy
<1>8. Owed(a) \in Int /\ SumFunction(total) \in Nat
  BY <1>3, OwedInt, WholeSum, FinitePayoutsAssumption DEF FeesTyped
<1>9. CASE payout[s].to = a
  <2>1. AskedBy(s, a)
    BY <1>4, <1>9 DEF AskedBy
  <2>2. /\ payout[s].amount <= Owed(a)
        /\ \A q \in Payers : ~(payer[q].due[a] > 0)
        /\ \A r \in Sends : ~AskedBy(r, a)'
    BY <1>3, <1>7, <2>1 DEF InOneHand
  <2>3. Owed(a)' = Owed(a) - payout[s].amount
    <3>1. CASE a = Platform
      <4>1. paidOut'[a] = paidOut[a] + payout[s].amount /\ paidOut[a] \in Int
        BY <1>2, <1>3, <1>9 DEF FeesTyped
      <4>2. Owed(a)' = SumFunction(total) - paidOut'[a] /\ Owed(a) = SumFunction(total) - paidOut[a]
        BY <1>2, <3>1 DEF Owed
      <4> QED
        BY <1>4, <1>8, <4>1, <4>2
    <3>2. CASE a # Platform
      <4>1. a \in FeeTokens
        BY <3>2 DEF Accounts
      <4>2. accrued'[a] = accrued[a] - payout[s].amount
        BY <1>2, <1>3, <1>9, <3>2, <4>1 DEF FeesTyped
      <4> QED
        BY <3>2, <4>2 DEF Owed
    <3> QED
      BY <3>1, <3>2
  <2>4. Owed(a)' >= 0 /\ Owed(a)' \in Int
    BY <1>4, <1>8, <2>2, <2>3
  <2>5. \A q \in Payers : payer'[q].due[a] = 0
    BY <1>5, <2>2
  <2> QED
    BY <2>2, <2>4, <2>5 DEF InOneHand
<1>10. CASE payout[s].to # a
  <2>1. Owed(a)' = Owed(a)
    <3>1. CASE a = Platform
      BY <1>2, <1>3, <1>10, <3>1 DEF Owed, FeesTyped
    <3>2. CASE a # Platform
      <4>1. a \in FeeTokens
        BY <3>2 DEF Accounts
      <4> QED
        BY <1>2, <1>3, <1>10, <3>2, <4>1 DEF Owed, FeesTyped
    <3> QED
      BY <3>1, <3>2
  <2>2. Owed(a)' >= Owed(a)
    BY <1>8, <2>1
  <2> QED
    BY <1>3, <1>5, <1>7, <2>2, HandShrinks
<1> QED
  BY <1>9, <1>10

LEMMA HeldNext == ASSUME FeesInv, FeesInv', SendsInv, PayoutsLinked, HeldOnce, [PayoutNext]_payoutVars
                  PROVE  HeldOnce'
<1>1. ASSUME UNCHANGED <<accrued, paidOut, total, disputed, doubled>>,
             \A p \in Payers, a \in Accounts : payer'[p].due[a] \in {0, payer[p].due[a]},
             \A s \in Sends : payout'[s].at = "asked" => payout'[s] = payout[s]
      PROVE  HeldOnce'
  <2> SUFFICES ASSUME NEW a \in Accounts \ (disputed' \cup doubled') PROVE InOneHand(a)'
    BY DEF HeldOnce
  <2>1. InOneHand(a) /\ FeesTyped /\ FeesTyped'
    BY <1>1 DEF HeldOnce, FeesInv
  <2>2. Owed(a)' >= Owed(a)
    BY <1>1, <2>1, OwedInt DEF Owed
  <2>3. \A s \in Sends : AskedBy(s, a)' => AskedBy(s, a) /\ payout'[s].amount = payout[s].amount
    BY <1>1 DEF AskedBy
  <2> QED
    BY <1>1, <2>1, <2>2, <2>3, HandShrinks
<1> USE DEF FeesInv, FeesTyped, PayersTyped, PayerRow, PayoutRow
<1>2. ASSUME NEW p \in Payers, StartRun(p) \/ \E amount \in 1..MaxPayout : StartWithdrawal(p, amount)
      PROVE  HeldOnce'
  <2>1. PICK due \in [Accounts -> Nat] :
          TakeInHand(p, due) /\ \A a \in Accounts : due[a] > 0 => due[a] <= Owed(a)
    BY <1>2, TakenOwed
  <2> QED
    BY <2>1, TakeHeld
<1>3. ASSUME NEW p \in Payers, DropPayout(p) \/ FinishPayer(p) PROVE HeldOnce'
  <2>1. UNCHANGED <<accrued, paidOut, total, disputed, doubled>>
    BY <1>3 DEF DropPayout, FinishPayer, feeRows, feeHistory
  <2>2. \A q \in Payers, a \in Accounts : payer'[q].due[a] = payer[q].due[a]
    <3>1. \/ payer' = [payer EXCEPT ![p].at = "pay", ![p].send = "none"]
          \/ payer' = [payer EXCEPT ![p].at = "over"]
      BY <1>3 DEF DropPayout, FinishPayer
    <3>2. payer'[p].due = payer[p].due /\ \A q \in Payers \ {p} : payer'[q] = payer[q]
      BY <3>1
    <3> QED
      BY <3>2
  <2>3. \A s \in Sends : payout'[s].at = "asked" => payout'[s] = payout[s]
    BY <1>3 DEF DropPayout, FinishPayer
  <2> QED
    BY <1>1, <2>1, <2>2, <2>3
<1>4. CASE RestartBackend
  <2>1. UNCHANGED <<accrued, paidOut, total, disputed, doubled>>
    BY <1>4 DEF RestartBackend, feeRows, feeHistory
  <2>2. payer' = [p \in Payers |->
          IF payer[p].at = "idle" THEN payer[p] ELSE [Nobody EXCEPT !.at = "over"]]
    BY <1>4 DEF RestartBackend
  <2>3. \A a \in Accounts : [Nobody EXCEPT !.at = "over"].due[a] = 0
    BY DEF Nobody
  <2>4. \A q \in Payers, a \in Accounts : payer'[q].due[a] \in {0, payer[q].due[a]}
    BY <2>2, <2>3
  <2>5. \A s \in Sends : payout'[s].at = "asked" => payout'[s] = payout[s]
    BY <1>4 DEF RestartBackend
  <2> QED
    BY <1>1, <2>1, <2>4, <2>5
<1>5. CASE UNCHANGED <<accrued, paidOut, total, disputed, doubled, payer, payout>>
  BY <1>1, <1>5
<1> QED
  BY <1>2, <1>3, <1>4, <1>5, TradeHeld, ReversalHeld, PayHeld, RecordHeld
     DEF PayoutNext, ReadReversal, payoutVars, feeVars, feeRows, feeHistory

\* Steps that change no recorded payout.
LEMMA RecordedKept ==
  ASSUME PaidRecorded, paidOut' = paidOut,
         \A s \in Sends, a \in Accounts : Recorded(payout'[s], a) = Recorded(payout[s], a)
  PROVE  PaidRecorded'
<1> SUFFICES ASSUME NEW a \in Accounts PROVE paidOut'[a] = RecordedTo(a)'
  BY DEF PaidRecorded
<1>1. [s \in Sends |-> Recorded(payout'[s], a)] = [s \in Sends |-> Recorded(payout[s], a)]
  OBVIOUS
<1> QED
  BY <1>1 DEF PaidRecorded, RecordedTo

LEMMA RecordPaid == ASSUME FeesInv, FeesInv', PayoutsLinked, PaidRecorded, NEW p \in Payers, RecordPayout(p)
                    PROVE  PaidRecorded'
<1> SUFFICES ASSUME NEW a \in Accounts PROVE paidOut'[a] = RecordedTo(a)'
  BY DEF PaidRecorded
<1> USE DEF FeesInv
<1>1. PICK s \in Sends : payer[p].send = s
  BY SendTyped DEF RecordPayout, FeesTyped
<1>2. /\ payer[p].at = "wait"
      /\ paidOut' = [paidOut EXCEPT ![payout[s].to] = @ + payout[s].amount]
      /\ payout' = [payout EXCEPT ![s].at = "recorded"]
  BY <1>1 DEF RecordPayout
<1>3. /\ payout[s].at = "asked" /\ payout[s].amount \in Nat /\ paidOut[a] \in Int
      /\ \A r \in Sends : payout[r].amount \in Nat
  BY <1>1, <1>2 DEF PayoutsLinked, FeesTyped, PayoutRow
<1>4. /\ payout'[s] = [payout[s] EXCEPT !.at = "recorded"]
      /\ \A r \in Sends \ {s} : payout'[r] = payout[r]
  BY <1>2 DEF FeesTyped
<1> DEFINE f == [r \in Sends |-> Recorded(payout[r], a)]
           g == [r \in Sends |-> Recorded(payout'[r], a)]
           amount == IF payout[s].to = a THEN payout[s].amount ELSE 0
<1>5. f[s] = 0 /\ g[s] = amount /\ amount \in Nat
  BY <1>3, <1>4 DEF Recorded, FeesTyped, PayoutRow
<1>6. \A r \in Sends \ {s} : g[r] = f[r]
  BY <1>4
<1>7. f \in [Sends -> Nat]
  BY <1>3 DEF Recorded
<1>8. g \in [Sends -> Nat]
  BY <1>5, <1>6, <1>7
<1>9. RecordedTo(a) = SumFunction(f) /\ RecordedTo(a)' = SumFunction(g)
  BY DEF RecordedTo
<1>10. paidOut'[a] = paidOut[a] + amount
  BY <1>2, <1>3 DEF FeesTyped
<1>11. paidOut[a] = RecordedTo(a)
  BY DEF PaidRecorded
<1> HIDE DEF f, g, amount
<1>12. /\ SumFunction(f) = SumFunctionOnSet(f, Sends) /\ SumFunction(f) \in Nat
       /\ SumFunction(g) = SumFunctionOnSet(g, Sends)
  BY <1>7, <1>8, WholeSum, FinitePayoutsAssumption
<1>13. SumFunctionOnSet(g, Sends) = SumFunctionOnSet(f, Sends) - f[s] + g[s]
  BY <1>5, <1>6, <1>7, SumChange, FinitePayoutsAssumption
<1> QED
  BY <1>5, <1>9, <1>10, <1>11, <1>12, <1>13

LEMMA PaidNext == ASSUME FeesInv, FeesInv', SendsInv, PayoutsLinked, PaidRecorded, [PayoutNext]_payoutVars
                  PROVE  PaidRecorded'
<1>1. ASSUME NEW p \in Payers, NEW b \in Accounts, PayAccount(p, b) PROVE PaidRecorded'
  <2>1. PICK s \in Sends :
          /\ answer[s] = "unsent" /\ UNCHANGED paidOut
          /\ \/ payout' = [payout EXCEPT ![s] = [to |-> b, amount |-> payer[p].due[b], at |-> "asked"]]
             \/ payout' = payout
    BY <1>1 DEF PayAccount, feeRows
  <2>2. payout[s].at = "none"
    BY <2>1 DEF PayoutsLinked
  <2>3. payout'[s].at \in {"none", "asked"} /\ \A r \in Sends \ {s} : payout'[r] = payout[r]
    BY <2>1, <2>2 DEF FeesInv, FeesTyped
  <2> QED
    BY <2>1, <2>2, <2>3, RecordedKept DEF Recorded
<1>2. ASSUME NEW p \in Payers, DropPayout(p) PROVE PaidRecorded'
  <2>1. PICK s \in Sends : payer[p].send = s
    BY <1>2, SendTyped DEF DropPayout, FeesInv, FeesTyped
  <2>2. payout[s].at = "asked" /\ payout' = [payout EXCEPT ![s].at = "dropped"] /\ paidOut' = paidOut
    BY <1>2, <2>1 DEF DropPayout, PayoutsLinked, feeRows
  <2>3. payout'[s].at = "dropped" /\ \A r \in Sends \ {s} : payout'[r] = payout[r]
    BY <2>2 DEF FeesInv, FeesTyped
  <2> QED
    BY <2>2, <2>3, RecordedKept DEF Recorded
<1>3. CASE RestartBackend
  <2>1. /\ paidOut' = paidOut
        /\ \A s \in Sends : payout'[s] = [payout[s] EXCEPT !.at = IF @ = "asked" THEN "dropped" ELSE @]
    BY <1>3 DEF RestartBackend, feeRows
  <2>2. \A s \in Sends, a \in Accounts : Recorded(payout'[s], a) = Recorded(payout[s], a)
    BY <2>1 DEF Recorded, FeesInv, FeesTyped, PayoutRow
  <2> QED
    BY <2>1, <2>2, RecordedKept
<1>4. CASE UNCHANGED <<paidOut, payout>>
  BY <1>4, RecordedKept
<1> QED
  BY <1>1, <1>2, <1>3, <1>4, RecordPaid
     DEF PayoutNext, Trade, ReadReversal, WriteReversal, StartRun, StartWithdrawal, TakeInHand,
         FinishPayer, payoutVars, feeVars, feeRows

PayInv == /\ WalletInv /\ FeesInv /\ SendsInv
          /\ PayoutsLinked /\ TotalsStand /\ HeldOnce /\ PaidRecorded

LEMMA PayInvNext == PayInv /\ [PayoutNext]_payoutVars => PayInv'
  BY PayoutWalletInv, FeesInvNext, PayoutSends, TotalsNext, LinkedNext, HeldNext, PaidNext
     DEF PayInv, WalletInv

\* What is recorded and what is owed make up what was earned.
LEMMA OwedEarned == ASSUME FeesInv, TotalsStand, NEW a \in Accounts, a \notin disputed
                    PROVE  paidOut[a] + Owed(a) = Earned(a)
<1> USE Fees DEF FeesInv
<1>1. paidOut[a] \in Int
  BY DEF FeesTyped
<1>2. CASE a = Platform
  <2> DEFINE earned == [t \in FeeTokens |-> trades[t] * PlatformFee]
  <2>1. total = earned
    BY DEF TotalsStand, FeesTyped
  <2>2. Earned(a) = SumFunction(total) /\ Owed(a) = SumFunction(total) - paidOut[a]
    BY <1>2, <2>1 DEF Earned, Owed
  <2>3. SumFunction(total) \in Nat
    BY WholeSum, FinitePayoutsAssumption DEF FeesTyped
  <2> QED
    BY <1>1, <2>2, <2>3
<1>3. CASE a # Platform
  <2>1. a \in FeeTokens
    BY <1>3 DEF Accounts
  <2> QED
    BY <1>1, <1>3, <2>1 DEF FeesAccounted, FeesTyped, Owed
<1> QED
  BY <1>2, <1>3

\* The payouts to an account that are asked for or recorded.
Sending(s, a, at) == IF payout[s].to = a /\ payout[s].at \in at THEN sent[s] * payout[s].amount ELSE 0

LEMMA PayInvNothingTwice == PayInv => NothingPaidTwice
<1> SUFFICES ASSUME PayInv, NEW a \in Accounts
             PROVE  /\ paidOut[a] <= SentTo(a, {"recorded"})
                    /\ a \notin disputed \cup doubled => SentTo(a, {"asked", "recorded"}) <= Earned(a)
  BY DEF NothingPaidTwice
<1> USE FinitePayoutsAssumption
<1> DEFINE f == [s \in Sends |-> Recorded(payout[s], a)]
<1>1. /\ \A s \in Sends : sent[s] \in {0, 1} /\ payout[s].amount \in Nat
      /\ \A s \in Sends : payout[s].at = "recorded" => sent[s] = 1
  BY DEF PayInv, SendsInv, SentOnce, PayoutsLinked, FeesInv, FeesTyped, PayoutRow
<1>2. \A s \in Sends : 0 * payout[s].amount = 0 /\ 1 * payout[s].amount = payout[s].amount
  BY <1>1
<1>3. f \in [Sends -> Nat]
  BY <1>1 DEF Recorded
<1>4. RecordedTo(a) = SumFunction(f) /\ paidOut[a] = SumFunction(f)
  BY DEF PayInv, PaidRecorded, RecordedTo
<1>5. paidOut[a] <= SentTo(a, {"recorded"})
  <2>1. \A s \in Sends : Sending(s, a, {"recorded"}) = f[s]
    BY <1>1, <1>2 DEF Sending, Recorded
  <2>2. [s \in Sends |-> Sending(s, a, {"recorded"})] = f
    BY <2>1
  <2>3. SentTo(a, {"recorded"}) = SumFunction(f)
    BY <2>2 DEF SentTo, Sending
  <2>4. SumFunction(f) \in Nat
    BY <1>3, WholeSum
  <2> QED
    BY <1>4, <2>3, <2>4
<1>6. ASSUME a \notin disputed \cup doubled PROVE SentTo(a, {"asked", "recorded"}) <= Earned(a)
  <2>0. InOneHand(a) /\ paidOut[a] + Owed(a) = Earned(a) /\ Owed(a) \in Int
    BY <1>6, OwedEarned, OwedInt DEF PayInv, HeldOnce, FeesInv
  <2> DEFINE g == [s \in Sends |-> Sending(s, a, {"asked", "recorded"})]
  <2>1. \A s \in Sends : /\ ~AskedBy(s, a) => g[s] = f[s]
                         /\ AskedBy(s, a) => f[s] = 0 /\ g[s] <= payout[s].amount
                         /\ g[s] \in Nat
    BY <1>1, <1>2 DEF Sending, Recorded, AskedBy
  <2>2. SentTo(a, {"asked", "recorded"}) = SumFunction(g) /\ g \in [Sends -> Nat]
    BY <2>1 DEF SentTo, Sending
  <2>3. SumFunction(f) = SumFunctionOnSet(f, Sends) /\ SumFunction(f) \in Nat
    BY <1>3, WholeSum
  <2> HIDE DEF g, f
  <2>4. SumFunction(g) = SumFunctionOnSet(g, Sends) /\ SumFunction(g) \in Nat
    BY <2>2, WholeSum
  <2>5. CASE \E s \in Sends : AskedBy(s, a)
    <3>1. PICK s \in Sends : AskedBy(s, a)
      BY <2>5
    <3>2. \A r \in Sends \ {s} : g[r] = f[r]
      BY <2>0, <2>1, <3>1 DEF InOneHand
    <3>3. g[s] <= payout[s].amount /\ payout[s].amount <= Owed(a) /\ f[s] = 0 /\ g[s] \in Nat
      BY <2>0, <2>1, <3>1 DEF InOneHand
    <3>4. g[s] <= Owed(a)
      BY <1>1, <2>0, <3>3
    <3>5. \A r \in Sends : f[r] \in Int
      BY <1>3
    <3>6. SumFunctionOnSet(g, Sends) = SumFunctionOnSet(f, Sends) - f[s] + g[s]
      BY <3>2, <3>3, <3>5, SumChange
    <3> QED
      BY <1>4, <2>0, <2>2, <2>3, <2>4, <3>3, <3>4, <3>6
  <2>6. CASE ~\E s \in Sends : AskedBy(s, a)
    <3>1. f = g
      BY <1>3, <2>1, <2>2, <2>6
    <3> QED
      BY <1>4, <2>0, <2>2, <2>3, <3>1 DEF InOneHand
  <2> QED
    BY <2>5, <2>6
<1> QED
  BY <1>5, <1>6

LEMMA PayInvStart == PayoutInit => PayInv
<1> SUFFICES ASSUME PayoutInit PROVE PayInv
  OBVIOUS
<1>1. WalletInv /\ FeesInv
  BY WalletStarts, FeesStart
<1>2. Len(cliQueue) = 1 /\ cliQueue[1] = "restore" /\ "restore" \notin Sends
  BY WalletRequestsAssumption DEF PayoutInit, WalletInit
<1>3. SendsInv
  BY <1>2 DEF PayoutInit, WalletInit, SendsInv, SendsQueued, SentOnce, WalletRequests
<1>4. PayoutsLinked
  BY DEF PayoutInit, WalletInit, PayoutsLinked, Nobody
<1>5. TotalsStand
  BY Fees DEF PayoutInit, TotalsStand, NoReversal
<1>6. \A t \in FeeTokens : total[t] = 0 /\ accrued[t] = 0
  BY DEF PayoutInit
<1>7. \A a \in Accounts : paidOut[a] = 0 /\ Owed(a) = 0
  <2>1. SumFunction(total) = 0
    <3>1. SumFunction(total) = SumFunctionOnSet(total, FeeTokens)
      BY <1>1, WholeSum, FinitePayoutsAssumption DEF FeesInv, FeesTyped
    <3> QED
      BY <1>6, <3>1, SumZero, FinitePayoutsAssumption
  <2> QED
    BY <1>6, <2>1 DEF PayoutInit, Owed, Accounts
<1>8. HeldOnce
  BY <1>7 DEF PayoutInit, HeldOnce, InOneHand, AskedBy, Nobody
<1>9. PaidRecorded
  <2> SUFFICES ASSUME NEW a \in Accounts PROVE paidOut[a] = RecordedTo(a)
    BY DEF PaidRecorded
  <2> DEFINE f == [s \in Sends |-> Recorded(payout[s], a)]
  <2>1. \A s \in Sends : f[s] = 0
    BY DEF PayoutInit, Recorded
  <2>2. f \in [Sends -> Nat] /\ RecordedTo(a) = SumFunction(f)
    BY <2>1 DEF RecordedTo
  <2> HIDE DEF f
  <2>3. SumFunction(f) = SumFunctionOnSet(f, Sends) /\ SumFunctionOnSet(f, Sends) = 0
    BY <2>1, <2>2, WholeSum, SumZero, FinitePayoutsAssumption
  <2> QED
    BY <1>7, <2>2, <2>3
<1> QED
  BY <1>1, <1>3, <1>4, <1>5, <1>8, <1>9 DEF PayInv

\* The wallet sends no account more than it has earned, beyond the sends whose
\* answer was dropped, but where two payers had it in hand at once or a reversal
\* came behind a payout; and what is recorded as paid was sent.
THEOREM NothingPaidTwiceAlways == PayoutSpec => []NothingPaidTwice
  BY PayInvStart, PayInvNext, PayInvNothingTwice, PTL DEF PayoutSpec

-----------------------------------------------------------------------------
(* The pool of addresses.  That two pooled addresses differ rests on their *)
(* rows, claimed for good (Claimed); that the pool is never stocked beyond *)
(* its target, on what a top-up has still to insert (Stock).               *)

Asking == [at : {"idle", "claim", "demand", "given", "failed"}, address : Indices \cup {NoAddress},
           pooled : BOOLEAN, worker : Workers]
TopUp == [at : {"idle", "count", "batch", "insert"}, count : Nat, generated : Nat,
          attempts : Nat, batch : SUBSET (Int \X Nat)]
PoolTyped ==
  /\ poolRow \in [Indices -> {"absent", "free", "claimed"}]
  /\ nextIndex \in [Workers -> Nat] /\ turn \in Workers
  /\ asking \in [PoolOrders -> Asking]
  /\ topUp \in TopUp

Claimed == \A o \in PoolOrders : asking[o].pooled =>
  /\ asking[o].at = "given" /\ asking[o].address \in Indices
  /\ poolRow[asking[o].address] = "claimed"
  /\ \A q \in PoolOrders : q # o /\ asking[q].pooled => asking[q].address # asking[o].address

Stock ==
  /\ IsFiniteSet(topUp.batch) /\ (topUp.at # "insert" => topUp.batch = {})
  /\ Cardinality(FreeRows) <= PoolTarget
  /\ topUp.at \in {"batch", "insert"} =>
       /\ Cardinality(FreeRows) <= topUp.count
       /\ topUp.count + Cardinality(topUp.batch) <= PoolTarget

PoolInv == PoolTyped /\ Claimed /\ Stock

LEMMA FreeFinite == IsFiniteSet(FreeRows) /\ Cardinality(FreeRows) \in Nat /\ PoolTarget \in Nat
<1>1. MaxIndex + TopUpSize \in Int
  BY PoolSizesAssumption, PoolBoundsAssumption
<1>2. IsFiniteSet(Indices) /\ FreeRows \subseteq Indices
  BY <1>1, FS_Interval DEF Indices, FreeRows
<1> QED
  BY <1>2, FS_Subset, FS_CardinalityType, PoolSizesAssumption

LEMMA TopUpStarts == IdleTopUp \in TopUp /\ [IdleTopUp EXCEPT !.at = "count"] \in TopUp
<1>1. IdleTopUp \in TopUp
  BY DEF IdleTopUp, TopUp
<1> QED
  BY <1>1 DEF TopUp

\* A step that frees no address keeps the stock, if it keeps the top-up or ends it.
LEMMA StockKept == ASSUME topUp \in TopUp, Stock, \A i \in Indices : poolRow'[i] = "free" => poolRow[i] = "free",
                          \/ topUp' = topUp
                          \/ topUp' = IdleTopUp
                          \/ topUp' = [IdleTopUp EXCEPT !.at = "count"]
                   PROVE  Stock'
<1>1. FreeRows' \subseteq FreeRows
  BY DEF FreeRows
<1>2. IsFiniteSet(FreeRows') /\ Cardinality(FreeRows') <= Cardinality(FreeRows) /\ Cardinality(FreeRows') \in Nat
  BY <1>1, FreeFinite, FS_Subset, FS_CardinalityType
<1>3. CASE topUp' = topUp
  <2>1. CASE topUp.at \in {"batch", "insert"}
    <3>1. Cardinality(topUp.batch) \in Nat /\ topUp.count \in Nat
      BY FS_CardinalityType DEF Stock, TopUp
    <3> QED
      BY <1>2, <1>3, <2>1, <3>1, FreeFinite DEF Stock
  <2>2. CASE topUp.at \notin {"batch", "insert"}
    BY <1>2, <1>3, <2>2, FreeFinite DEF Stock
  <2> QED
    BY <2>1, <2>2
<1>4. CASE topUp' = IdleTopUp \/ topUp' = [IdleTopUp EXCEPT !.at = "count"]
  <2>1. topUp'.batch = {} /\ topUp'.at \in {"idle", "count"}
    BY <1>4 DEF IdleTopUp
  <2> QED
    BY <1>2, <2>1, FreeFinite, FS_EmptySet DEF Stock
<1> QED
  BY <1>3, <1>4
\* An order's step: a claim takes a free entry for good, and no other step gives an
\* order a pooled address.
LEMMA OrderStep == ASSUME PoolInv, NEW o \in PoolOrders,
                          \/ AskAddress(o) \/ DemandAddress(o) \/ DemandAnswered(o) \/ DemandFails(o)
                          \/ \E i \in Indices : ClaimAddress(o, i)
                   PROVE  Claimed' /\ Stock'
<1> USE DEF PoolInv, PoolTyped
<1>1. /\ \A q \in PoolOrders : q # o => asking'[q] = asking[q]
      /\ \A i \in Indices : /\ poolRow'[i] = "free" => poolRow[i] = "free"
                            /\ poolRow[i] = "claimed" => poolRow'[i] = "claimed"
      /\ \/ topUp' = topUp
         \/ topUp' = [IdleTopUp EXCEPT !.at = "count"]
  BY DEF AskAddress, DemandAddress, DemandAnswered, DemandFails, ClaimAddress, NudgeTopUp, FreeRows
<1>2. Stock'
  BY <1>1, StockKept
<1>3. CASE \E i \in Indices : ClaimAddress(o, i)
  <2>1. PICK i \in FreeRows : /\ poolRow' = [poolRow EXCEPT ![i] = "claimed"]
                          /\ asking' = [asking EXCEPT ![o].at = "given", ![o].address = i,
                                                      ![o].pooled = TRUE]
    BY <1>3 DEF ClaimAddress
  <2>2. i \in Indices /\ poolRow[i] = "free" /\ poolRow'[i] = "claimed"
    BY <2>1 DEF FreeRows
  <2>3. asking'[o].at = "given" /\ asking'[o].address = i /\ asking'[o].pooled
    BY <2>1 DEF Asking
  <2>4. \A q \in PoolOrders : q # o /\ asking[q].pooled => asking[q].address # i
    BY <2>2 DEF Claimed
  <2> QED
    BY <1>1, <1>2, <2>2, <2>3, <2>4 DEF Claimed
<1>4. CASE AskAddress(o) \/ DemandAddress(o) \/ DemandAnswered(o) \/ DemandFails(o)
  <2>1. asking[o].at # "given" /\ asking'[o].pooled = asking[o].pooled
    BY <1>4 DEF AskAddress, DemandAddress, DemandAnswered, DemandFails, Asking
  <2>2. ~asking[o].pooled /\ ~asking'[o].pooled
    BY <2>1 DEF Claimed
  <2> QED
    BY <1>1, <1>2, <2>2 DEF Claimed
<1> QED
  BY <1>3, <1>4

\* There is a worker.
LEMMA WorkersThere == NumWorkers \in Nat \ {0} /\ AddressWorkerUrls \in Nat
  BY PoolSizesAssumption DEF NumWorkers

LEMMA OrderTyped == ASSUME PoolInv, NEW o \in PoolOrders,
                           \/ AskAddress(o) \/ DemandAddress(o) \/ DemandAnswered(o) \/ DemandFails(o)
                           \/ \E i \in Indices : ClaimAddress(o, i)
                    PROVE  PoolTyped'
<1> USE DEF PoolInv
<1>1. poolRow' \in [Indices -> {"absent", "free", "claimed"}]
  BY DEF AskAddress, DemandAddress, DemandAnswered, DemandFails, ClaimAddress, PoolTyped
<1>2. nextIndex' \in [Workers -> Nat]
  <2>1. CASE DemandAnswered(o)
    <3>1. asking[o].worker \in Workers
      BY DEF PoolTyped, Asking
    <3> QED
      BY <2>1, <3>1 DEF DemandAnswered, PoolTyped
  <2>2. CASE ~DemandAnswered(o)
    BY <2>2 DEF AskAddress, DemandAddress, DemandFails, ClaimAddress, PoolTyped
  <2> QED
    BY <2>1, <2>2
<1>3. turn' \in Workers
  <2>1. turn \in Int /\ NumWorkers \in Nat \ {0}
    BY WorkersThere DEF PoolTyped, Workers
  <2>2. (turn + 1) % NumWorkers \in Workers
    BY <2>1 DEF Workers
  <2> QED
    BY <2>2 DEF AskAddress, DemandAddress, DemandAnswered, DemandFails, ClaimAddress, PoolTyped
<1>4. asking' \in [PoolOrders -> Asking]
  <2>1. asking[o] \in Asking /\ turn \in Workers
    BY DEF PoolTyped
  <2>2. PICK after \in Asking : asking' = [asking EXCEPT ![o] = after]
    <3>1. CASE AskAddress(o) \/ DemandFails(o)
      BY <2>1, <3>1 DEF AskAddress, DemandFails, Asking
    <3>2. CASE DemandAddress(o)
      BY <2>1, <3>2 DEF DemandAddress, Asking
    <3>3. ASSUME NEW i \in Indices, ClaimAddress(o, i)
          PROVE  \E after \in Asking : asking' = [asking EXCEPT ![o] = after]
      <4> DEFINE after == [asking[o] EXCEPT !.at = "given", !.address = i, !.pooled = TRUE]
      <4>1. after \in Asking
        BY <2>1 DEF Asking
      <4>2. asking' = [asking EXCEPT ![o] = after]
        BY <3>3 DEF ClaimAddress
      <4> QED
        BY <4>1, <4>2
    <3>4. CASE DemandAnswered(o)
      <4>1. nextIndex[asking[o].worker] \in Indices
        <5>1. asking[o].worker \in Workers /\ MaxIndex \in Nat /\ TopUpSize \in Nat
          BY PoolSizesAssumption, PoolBoundsAssumption DEF PoolTyped, Asking
        <5>2. nextIndex[asking[o].worker] \in Nat /\ nextIndex[asking[o].worker] < MaxIndex
          BY <3>4, <5>1 DEF DemandAnswered, PoolTyped
        <5> QED
          BY <5>1, <5>2 DEF Indices
      <4> QED
        BY <2>1, <3>4, <4>1 DEF DemandAnswered, Asking
    <3> QED
      BY <3>1, <3>2, <3>3, <3>4
  <2> QED
    BY <2>2 DEF PoolTyped
<1>5. topUp' \in TopUp
  <2>1. topUp' = topUp \/ topUp' = [IdleTopUp EXCEPT !.at = "count"]
    BY DEF AskAddress, DemandAddress, DemandAnswered, DemandFails, ClaimAddress, NudgeTopUp
  <2> QED
    BY <2>1, TopUpStarts DEF PoolTyped
<1> QED
  BY <1>1, <1>2, <1>3, <1>4, <1>5 DEF PoolTyped

\* The size of a batch is below each of the four it is the smallest of.
LEMMA SmallestBelow == ASSUME NEW a \in Int, NEW b \in Int, NEW c \in Int, NEW d \in Int
                       PROVE  /\ Smallest({a, b, c, d}) \in Int
                              /\ \A m \in {a, b, c, d} : Smallest({a, b, c, d}) <= m
<1>1. \E n \in {a, b, c, d} : \A m \in {a, b, c, d} : n <= m
  BY SMTT(30)
<1> QED
  BY <1>1 DEF Smallest

LEMMA BatchWithinTarget == ASSUME topUp \in TopUp
                           PROVE  BatchSize \in Int /\ BatchSize <= PoolTarget - topUp.count
<1>1. /\ 1 + AddressWorkerUrls \in Int /\ PoolTarget \in Int /\ TopUpSize \in Int /\ TopUpAttempts \in Int
      /\ topUp.count \in Nat /\ topUp.generated \in Nat /\ topUp.attempts \in Nat
  BY PoolSizesAssumption DEF TopUp
<1>2. /\ PoolTarget - topUp.count \in Int /\ TopUpSize - topUp.generated \in Int
      /\ TopUpAttempts - topUp.attempts \in Int
  BY <1>1
<1> QED
  BY <1>1, <1>2, SmallestBelow DEF BatchSize

LEMMA CallsCounted == ASSUME NEW w, NEW k \in Nat
                      PROVE  Cardinality(CallsTo(w, k)) \in Nat
<1>1. IsFiniteSet(1..k) /\ CallsTo(w, k) \subseteq 1..k
  BY FS_Interval DEF CallsTo
<1> QED
  BY <1>1, FS_Subset, FS_CardinalityType

\* What is left of the calls to a worker when one of a batch fails.
LEMMA CallsAnswered == ASSUME NEW w, NEW k \in Nat, NEW failed
                       PROVE  Cardinality(CallsTo(w, k) \ {failed}) \in 0..k
<1>1. /\ IsFiniteSet(1..k) /\ CallsTo(w, k) \ {failed} \subseteq 1..k /\ Cardinality(1..k) = k
  BY FS_Interval DEF CallsTo
<1> QED
  BY <1>1, FS_Subset, FS_CardinalityType

LEMMA WorkerCalled == ASSUME turn \in Workers, NEW k \in Nat
                      PROVE  (turn + k) % NumWorkers \in Workers
<1>1. turn \in Int /\ NumWorkers \in Nat \ {0}
  BY WorkersThere DEF Workers
<1> QED
  BY <1>1 DEF Workers

\* A batch has no more addresses than the calls it was asked for with.
LEMMA BatchStep == ASSUME PoolInv, BatchAnswered
                   PROVE  PoolInv'
<1> DEFINE n == BatchSize
<1> DEFINE handedOut == [k \in 1..n |->
      <<nextIndex[CallWorker(k)] + Cardinality(CallsTo(CallWorker(k), k)) - 1, k>>]
<1> DEFINE given == {handedOut[k] : k \in 1..n}
<1> USE DEF PoolInv, PoolTyped
<1>1. n \in Nat /\ n <= PoolTarget - topUp.count /\ topUp.at = "batch"
  BY BatchWithinTarget DEF BatchAnswered
<1>2. IsFiniteSet(given) /\ Cardinality(given) <= n /\ Cardinality(given) \in Nat
  <2>1. handedOut \in Surjection(1..n, given)
    BY Fun_IsSurj
  <2>2. IsFiniteSet(1..n) /\ Cardinality(1..n) = n
    BY <1>1, FS_Interval
  <2> HIDE DEF handedOut, given
  <2> QED
    BY <2>1, <2>2, FS_Surjection, FS_CardinalityType
<1>3. given \in SUBSET (Int \X Nat)
  <2> SUFFICES ASSUME NEW k \in 1..n PROVE handedOut[k] \in Int \X Nat
    OBVIOUS
  <2>1. CallWorker(k) \in Workers
    <3>1. k - 1 \in Nat /\ turn + (k - 1) = turn + k - 1
      BY <1>1 DEF Workers
    <3> QED
      BY <3>1, WorkerCalled DEF CallWorker
  <2>2. Cardinality(CallsTo(CallWorker(k), k)) \in Nat
    BY <1>1, CallsCounted
  <2> QED
    BY <1>1, <2>1, <2>2
<1>4. topUp' = [topUp EXCEPT !.at = "insert", !.attempts = @ + n, !.batch = given]
  BY DEF BatchAnswered
<1> HIDE DEF given, handedOut, n
<1>5. topUp' \in TopUp /\ topUp'.count = topUp.count /\ topUp'.at = "insert" /\ topUp'.batch = given
  <2> DEFINE after == [topUp EXCEPT !.at = "insert", !.attempts = @ + n, !.batch = given]
  <2>1. after \in TopUp
    <3>1. topUp.attempts + n \in Nat
      BY <1>1 DEF TopUp
    <3> QED
      BY <1>3, <3>1 DEF TopUp
  <2>2. after.count = topUp.count /\ after.at = "insert" /\ after.batch = given
    BY DEF TopUp
  <2> QED
    BY <1>4, <2>1, <2>2
<1>6. poolRow' = poolRow /\ asking' = asking /\ FreeRows' = FreeRows
  BY DEF BatchAnswered, FreeRows
<1>7. nextIndex' \in [Workers -> Nat] /\ turn' \in Workers
  <2>1. nextIndex' = [w \in Workers |-> nextIndex[w] + Cardinality(CallsTo(w, n))]
        /\ turn' = (turn + n) % NumWorkers
    BY DEF BatchAnswered, n
  <2> QED
    BY <1>1, <2>1, CallsCounted, WorkerCalled
<1>8. Stock'
  <2>1. Cardinality(FreeRows) <= topUp.count /\ topUp.count \in Nat
    BY <1>1 DEF Stock, TopUp
  <2> QED
    BY <1>1, <1>2, <1>5, <1>6, <2>1, FreeFinite DEF Stock
<1> QED
  BY <1>5, <1>6, <1>7, <1>8 DEF Claimed

\* The first of the batch takes its place in the pool, or is dropped.
LEMMA InsertStep == ASSUME PoolInv, InsertAddress
                    PROVE  PoolInv'
<1> USE DEF PoolInv, PoolTyped
<1>1. PICK next \in topUp.batch :
        \/ /\ poolRow[next[1]] = "absent" /\ poolRow' = [poolRow EXCEPT ![next[1]] = "free"]
           /\ topUp' = [topUp EXCEPT !.batch = @ \ {next}, !.generated = @ + 1, !.count = @ + 1]
        \/ poolRow' = poolRow /\ topUp' = [topUp EXCEPT !.batch = @ \ {next}]
  BY DEF InsertAddress, TopUp
<1>2. topUp.at = "insert" /\ asking' = asking /\ nextIndex' = nextIndex /\ turn' = turn
  BY DEF InsertAddress
<1> DEFINE rest == topUp.batch \ {next}
<1>3. IsFiniteSet(rest) /\ Cardinality(rest) = Cardinality(topUp.batch) - 1
      /\ Cardinality(topUp.batch) \in Nat /\ topUp.count \in Nat
  BY FS_RemoveElement, FS_CardinalityType DEF Stock, TopUp
<1>4. Cardinality(FreeRows) <= topUp.count /\ topUp.count + Cardinality(topUp.batch) <= PoolTarget
  BY <1>2 DEF Stock
<1>5. FreeRows' = FreeRows \/ FreeRows' \subseteq FreeRows \cup {next[1]}
  BY <1>1 DEF FreeRows
<1>6. IsFiniteSet(FreeRows \cup {next[1]}) /\ Cardinality(FreeRows \cup {next[1]}) <= Cardinality(FreeRows) + 1
      /\ Cardinality(FreeRows \cup {next[1]}) \in Nat
  <2>1. /\ IsFiniteSet(FreeRows \cup {next[1]})
        /\ \/ Cardinality(FreeRows \cup {next[1]}) = Cardinality(FreeRows)
           \/ Cardinality(FreeRows \cup {next[1]}) = Cardinality(FreeRows) + 1
    BY FreeFinite, FS_AddElement
  <2> QED
    BY <2>1, FreeFinite
<1>7. Cardinality(FreeRows') <= Cardinality(FreeRows) + 1 /\ Cardinality(FreeRows') \in Nat
  BY <1>5, <1>6, FreeFinite, FS_Subset, FS_CardinalityType
<1>8. topUp' \in TopUp /\ topUp'.at = "insert" /\ topUp'.batch = rest
      /\ \/ topUp'.count = topUp.count + 1
         \/ topUp'.count = topUp.count /\ FreeRows' = FreeRows
  <2>1. CASE /\ poolRow' = [poolRow EXCEPT ![next[1]] = "free"]
             /\ topUp' = [topUp EXCEPT !.batch = @ \ {next}, !.generated = @ + 1, !.count = @ + 1]
    <3> DEFINE after == [topUp EXCEPT !.batch = rest, !.generated = @ + 1, !.count = @ + 1]
    <3>1. after \in TopUp /\ after.at = "insert" /\ after.batch = rest /\ after.count = topUp.count + 1
      <4>1. rest \in SUBSET (Int \X Nat) /\ topUp.generated + 1 \in Nat /\ topUp.count + 1 \in Nat
        BY DEF TopUp
      <4> HIDE DEF rest
      <4> QED
        BY <1>2, <4>1 DEF TopUp
    <3> QED
      BY <2>1, <3>1
  <2>2. CASE poolRow' = poolRow /\ topUp' = [topUp EXCEPT !.batch = @ \ {next}]
    <3> DEFINE after == [topUp EXCEPT !.batch = rest]
    <3>1. after \in TopUp /\ after.at = "insert" /\ after.batch = rest /\ after.count = topUp.count
      BY <1>2 DEF TopUp
    <3>2. FreeRows' = FreeRows
      BY <2>2 DEF FreeRows
    <3> QED
      BY <2>2, <3>1, <3>2
  <2> QED
    BY <1>1, <2>1, <2>2
<1> HIDE DEF rest
<1>9. Stock'
  <2>1. Cardinality(FreeRows') <= topUp'.count /\ topUp'.count + Cardinality(rest) <= PoolTarget
    BY <1>3, <1>4, <1>7, <1>8, FreeFinite
  <2>2. topUp'.count \in Int /\ Cardinality(rest) \in Nat
    BY <1>3, <1>8, FS_CardinalityType
  <2>3. Cardinality(FreeRows') <= PoolTarget
    BY <1>7, <2>1, <2>2, FreeFinite
  <2> QED
    BY <1>3, <1>8, <2>1, <2>3 DEF Stock
<1>10. poolRow' \in [Indices -> {"absent", "free", "claimed"}]
       /\ \A i \in Indices : poolRow[i] = "claimed" => poolRow'[i] = "claimed"
  BY <1>1
<1> QED
  BY <1>2, <1>8, <1>9, <1>10 DEF Claimed

\* The top-up's other steps.
LEMMA TopUpStep == ASSUME PoolInv, CountPool \/ NextBatch \/ EndTopUp \/ TopUpThrows \/ TopUpTimer
                   PROVE  PoolInv'
<1> USE DEF PoolInv, PoolTyped
<1>1. UNCHANGED <<poolRow, nextIndex, turn, asking>> /\ FreeRows' = FreeRows
  BY DEF CountPool, NextBatch, EndTopUp, TopUpThrows, TopUpTimer, FreeRows
<1>2. CASE CountPool
  <2> DEFINE after == [topUp EXCEPT !.at = "batch", !.count = Cardinality(FreeRows)]
  <2>1. after \in TopUp /\ after.at = "batch" /\ after.count = Cardinality(FreeRows) /\ after.batch = topUp.batch
    BY FreeFinite DEF TopUp
  <2>2. topUp' = after /\ topUp.batch = {}
    BY <1>2 DEF CountPool, Stock
  <2> HIDE DEF after
  <2>3. topUp'.count = Cardinality(FreeRows) /\ topUp'.batch = {} /\ topUp'.at = "batch"
    BY <2>1, <2>2
  <2>4. Cardinality(topUp'.batch) = 0 /\ IsFiniteSet(topUp'.batch)
    BY <2>3, FS_EmptySet
  <2>5. Stock'
    BY <1>1, <2>3, <2>4, FreeFinite DEF Stock
  <2> QED
    BY <1>1, <2>1, <2>2, <2>5 DEF Claimed
<1>3. CASE NextBatch
  <2> DEFINE after == [topUp EXCEPT !.at = "batch"]
  <2>1. after \in TopUp /\ after.at = "batch" /\ after.count = topUp.count /\ after.batch = topUp.batch
    BY DEF TopUp
  <2>2. topUp' = after /\ topUp.batch = {} /\ topUp.at = "insert"
    BY <1>3 DEF NextBatch
  <2> HIDE DEF after
  <2>3. Stock'
    BY <1>1, <2>1, <2>2 DEF Stock
  <2> QED
    BY <1>1, <2>1, <2>2, <2>3 DEF Claimed
<1>4. CASE EndTopUp \/ TopUpThrows \/ TopUpTimer
  <2>1. topUp' \in {topUp, IdleTopUp, [IdleTopUp EXCEPT !.at = "count"]}
    BY <1>4 DEF EndTopUp, TopUpThrows, TopUpTimer, NudgeTopUp
  <2>2. topUp' \in TopUp
    BY <2>1, TopUpStarts
  <2> QED
    BY <1>1, <2>1, <2>2, StockKept DEF Claimed
<1> QED
  BY <1>2, <1>3, <1>4

\* Steps that give no order an address and free none.
LEMMA FaultStep == ASSUME PoolInv, BatchFails \/ RestartPool \/ \E w \in Workers : ResetWorker(w)
                   PROVE  PoolInv'
<1> USE DEF PoolInv, PoolTyped
<1>1. poolRow' = poolRow /\ topUp' \in {topUp, IdleTopUp} /\ topUp' \in TopUp
  BY TopUpStarts DEF BatchFails, RestartPool, ResetWorker
<1>2. Stock'
  BY <1>1, StockKept
<1>3. CASE BatchFails
  <2>1. BatchSize \in Nat
    BY <1>3, BatchWithinTarget DEF BatchFails
  <2>2. asking' = asking /\ turn' \in Workers
    BY <1>3, <2>1, WorkerCalled DEF BatchFails
  <2>3. nextIndex' \in [Workers -> Nat]
    <3>1. PICK failed : nextIndex' = [w \in Workers |->
            nextIndex[w] + Cardinality(CallsTo(w, BatchSize) \ {failed})]
      BY <1>3 DEF BatchFails
    <3>2. ASSUME NEW w \in Workers
          PROVE  Cardinality(CallsTo(w, BatchSize) \ {failed}) \in Nat
      <4>1. PICK n \in Nat : n = BatchSize
        BY <2>1
      <4>2. Cardinality(CallsTo(w, n) \ {failed}) \in 0..n
        BY <4>1, CallsAnswered
      <4> QED
        BY <4>1, <4>2
    <3> QED
      BY <3>1, <3>2
  <2> QED
    BY <1>1, <1>2, <2>2, <2>3 DEF Claimed
<1>4. CASE \E w \in Workers : ResetWorker(w)
  BY <1>1, <1>2, <1>4 DEF ResetWorker, Claimed
<1>5. CASE RestartPool
  <2>1. turn' \in Workers /\ nextIndex' = nextIndex
    <3>1. NumWorkers \in Nat \ {0}
      BY WorkersThere
    <3> QED
      BY <1>5, <3>1 DEF RestartPool, Workers
  <2>2. \A o \in PoolOrders :
          /\ asking'[o] \in Asking
          /\ asking'[o].pooled = asking[o].pooled /\ asking'[o].address = asking[o].address
          /\ asking[o].at = "given" => asking'[o].at = "given"
    BY <1>5 DEF RestartPool, Asking
  <2>3. asking' \in [PoolOrders -> Asking]
    BY <1>5, <2>2 DEF RestartPool
  <2>4. Claimed'
    BY <1>1, <2>2 DEF Claimed
  <2> QED
    BY <1>1, <1>2, <2>1, <2>3, <2>4
<1> QED
  BY <1>3, <1>4, <1>5

LEMMA PoolInvStart == PoolInit => PoolInv
<1> SUFFICES ASSUME PoolInit PROVE PoolInv
  OBVIOUS
<1> USE DEF PoolInit
<1>1. NumWorkers \in Nat \ {0} /\ 0 \in Workers
  BY WorkersThere DEF Workers
<1>2. FreeRows = {}
  BY DEF FreeRows
<1>3. PoolTyped
  BY <1>1, TopUpStarts DEF PoolTyped, Asking
<1>4. Claimed
  BY DEF Claimed
<1>5. topUp.batch = {} /\ topUp.at = "idle"
  BY DEF IdleTopUp
<1>6. Stock
  BY <1>2, <1>5, FS_EmptySet, FreeFinite DEF Stock
<1> QED
  BY <1>3, <1>4, <1>6 DEF PoolInv

LEMMA PoolInvNext == PoolInv /\ [PoolNext]_poolVars => PoolInv'
<1> SUFFICES ASSUME PoolInv, [PoolNext]_poolVars PROVE PoolInv'
  OBVIOUS
<1>1. ASSUME NEW o \in PoolOrders,
             \/ AskAddress(o) \/ DemandAddress(o) \/ DemandAnswered(o) \/ DemandFails(o)
             \/ \E i \in Indices : ClaimAddress(o, i)
      PROVE  PoolInv'
  BY <1>1, OrderStep, OrderTyped DEF PoolInv
<1>2. CASE UNCHANGED poolVars
  <2>1. UNCHANGED <<poolRow, nextIndex, turn, asking, topUp>> /\ FreeRows' = FreeRows
    BY <1>2 DEF poolVars, FreeRows
  <2> QED
    BY <2>1 DEF PoolInv, PoolTyped, Claimed, Stock
<1> QED
  BY <1>1, <1>2, BatchStep, InsertStep, TopUpStep, FaultStep DEF PoolNext

\* Two orders never have the same address of the pool, and the pool is never
\* stocked beyond its target, for any number of workers and orders.
THEOREM PoolAddressesDistinctAlways == PoolSpec => []PoolAddressesDistinct
<1>1. PoolInv => PoolAddressesDistinct
  BY DEF PoolInv, Claimed, Stock, PoolAddressesDistinct
<1> QED
  BY <1>1, PoolInvStart, PoolInvNext, PTL DEF PoolSpec

-----------------------------------------------------------------------------
(* Signing in with X.  A handle is proven where it is passed on because it *)
(* was when the cookie was written, and a claim carries the cookie as it   *)
(* was; what the page shows is the cookie's, until somebody signs in.      *)

Cookie == [account : Somebody, exp : Nat]
XTyped ==
  /\ time \in Nat /\ verified \in Cookie
  /\ attempt \in [Attempts -> {"fresh", "started", "spent"} \cup XAccounts]
  /\ mintTab \in [open : BOOLEAN, shown : Somebody, since : BOOLEAN, claiming : BOOLEAN]
  /\ reads \subseteq [account : Somebody, since : BOOLEAN]
  /\ claims \subseteq [cookie : Cookie, shown : Somebody, since : BOOLEAN]
  /\ typed \in Somebody

\* X named the account of the cookie when the cookie was written.
Proven(cookie) == cookie.account # NoAccount =>
  \E l \in logins : /\ l.account = cookie.account /\ cookie.exp = l.at + VerifiedTtl
                    /\ l.at \in Nat /\ l.at <= time

\* An account is the cookie's, or none, unless somebody signed in since.
Current(account, since) == ~since => account \in {NoAccount, verified.account}

CookiesProven == Proven(verified) /\ \A c \in claims : Proven(c.cookie)
SessionsCurrent == Current(mintTab.shown, mintTab.since) /\ \A r \in reads : Current(r.account, r.since)
ClaimsShown == \A c \in claims : ~c.since => c.shown \in {NoAccount, c.cookie.account}

RelayedProven == relayed # NotRelayed =>
  /\ \E l \in logins : l.account = relayed.account /\ relayed.at - l.at \in 0 .. VerifiedTtl
  /\ relayed.shown # NoAccount /\ ~relayed.since => relayed.shown = relayed.account

\* What is listed stood, and so did what the page was told.
Told(s) == s[2] \notin {"unchecked", "none"} => s \in stood
StatusesStood ==
  /\ \A c \in XAccounts : Told(<<c, listing[c]>>)
  /\ \A s \in checks : Told(s)
  /\ Told(result)
  /\ listing \in [XAccounts -> Entries]

XInv == /\ XTyped /\ CookiesProven /\ SessionsCurrent /\ ClaimsShown /\ RelayedProven
        /\ StatusesStood

LEMMA XInvInit == XInit => XInv
<1> SUFFICES ASSUME XInit PROVE XInv
  OBVIOUS
<1> USE DEF XInit, NoPage, NoVerified, NotChecked, NotRelayed
<1>1. XTyped
  BY DEF XTyped, Cookie, Somebody
<1>2. CookiesProven /\ SessionsCurrent /\ ClaimsShown /\ RelayedProven
  BY DEF CookiesProven, Proven, SessionsCurrent, Current, ClaimsShown, RelayedProven
<1>3. StatusesStood
  BY DEF StatusesStood, Told, Entries
<1> QED
  BY <1>1, <1>2, <1>3 DEF XInv

\* Steps that leave the cookie, the logins and the clock alone.
LEMMA CookieKept ==
  ASSUME XInv, UNCHANGED <<time, verified, attempt, logins, relayed, typed, checks, result,
                           listing, stood>>,
         mintTab' \in [open : BOOLEAN, shown : Somebody, since : BOOLEAN, claiming : BOOLEAN],
         Current(mintTab'.shown, mintTab'.since),
         \A r \in reads' : r \in reads \/ /\ r \in [account : Somebody, since : BOOLEAN]
                                          /\ Current(r.account, r.since),
         \A c \in claims' : c \in claims \/ /\ c \in [cookie : {verified}, shown : Somebody,
                                                      since : BOOLEAN]
                                            /\ Current(c.shown, c.since)
  PROVE  XInv'
<1> USE DEF XInv
<1>1. XTyped'
  BY DEF XTyped
<1>2. CookiesProven'
  BY DEF CookiesProven, Proven
<1>3. SessionsCurrent'
  BY DEF SessionsCurrent, Current
<1>4. ClaimsShown'
  BY DEF ClaimsShown, Current
<1>5. RelayedProven' /\ StatusesStood'
  BY DEF RelayedProven, StatusesStood, Told
<1> QED
  BY <1>1, <1>2, <1>3, <1>4, <1>5

LEMMA SigningInKeeps == ASSUME XInv, NEW a \in Attempts, UNCHANGED xStatusVars,
                               Start(a) \/ Consents(a) \/ Callback(a) \/ CallbackAnswered(a)
                        PROVE  XInv'
<1> USE DEF XInv, xStatusVars, statusVars
<1>1. CASE Start(a)
  <2> USE <1>1 DEF Start
  <2>0. NoPage \in [open : BOOLEAN, shown : Somebody, since : BOOLEAN, claiming : BOOLEAN]
    BY DEF NoPage, Somebody
  <2>1. XTyped'
    BY <2>0 DEF XTyped
  <2>2. CookiesProven' /\ ClaimsShown' /\ RelayedProven' /\ StatusesStood'
    BY DEF CookiesProven, Proven, ClaimsShown, RelayedProven, StatusesStood, Told
  <2>3. SessionsCurrent'
    BY DEF SessionsCurrent, Current, NoPage
  <2> QED
    BY <2>1, <2>2, <2>3
<1>2. CASE Consents(a) \/ Callback(a)
  <2>1. /\ attempt' \in [Attempts -> {"fresh", "started", "spent"} \cup XAccounts]
        /\ UNCHANGED <<time, verified, logins, mintPageVars, relayed>>
    BY <1>2 DEF Consents, Callback, cookieVars, XTyped
  <2> USE <2>1 DEF mintPageVars
  <2>2. XTyped'
    BY DEF XTyped
  <2>3. CookiesProven' /\ ClaimsShown' /\ RelayedProven' /\ StatusesStood' /\ SessionsCurrent'
    BY DEF CookiesProven, Proven, ClaimsShown, RelayedProven, StatusesStood, Told, SessionsCurrent,
           Current
  <2> QED
    BY <2>2, <2>3
<1>3. CASE CallbackAnswered(a)
  <2>1. CASE /\ attempt[a] \in XAccounts
             /\ attempt' = [attempt EXCEPT ![a] = "spent"]
             /\ logins' = logins \cup {[account |-> attempt[a], at |-> time]}
             /\ verified' = [account |-> attempt[a], exp |-> time + VerifiedTtl]
             /\ reads' = {[r EXCEPT !.since = TRUE] : r \in reads}
             /\ mintTab' = [mintTab EXCEPT !.since = TRUE]
             /\ UNCHANGED <<time, claims, relayed>>
    <3> USE <2>1
    <3>0. attempt[a] \in Somebody /\ time + VerifiedTtl \in Nat
      BY XTimesAssumption DEF XTyped, Somebody
    <3>1. XTyped'
      <4>1. verified' \in Cookie
        BY <3>0 DEF Cookie
      <4>2. reads' \subseteq [account : Somebody, since : BOOLEAN]
        BY DEF XTyped
      <4>3. mintTab' \in [open : BOOLEAN, shown : Somebody, since : BOOLEAN, claiming : BOOLEAN]
        BY DEF XTyped
      <4> QED
        BY <4>1, <4>2, <4>3 DEF XTyped, xStatusVars, statusVars
    <3>2. Proven(verified)'
      <4> DEFINE l == [account |-> attempt[a], at |-> time]
      <4>1. /\ l \in logins' /\ l.account = verified'.account
            /\ verified'.exp = l.at + VerifiedTtl
        OBVIOUS
      <4>2. l.at \in Nat /\ l.at <= time'
        BY DEF XTyped
      <4> QED
        BY <4>1, <4>2 DEF Proven
    <3>3. ASSUME NEW c \in claims PROVE Proven(c.cookie)'
      BY DEF CookiesProven, Proven
    <3>4. CookiesProven'
      BY <3>2, <3>3 DEF CookiesProven
    <3>5. SessionsCurrent'
      BY DEF SessionsCurrent, Current, XTyped
    <3>6. ClaimsShown' /\ RelayedProven' /\ StatusesStood'
      BY DEF ClaimsShown, RelayedProven, StatusesStood, Told
    <3> QED
      BY <3>1, <3>4, <3>5, <3>6
  <2>2. CASE /\ attempt' \in {attempt, [attempt EXCEPT ![a] = "spent"]}
             /\ UNCHANGED <<verified, logins, reads, mintTab, time, claims, relayed>>
    <3> USE <2>2
    <3>1. XTyped'
      BY DEF XTyped
    <3>2. CookiesProven' /\ ClaimsShown' /\ RelayedProven' /\ StatusesStood' /\ SessionsCurrent'
      BY DEF CookiesProven, Proven, ClaimsShown, RelayedProven, StatusesStood, Told, SessionsCurrent,
             Current
    <3> QED
      BY <3>1, <3>2
  <2> QED
    BY <1>3, <2>1, <2>2 DEF CallbackAnswered, cookieVars
<1> QED
  BY <1>1, <1>2, <1>3

LEMMA MintTabKeeps == ASSUME XInv, UNCHANGED xStatusVars,
                             AsksSession \/ HearsSession \/ ClaimByX \/ WizardSubmits
                      PROVE  XInv'
<1> USE DEF XInv, xStatusVars, statusVars, oauthVars, cookieVars
<1>0. Session(verified) \in Somebody /\ Session(verified) \in {NoAccount, verified.account}
  BY DEF XTyped, Session, Cookie, Somebody
<1>1. CASE AsksSession
  <2> DEFINE r == [account |-> Session(verified), since |-> FALSE]
  <2>1. mintTab' \in [open : BOOLEAN, shown : Somebody, since : BOOLEAN, claiming : BOOLEAN]
    BY <1>1 DEF AsksSession, XTyped
  <2>2. Current(mintTab'.shown, mintTab'.since)
    BY <1>1 DEF AsksSession, SessionsCurrent, XTyped
  <2>3. r \in [account : Somebody, since : BOOLEAN] /\ Current(r.account, r.since)
    BY <1>0 DEF Current
  <2>4. reads' = reads \cup {r} /\ UNCHANGED <<time, oauthVars, claims, relayed>>
    BY <1>1 DEF AsksSession
  <2> HIDE DEF r
  <2> QED
    BY <2>1, <2>2, <2>3, <2>4, CookieKept
<1>2. CASE HearsSession
  <2>1. PICK r \in reads :
          /\ reads' = reads \ {r}
          /\ mintTab' = IF mintTab.open
                        THEN [mintTab EXCEPT !.shown = r.account, !.since = r.since]
                        ELSE mintTab
    BY <1>2 DEF HearsSession
  <2>2. /\ mintTab' \in [open : BOOLEAN, shown : Somebody, since : BOOLEAN, claiming : BOOLEAN]
        /\ Current(mintTab'.shown, mintTab'.since)
    BY <2>1 DEF XTyped, SessionsCurrent
  <2> QED
    BY <1>2, <2>1, <2>2, CookieKept DEF HearsSession
<1>3. CASE ClaimByX
  <2> DEFINE c == [cookie |-> verified, shown |-> mintTab.shown, since |-> mintTab.since]
  <2>1. /\ c \in [cookie : {verified}, shown : Somebody, since : BOOLEAN]
        /\ Current(c.shown, c.since)
    BY DEF XTyped, SessionsCurrent
  <2>2. /\ mintTab' \in [open : BOOLEAN, shown : Somebody, since : BOOLEAN, claiming : BOOLEAN]
        /\ mintTab'.shown = mintTab.shown /\ mintTab'.since = mintTab.since
    BY <1>3 DEF ClaimByX, XTyped
  <2>3. Current(mintTab'.shown, mintTab'.since)
    BY <2>2 DEF SessionsCurrent
  <2>4. claims' = claims \cup {c} /\ UNCHANGED <<time, oauthVars, reads, relayed>>
    BY <1>3 DEF ClaimByX
  <2> HIDE DEF c
  <2> QED
    BY <2>1, <2>2, <2>3, <2>4, CookieKept
<1>4. CASE WizardSubmits
  <2> DEFINE c == [cookie |-> verified, shown |-> NoAccount, since |-> FALSE]
  <2>1. /\ c \in [cookie : {verified}, shown : Somebody, since : BOOLEAN]
        /\ Current(c.shown, c.since)
    BY DEF Current, Somebody
  <2>2. claims' = claims \cup {c} /\ UNCHANGED <<time, oauthVars, mintTab, reads, relayed>>
    BY <1>4 DEF WizardSubmits
  <2>3. /\ mintTab' \in [open : BOOLEAN, shown : Somebody, since : BOOLEAN, claiming : BOOLEAN]
        /\ Current(mintTab'.shown, mintTab'.since)
    BY <2>2 DEF XTyped, SessionsCurrent
  <2> HIDE DEF c
  <2> QED
    BY <2>1, <2>2, <2>3, CookieKept
<1> QED
  BY <1>1, <1>2, <1>3, <1>4

LEMMA RelayKeeps == ASSUME XInv, UNCHANGED xStatusVars, UNCHANGED time,
                           ClaimRelayed \/ SubmitRelayed
                    PROVE  XInv'
<1> USE DEF XInv, xStatusVars, statusVars, oauthVars, cookieVars
<1>1. PICK c \in claims :
        /\ Relay(c)
        /\ mintTab' \in {mintTab, [mintTab EXCEPT !.claiming = FALSE]}
  BY DEF ClaimRelayed, SubmitRelayed
<1> USE <1>1 DEF Relay
<1>2. XTyped'
  BY DEF XTyped
<1>3. CookiesProven' /\ ClaimsShown' /\ StatusesStood'
  BY DEF CookiesProven, Proven, ClaimsShown, StatusesStood, Told
<1>4. SessionsCurrent'
  BY DEF SessionsCurrent, Current, XTyped
<1>5. RelayedProven'
  <2>1. CASE Session(c.cookie) = NoAccount
    BY <2>1 DEF RelayedProven
  <2>2. CASE Session(c.cookie) # NoAccount
    <3>1. ~(time > c.cookie.exp) /\ Session(c.cookie) = c.cookie.account
      BY <2>2 DEF Session, VerifyToken
    <3>2. PICK l \in logins : /\ l.account = c.cookie.account
                              /\ c.cookie.exp = l.at + VerifiedTtl
                              /\ l.at \in Nat /\ l.at <= time
      BY <2>2, <3>1 DEF CookiesProven, Proven
    <3>3. time - l.at \in 0 .. VerifiedTtl
      BY <3>1, <3>2, XTimesAssumption DEF XTyped
    <3>4. c.shown # NoAccount /\ ~c.since => c.shown = c.cookie.account
      BY DEF ClaimsShown
    <3>5. relayed' = [account |-> c.cookie.account, at |-> time,
                      shown |-> c.shown, since |-> c.since]
      BY <2>2, <3>1
    <3> QED
      BY <3>2, <3>3, <3>4, <3>5 DEF RelayedProven
  <2> QED
    BY <2>1, <2>2
<1> QED
  BY <1>2, <1>3, <1>4, <1>5

LEMMA StatusKeeps == ASSUME XInv, XStatusNext, UNCHANGED xLoginVars
                     PROVE  XInv'
<1> USE DEF XInv, xLoginVars, oauthVars, cookieVars, mintPageVars
<1>1. CookiesProven' /\ ClaimsShown' /\ RelayedProven' /\ SessionsCurrent'
  BY DEF CookiesProven, Proven, ClaimsShown, RelayedProven, SessionsCurrent, Current
<1>2. XTyped'
  BY DEF XStatusNext, TypeHandle, EntryMoves, CheckStatus, StatusShown, statusVars, XTyped,
         Somebody
<1>3. StatusesStood'
  <2>1. ASSUME NEW c \in XAccounts, TypeHandle(c) PROVE StatusesStood'
    BY <2>1 DEF TypeHandle, StatusesStood, Told, NotChecked
  <2>2. ASSUME NEW c \in XAccounts, EntryMoves(c) PROVE StatusesStood'
    <3>1. PICK s \in Entries : /\ listing' = [listing EXCEPT ![c] = s]
                               /\ stood' = stood \cup {<<c, s>>}
                               /\ UNCHANGED statusVars
      BY <2>2 DEF EntryMoves, Entries
    <3>2. ASSUME NEW d \in XAccounts PROVE Told(<<d, listing[d]>>)'
      BY <3>1 DEF StatusesStood, Told
    <3> QED
      BY <3>1, <3>2 DEF StatusesStood, Told, statusVars
  <2>3. CASE CheckStatus
    BY <2>3 DEF CheckStatus, StatusesStood, Told, NotChecked, XTyped, Somebody
  <2>4. CASE StatusShown
    BY <2>4 DEF StatusShown, StatusesStood, Told
  <2> QED
    BY <2>1, <2>2, <2>3, <2>4 DEF XStatusNext
<1> QED
  BY <1>1, <1>2, <1>3

LEMMA XInvNext == XInv /\ [XNext]_xVars => XInv'
<1> SUFFICES ASSUME XInv, [XNext]_xVars PROVE XInv'
  OBVIOUS
<1>1. CASE XLoginNext /\ UNCHANGED xStatusVars
  <2>1. CASE Elapse
    <3> USE <1>1, <2>1 DEF Elapse, XInv, xStatusVars, statusVars, oauthVars, cookieVars, mintPageVars
    <3>1. XTyped'
      BY DEF XTyped
    <3>2. CookiesProven'
      BY DEF CookiesProven, Proven, XTyped
    <3>3. ClaimsShown' /\ RelayedProven' /\ SessionsCurrent' /\ StatusesStood'
      BY DEF ClaimsShown, RelayedProven, SessionsCurrent, Current, StatusesStood, Told
    <3> QED
      BY <3>1, <3>2, <3>3
  <2>2. CASE ClaimRelayed \/ SubmitRelayed
    <3>1. UNCHANGED time
      BY <2>2 DEF ClaimRelayed, SubmitRelayed, Relay
    <3> QED
      BY <1>1, <2>2, <3>1, RelayKeeps
  <2> QED
    BY <1>1, <2>1, <2>2, SigningInKeeps, MintTabKeeps DEF XLoginNext
<1>2. CASE XStatusNext /\ UNCHANGED xLoginVars
  BY <1>2, StatusKeeps
<1>3. CASE UNCHANGED xVars
  BY <1>3 DEF xVars, xLoginVars, xStatusVars, statusVars, oauthVars, cookieVars, mintPageVars,
              XInv, XTyped, CookiesProven, Proven, ClaimsShown, RelayedProven, SessionsCurrent,
              Current, StatusesStood, Told
<1> QED
  BY <1>1, <1>2, <1>3 DEF XNext

LEMMA XInvProven == XInv => HandlesProven
  BY DEF XInv, RelayedProven, StatusesStood, Told, HandlesProven

\* The proxies pass on what X named a session ago at most, the handle the page shows
\* unless somebody signed in since, and a status shown is one the handle had, for any
\* number of tabs, attempts and accounts and any lifetime of the cookies.
THEOREM HandlesProvenAlways == XSpec => []HandlesProven
<1>1. XSpec => []XInv
  BY XInvInit, XInvNext, PTL DEF XSpec
<1> QED
  BY <1>1, XInvProven, PTL

-----------------------------------------------------------------------------
(* The market page: what it says was bought was bought.                    *)

PurchaseRecords == [piece : Pieces, status : {"pending", "done", "failed"}]
RowPhases == {"none", "creating", "waiting", "filled", "failed"}

\* The purchases, the rows and the answers of the backend have their types.
MarketTyped ==
  /\ bought \in Seq(PurchaseRecords)
  /\ rows \in [Pieces -> [phase : RowPhases, purchase : Nat]]
  /\ orders \subseteq Pieces \X Nat
  /\ verdicts \subseteq Pieces \X {"pending", "done", "failed"}
  /\ selected \subseteq Pieces /\ dialog \in BOOLEAN

\* A purchase that an answer or a row names was made, of that piece.
OwnPurchase(p, n) == n # NoId => n \in DOMAIN bought /\ bought[n].piece = p
OwnPurchases ==
  /\ \A o \in orders : OwnPurchase(o[1], o[2])
  /\ \A p \in Pieces : OwnPurchase(p, rows[p].purchase)

\* A row waits for a purchase, and is paid only when that is.
RowStands(p) ==
  /\ rows[p].phase \in {"none", "creating"} => rows[p].purchase = NoId
  /\ rows[p].phase \in {"waiting", "filled"} => rows[p].purchase # NoId
  /\ rows[p].phase = "filled" => bought[rows[p].purchase].status = "done"
RowsStand == \A p \in Pieces : RowStands(p)

\* A verdict is about a row that has waited, and "done" is so for good.
VerdictStands(v) ==
  /\ rows[v[1]].phase \notin {"none", "creating"}
  /\ v[2] = "done" => /\ rows[v[1]].purchase # NoId
                      /\ bought[rows[v[1]].purchase].status = "done"
VerdictsStand == \A v \in verdicts : VerdictStands(v)

\* Without a dialog there is nothing of it; with one, and with the list it was
\* opened on, its rows are those of the pieces that are selected.
DialogStands ==
  /\ ~dialog => rows = EmptyRows /\ orders = {} /\ verdicts = {}
  /\ dialog /\ ~replaced => {p \in Pieces : rows[p].phase # "none"} = SelectedItems

ForgeStands ==
  /\ forge.at = "made" => forge.made
  /\ forge.message = "ok" => forge.made
  /\ forge \in [crafting : BOOLEAN, message : {"none", "ok", "error"},
                at : {"none", "asked", "made", "refused"}, crafts : Nat, made : BOOLEAN]

MarketPageInv ==
  /\ MarketTyped /\ OwnPurchases /\ RowsStand /\ VerdictsStand /\ DialogStands /\ ForgeStands

LEMMA MarketPageTruth == MarketPageInv => MarketTellsTruth
<1> SUFFICES ASSUME MarketPageInv PROVE MarketTellsTruth
  OBVIOUS
<1>1. ASSUME NEW p \in Pieces, rows[p].phase = "filled"
      PROVE  /\ rows[p].purchase # NoId
             /\ bought[rows[p].purchase] = [piece |-> p, status |-> "done"]
  <2>1. rows[p].purchase # NoId /\ bought[rows[p].purchase].status = "done"
    BY <1>1 DEF MarketPageInv, RowsStand, RowStands
  <2>2. rows[p].purchase \in DOMAIN bought /\ bought[rows[p].purchase].piece = p
    BY <2>1 DEF MarketPageInv, OwnPurchases, OwnPurchase
  <2>3. bought[rows[p].purchase] \in PurchaseRecords
    BY <2>2 DEF MarketPageInv, MarketTyped
  <2> QED
    BY <2>1, <2>2, <2>3 DEF PurchaseRecords
<1>2. ASSUME AllDone, ~replaced, NEW p \in Pieces
      PROVE  rows[p].phase \in {"none", "filled"}
  <2> DEFINE Filled == {q \in Pieces : rows[q].phase = "filled"}
             Asked == {q \in Pieces : rows[q].phase # "none"}
  <2>1. Asked = SelectedItems /\ Cardinality(Filled) = Cardinality(SelectedItems)
    BY <1>2 DEF AllDone, MarketPageInv, DialogStands
  <2>2. IsFiniteSet(Asked)
    BY PagePiecesAssumption, FS_Subset, Asked \in SUBSET Pieces
  <2>3. Filled \in SUBSET Asked
    OBVIOUS
  <2>4. Asked = Filled
    BY <2>1, <2>2, <2>3, FS_Subset
  <2> QED
    BY <2>4
<1> QED
  BY <1>1, <1>2 DEF MarketTellsTruth, MarketPageInv, ForgeStands

-----------------------------------------------------------------------------
(* The invariant is kept.                                                  *)

LEMMA MarketPageStart == MarketPageInit => MarketPageInv
<1> SUFFICES ASSUME MarketPageInit PROVE MarketPageInv
  OBVIOUS
<1>1. bought = << >> /\ rows = EmptyRows /\ orders = {} /\ verdicts = {} /\ selected = {}
      /\ dialog = FALSE
  BY DEF MarketPageInit
<1>2. \A p \in Pieces : rows[p] = [phase |-> "none", purchase |-> 0]
  BY <1>1 DEF EmptyRows, EmptyRow, NoId
<1>3. EmptyRows \in [Pieces -> [phase : RowPhases, purchase : Nat]]
  BY DEF EmptyRows, EmptyRow, NoId, RowPhases
<1>4. MarketTyped
  <2>1. << >> \in Seq(PurchaseRecords)
    OBVIOUS
  <2> QED
    BY <1>1, <1>3, <2>1 DEF MarketTyped
<1>5. OwnPurchases /\ RowsStand /\ VerdictsStand /\ DialogStands
  BY <1>1, <1>2 DEF NoId, OwnPurchases, OwnPurchase, RowsStand, RowStands, VerdictsStand,
     DialogStands
<1>6. ForgeStands
  BY DEF MarketPageInit, ForgeStands
<1> QED
  BY <1>4, <1>5, <1>6 DEF MarketPageInv

LEMMA ForgeKeeps ==
  ASSUME MarketPageInv, CraftForgeTier, UNCHANGED <<databaseVars, listVars, dialogVars>>
  PROVE  MarketPageInv'
<1>1. ForgeStands'
  <2>0. ForgeStands
    BY DEF MarketPageInv
  <2>1. CASE /\ ForgeView /\ forge.crafts < MaxCrafts
             /\ forge' = [forge EXCEPT !.crafting = TRUE, !.message = "none", !.at = "asked",
                                       !.crafts = @ + 1, !.made = FALSE]
    <3>1. forge' = [crafting |-> TRUE, message |-> "none", at |-> "asked",
                    crafts |-> forge.crafts + 1, made |-> FALSE]
      BY <2>0, <2>1 DEF ForgeStands
    <3>2. forge.crafts + 1 \in Nat
      BY <2>0 DEF ForgeStands
    <3> QED
      BY <3>1, <3>2 DEF ForgeStands
  <2>2. CASE forge' = [forge EXCEPT !.at = "made", !.made = TRUE]
    BY <2>0, <2>2 DEF ForgeStands
  <2>3. CASE forge' = [forge EXCEPT !.at = "refused"]
    BY <2>0, <2>3 DEF ForgeStands
  <2>4. CASE forge.at = "made" /\ forge' = [forge EXCEPT !.message = "ok"]
    BY <2>0, <2>4 DEF ForgeStands
  <2>5. ASSUME NEW m \in {"error"} \cup ({forge.message} \ {"none"}),
               forge' = [forge EXCEPT !.at = "none", !.crafting = FALSE, !.message = m]
        PROVE  ForgeStands'
    BY <2>0, <2>5 DEF ForgeStands
  <2> QED
    BY <2>1, <2>2, <2>3, <2>4, <2>5 DEF CraftForgeTier
<1> QED
  BY <1>1 DEF MarketPageInv, MarketTyped, OwnPurchases, OwnPurchase, RowsStand, RowStands,
     VerdictsStand, VerdictStands, DialogStands, SelectedItems, databaseVars, listVars, dialogVars

\* PurchaseIds are only added or settled.
BoughtGrows ==
  \A n \in DOMAIN bought :
    /\ n \in DOMAIN bought' /\ bought'[n].piece = bought[n].piece
    /\ bought[n].status = "done" => bought'[n].status = "done"

LEMMA BoughtStays == ASSUME UNCHANGED bought PROVE BoughtGrows
  BY DEF BoughtGrows

LEMMA ReservesGrows ==
  ASSUME MarketTyped, NEW p \in Pieces, Reserves(p)
  PROVE  /\ BoughtGrows /\ bought' \in Seq(PurchaseRecords)
         /\ Len(bought) + 1 \in DOMAIN bought' /\ bought'[Len(bought) + 1].piece = p
<1>1. [piece |-> p, status |-> "pending"] \in PurchaseRecords
  BY DEF PurchaseRecords
<1>2. bought' = Append(bought, [piece |-> p, status |-> "pending"])
  BY DEF Reserves
<1> QED
  BY <1>1, <1>2 DEF MarketTyped, BoughtGrows

LEMMA SettlesGrows ==
  ASSUME MarketTyped, NEW n \in DOMAIN bought, PurchaseSettles(n)
  PROVE  BoughtGrows /\ bought' \in Seq(PurchaseRecords)
<1>1. PICK s \in {"done", "failed"} : bought' = [bought EXCEPT ![n].status = s]
  BY DEF PurchaseSettles
<1>2. bought[n] \in PurchaseRecords
  BY DEF MarketTyped
<1>3. [bought[n] EXCEPT !.status = s] \in PurchaseRecords
  BY <1>2 DEF PurchaseRecords
<1>4. bought[n].status = "pending"
  BY DEF PurchaseSettles
<1>5. bought' = [bought EXCEPT ![n] = [bought[n] EXCEPT !.status = s]]
  BY <1>1
<1>6. bought' \in Seq(PurchaseRecords)
  BY <1>3, <1>5 DEF MarketTyped
<1>7. DOMAIN bought' = DOMAIN bought
  BY <1>5
<1>8. ASSUME NEW k \in DOMAIN bought
      PROVE  /\ bought'[k].piece = bought[k].piece
             /\ bought[k].status = "done" => bought'[k].status = "done"
  <2>1. CASE k = n
    BY <1>2, <1>4, <1>5, <2>1 DEF PurchaseRecords
  <2>2. CASE k # n
    BY <1>5, <2>2
  <2> QED
    BY <2>1, <2>2
<1> QED
  BY <1>6, <1>7, <1>8 DEF BoughtGrows

\* What is so of an answer, a row and a verdict stays so as purchases are made.
LEMMA PurchasesStay ==
  ASSUME OwnPurchases, RowsStand, VerdictsStand, BoughtGrows, UNCHANGED rows,
         \A o \in orders' : o \in orders \/ OwnPurchase(o[1], o[2])', verdicts' = verdicts,
         MarketTyped
  PROVE  OwnPurchases' /\ RowsStand' /\ VerdictsStand'
<1>0. \A p, n : OwnPurchase(p, n) => OwnPurchase(p, n)'
  BY DEF OwnPurchase, BoughtGrows, NoId
<1>1. ASSUME NEW p \in Pieces PROVE OwnPurchase(p, rows[p].purchase)' /\ RowStands(p)'
  <2>1. OwnPurchase(p, rows[p].purchase) /\ RowStands(p)
    BY DEF OwnPurchases, RowsStand
  <2> QED
    BY <1>0, <2>1 DEF OwnPurchase, RowStands, BoughtGrows, NoId
<1>2. ASSUME NEW o \in orders' PROVE OwnPurchase(o[1], o[2])'
  <2>1. o \in orders => OwnPurchase(o[1], o[2])
    BY DEF OwnPurchases
  <2> QED
    BY <1>0, <2>1
<1>3. ASSUME NEW v \in verdicts PROVE VerdictStands(v)'
  <2>1. VerdictStands(v) /\ OwnPurchase(v[1], rows[v[1]].purchase)
    BY DEF VerdictsStand, OwnPurchases, MarketTyped
  <2> QED
    BY <2>1 DEF VerdictStands, OwnPurchase, BoughtGrows, NoId
<1> QED
  BY <1>1, <1>2, <1>3 DEF OwnPurchases, RowsStand, VerdictsStand

LEMMA ListKeeps ==
  ASSUME MarketPageInv, UNCHANGED <<bought, dialog, rows, orders, verdicts, forge>>,
         selected' \subseteq Pieces,
         dialog => replaced' \/ (UNCHANGED <<selected, shown>> /\ (replaced' = replaced))
  PROVE  MarketPageInv'
<1>1. MarketTyped'
  BY DEF MarketPageInv, MarketTyped
<1>2. OwnPurchases' /\ RowsStand' /\ VerdictsStand'
  BY BoughtStays, PurchasesStay DEF MarketPageInv
<1>3. DialogStands'
  BY DEF MarketPageInv, MarketTyped, DialogStands, SelectedItems
<1>4. ForgeStands'
  BY DEF MarketPageInv, ForgeStands
<1> QED
  BY <1>1, <1>2, <1>3, <1>4 DEF MarketPageInv

LEMMA OpenDialogKeeps ==
  ASSUME MarketPageInv, OpenDialog, UNCHANGED forge
  PROVE  MarketPageInv'
<1> DEFINE Opened == [p \in Pieces |-> IF p \in SelectedItems
                        THEN [phase |-> "creating", purchase |-> 0]
                        ELSE [phase |-> "none", purchase |-> 0]]
<1>1. rows' = Opened
  BY DEF OpenDialog, EmptyRow, NoId
<1>a. ~dialog /\ dialog' = TRUE /\ orders' = orders /\ verdicts' = verdicts
  BY DEF OpenDialog
<1>b. UNCHANGED <<bought, selected, shown>>
  BY DEF OpenDialog, databaseVars, listVars
<1>c. orders = {} /\ verdicts = {}
  BY <1>a DEF MarketPageInv, DialogStands
<1>2. /\ ~dialog /\ dialog' = TRUE /\ orders = {} /\ verdicts = {} /\ orders' = {}
      /\ verdicts' = {} /\ bought' = bought /\ selected' = selected /\ shown' = shown
      /\ UNCHANGED forge
  BY <1>a, <1>b, <1>c
<1>3. Opened \in [Pieces -> [phase : RowPhases, purchase : Nat]]
  BY DEF RowPhases
<1>4. \A p \in Pieces : rows'[p].purchase = 0 /\ rows'[p].phase \in {"none", "creating"}
  BY <1>1
<1>5. MarketTyped'
  BY <1>1, <1>2, <1>3 DEF MarketPageInv, MarketTyped
<1>6. OwnPurchases' /\ RowsStand' /\ VerdictsStand'
  BY <1>2, <1>4 DEF OwnPurchases, OwnPurchase, RowsStand, RowStands, VerdictsStand, NoId
<1>7. DialogStands'
  <2>1. SelectedItems \subseteq Pieces
    BY DEF SelectedItems, MarketPageInv, MarketTyped
  <2>2. {p \in Pieces : Opened[p].phase # "none"} = SelectedItems
    BY <2>1
  <2> QED
    BY <1>1, <1>2, <2>2 DEF DialogStands, SelectedItems
<1> QED
  BY <1>2, <1>5, <1>6, <1>7 DEF MarketPageInv, ForgeStands

LEMMA GoneKeeps ==
  ASSUME MarketPageInv, Gone, UNCHANGED <<bought, forge>>, selected' \subseteq Pieces
  PROVE  MarketPageInv'
<1>1. /\ dialog' = FALSE /\ rows' = EmptyRows /\ orders' = {} /\ verdicts' = {}
      /\ UNCHANGED <<bought, forge>>
  BY DEF Gone
<1>2. \A p \in Pieces : rows'[p] = [phase |-> "none", purchase |-> 0]
  BY <1>1 DEF EmptyRows, EmptyRow, NoId
<1>3. EmptyRows \in [Pieces -> [phase : RowPhases, purchase : Nat]]
  BY DEF EmptyRows, EmptyRow, NoId, RowPhases
<1>4. MarketTyped'
  BY <1>1, <1>3 DEF MarketPageInv, MarketTyped
<1>5. OwnPurchases' /\ RowsStand' /\ VerdictsStand'
  BY <1>1, <1>2 DEF OwnPurchases, OwnPurchase, RowsStand, RowStands, VerdictsStand, NoId
<1>6. DialogStands'
  BY <1>1 DEF DialogStands, EmptyRows, EmptyRow, NoId
<1> QED
  BY <1>1, <1>4, <1>5, <1>6 DEF MarketPageInv, ForgeStands

\* A purchase is made, for a row or for a dialog that is gone, or settled.
LEMMA BackendKeeps ==
  ASSUME MarketPageInv, BoughtGrows, bought' \in Seq(PurchaseRecords),
         UNCHANGED <<dialog, rows, replaced, verdicts, selected, shown, forge>>,
         orders' \subseteq Pieces \X Nat,
         \A o \in orders' : o \in orders \/ OwnPurchase(o[1], o[2])',
         orders' # orders => dialog
  PROVE  MarketPageInv'
<1>1. MarketTyped'
  BY DEF MarketPageInv, MarketTyped
<1>2. OwnPurchases' /\ RowsStand' /\ VerdictsStand'
  BY PurchasesStay DEF MarketPageInv
<1>3. DialogStands'
  BY DEF MarketPageInv, MarketTyped, DialogStands, SelectedItems
<1> QED
  BY <1>1, <1>2, <1>3 DEF MarketPageInv, ForgeStands

\* An answer comes: its row waits for the purchase, or has failed.
LEMMA RowOpensKeeps ==
  ASSUME MarketPageInv, RowOpens, UNCHANGED forge
  PROVE  MarketPageInv'
<1>1. PICK o \in orders :
        /\ rows[o[1]].phase = "creating"
        /\ rows' \in {[rows EXCEPT ![o[1]] = [phase |-> "failed", purchase |-> NoId]]}
                     \cup {[rows EXCEPT ![o[1]] = [phase |-> "waiting", purchase |-> n]] :
                             n \in {o[2]} \ {NoId}}
  BY DEF RowOpens
<1>2. UNCHANGED <<dialog, orders, replaced, verdicts, bought, selected, shown>>
  BY DEF RowOpens, databaseVars, listVars
<1>3. o[1] \in Pieces /\ o[2] \in Nat /\ OwnPurchase(o[1], o[2])
  BY DEF MarketPageInv, MarketTyped, OwnPurchases
<1>4. PICK r \in [phase : RowPhases, purchase : Nat] :
        /\ rows' = [rows EXCEPT ![o[1]] = r]
        /\ \/ r.phase = "failed" /\ r.purchase = 0
           \/ r.phase = "waiting" /\ r.purchase # 0 /\ r.purchase = o[2]
  <2>1. CASE rows' = [rows EXCEPT ![o[1]] = [phase |-> "failed", purchase |-> NoId]]
    BY <2>1, [phase |-> "failed", purchase |-> NoId] \in [phase : RowPhases, purchase : Nat]
       DEF NoId, RowPhases
  <2>2. ASSUME NEW n \in {o[2]} \ {NoId},
               rows' = [rows EXCEPT ![o[1]] = [phase |-> "waiting", purchase |-> n]]
        PROVE  \E r \in [phase : RowPhases, purchase : Nat] :
                 /\ rows' = [rows EXCEPT ![o[1]] = r]
                 /\ \/ r.phase = "failed" /\ r.purchase = 0
                    \/ r.phase = "waiting" /\ r.purchase # 0 /\ r.purchase = o[2]
    BY <1>3, <2>2, [phase |-> "waiting", purchase |-> n] \in [phase : RowPhases, purchase : Nat]
       DEF NoId, RowPhases
  <2> QED
    BY <1>1, <2>1, <2>2
<1>5. /\ rows' \in [Pieces -> [phase : RowPhases, purchase : Nat]] /\ rows'[o[1]] = r
      /\ \A p \in Pieces \ {o[1]} : rows'[p] = rows[p]
  BY <1>3, <1>4 DEF MarketPageInv, MarketTyped
<1>6. MarketTyped'
  BY <1>2, <1>5 DEF MarketPageInv, MarketTyped
<1>7. ASSUME NEW p \in Pieces PROVE OwnPurchase(p, rows[p].purchase)' /\ RowStands(p)'
  <2>1. OwnPurchase(p, rows[p].purchase) /\ RowStands(p)
    BY DEF MarketPageInv, OwnPurchases, RowsStand
  <2>2. CASE p = o[1]
    BY <1>2, <1>3, <1>4, <1>5, <2>2 DEF OwnPurchase, RowStands, NoId
  <2>3. CASE p # o[1]
    BY <1>2, <1>5, <2>1, <2>3 DEF OwnPurchase, RowStands, NoId
  <2> QED
    BY <2>2, <2>3
<1>8. \A q \in orders' : OwnPurchase(q[1], q[2])'
  BY <1>2 DEF MarketPageInv, OwnPurchases, OwnPurchase, NoId
<1>9. ASSUME NEW v \in verdicts' PROVE VerdictStands(v)'
  <2>1. VerdictStands(v) /\ v[1] \in Pieces
    BY <1>2 DEF MarketPageInv, VerdictsStand, MarketTyped
  <2>2. v[1] # o[1]
    BY <1>1, <2>1 DEF VerdictStands
  <2> QED
    BY <1>2, <1>5, <2>1, <2>2 DEF VerdictStands, NoId
<1>10. DialogStands'
  <2>1. dialog
    BY <1>1 DEF MarketPageInv, DialogStands, MarketTyped
  <2>2. \A p \in Pieces : rows'[p].phase # "none" <=> rows[p].phase # "none"
    BY <1>1, <1>3, <1>4, <1>5
  <2>3. {p \in Pieces : rows'[p].phase # "none"} = {p \in Pieces : rows[p].phase # "none"}
    BY <2>2
  <2> QED
    BY <1>2, <2>1, <2>3 DEF MarketPageInv, DialogStands, SelectedItems
<1> QED
  BY <1>2, <1>6, <1>7, <1>8, <1>9, <1>10
     DEF MarketPageInv, OwnPurchases, RowsStand, VerdictsStand, ForgeStands

LEMMA RowPollsKeeps ==
  ASSUME MarketPageInv, NEW p \in Pieces, RowPolls(p), UNCHANGED forge
  PROVE  MarketPageInv'
<1> DEFINE v == <<p, bought[rows[p].purchase].status>>
<1>1. /\ UNCHANGED <<dialog, rows, orders, replaced, bought, selected, shown>>
      /\ dialog /\ rows[p].phase = "waiting" /\ verdicts' = verdicts \cup {v}
  BY DEF RowPolls, databaseVars, listVars
<1>2. rows[p].purchase # NoId /\ rows[p].purchase \in DOMAIN bought
  BY <1>1 DEF MarketPageInv, RowsStand, RowStands, OwnPurchases, OwnPurchase
<1>3. bought[rows[p].purchase] \in PurchaseRecords
  BY <1>2 DEF MarketPageInv, MarketTyped
<1>4. v \in Pieces \X {"pending", "done", "failed"}
  BY <1>3 DEF PurchaseRecords
<1>5. VerdictStands(v)
  BY <1>1, <1>2 DEF VerdictStands
<1> HIDE DEF v
<1>6. MarketTyped'
  BY <1>1, <1>4 DEF MarketPageInv, MarketTyped
<1>7. VerdictsStand'
  BY <1>1, <1>5 DEF MarketPageInv, VerdictsStand, VerdictStands, NoId
<1>8. OwnPurchases' /\ RowsStand'
  BY <1>1 DEF MarketPageInv, OwnPurchases, OwnPurchase, RowsStand, RowStands, NoId
<1>9. DialogStands'
  BY <1>1 DEF MarketPageInv, DialogStands, SelectedItems
<1> QED
  BY <1>6, <1>7, <1>8, <1>9 DEF MarketPageInv, ForgeStands

\* A verdict comes: a row that was paid before stays so or has failed.
LEMMA RowHearsKeeps ==
  ASSUME MarketPageInv, RowHears, UNCHANGED forge
  PROVE  MarketPageInv'
<1>1. PICK v \in verdicts :
        /\ rows' = CASE v[2] = "done" -> [rows EXCEPT ![v[1]].phase = "filled"]
                     [] v[2] = "failed" -> [rows EXCEPT ![v[1]].phase = "failed"]
                     [] OTHER -> rows
        /\ verdicts' = verdicts \ {v}
  BY DEF RowHears
<1>2. UNCHANGED <<dialog, orders, replaced, bought, selected, shown>>
  BY DEF RowHears, databaseVars, listVars
<1>3. v[1] \in Pieces /\ VerdictStands(v) /\ rows[v[1]] \in [phase : RowPhases, purchase : Nat]
      /\ RowStands(v[1])
  BY DEF MarketPageInv, MarketTyped, VerdictsStand, RowsStand
<1>4. PICK r \in [phase : RowPhases, purchase : Nat] :
        /\ rows' = [rows EXCEPT ![v[1]] = r] /\ r.purchase = rows[v[1]].purchase
        /\ r.phase \in {rows[v[1]].phase, "failed"} \/ (v[2] = "done" /\ r.phase = "filled")
  <2>1. CASE v[2] = "done"
    BY <1>1, <1>3, <2>1,
       [rows[v[1]] EXCEPT !.phase = "filled"] \in [phase : RowPhases, purchase : Nat]
       DEF RowPhases
  <2>2. CASE v[2] = "failed"
    BY <1>1, <1>3, <2>2,
       [rows[v[1]] EXCEPT !.phase = "failed"] \in [phase : RowPhases, purchase : Nat]
       DEF RowPhases
  <2>3. CASE v[2] \notin {"done", "failed"}
    <3>1. rows' = [rows EXCEPT ![v[1]] = rows[v[1]]]
      BY <1>1, <1>3, <2>3 DEF MarketPageInv, MarketTyped
    <3> QED
      BY <1>3, <3>1
  <2> QED
    BY <2>1, <2>2, <2>3
<1>5. /\ rows' \in [Pieces -> [phase : RowPhases, purchase : Nat]] /\ rows'[v[1]] = r
      /\ \A p \in Pieces \ {v[1]} : rows'[p] = rows[p]
  BY <1>3, <1>4 DEF MarketPageInv, MarketTyped
<1>6. MarketTyped'
  BY <1>1, <1>2, <1>5 DEF MarketPageInv, MarketTyped
<1>7. ASSUME NEW p \in Pieces PROVE OwnPurchase(p, rows[p].purchase)' /\ RowStands(p)'
  <2>1. OwnPurchase(p, rows[p].purchase) /\ RowStands(p)
    BY DEF MarketPageInv, OwnPurchases, RowsStand
  <2>2. CASE p = v[1]
    BY <1>2, <1>3, <1>4, <1>5, <2>1, <2>2 DEF OwnPurchase, RowStands, VerdictStands, NoId
  <2>3. CASE p # v[1]
    BY <1>2, <1>5, <2>1, <2>3 DEF OwnPurchase, RowStands, NoId
  <2> QED
    BY <2>2, <2>3
<1>8. \A q \in orders' : OwnPurchase(q[1], q[2])'
  BY <1>2 DEF MarketPageInv, OwnPurchases, OwnPurchase, NoId
<1>9. ASSUME NEW w \in verdicts' PROVE VerdictStands(w)'
  <2>1. VerdictStands(w) /\ w[1] \in Pieces
    BY <1>1 DEF MarketPageInv, VerdictsStand, MarketTyped
  <2>2. CASE w[1] = v[1]
    BY <1>2, <1>3, <1>4, <1>5, <2>1, <2>2 DEF VerdictStands, NoId
  <2>3. CASE w[1] # v[1]
    BY <1>2, <1>5, <2>1, <2>3 DEF VerdictStands, NoId
  <2> QED
    BY <2>2, <2>3
<1>10. DialogStands'
  <2>1. dialog
    BY DEF MarketPageInv, DialogStands, MarketTyped
  <2>2. \A p \in Pieces : rows'[p].phase # "none" <=> rows[p].phase # "none"
    BY <1>3, <1>4, <1>5 DEF VerdictStands
  <2>3. {p \in Pieces : rows'[p].phase # "none"} = {p \in Pieces : rows[p].phase # "none"}
    BY <2>2
  <2> QED
    BY <1>2, <2>1, <2>3 DEF MarketPageInv, DialogStands, SelectedItems
<1> QED
  BY <1>2, <1>6, <1>7, <1>8, <1>9, <1>10
     DEF MarketPageInv, OwnPurchases, RowsStand, VerdictsStand, ForgeStands

LEMMA MarketPageStep == MarketPageInv /\ [MarketPageNext]_marketPageVars => MarketPageInv'
<1> SUFFICES ASSUME MarketPageInv, [MarketPageNext]_marketPageVars PROVE MarketPageInv'
  OBVIOUS
<1> USE DEF databaseVars, listVars, dialogVars
<1>0. selected \subseteq Pieces /\ bought \in Seq(PurchaseRecords)
      /\ orders \subseteq Pieces \X Nat /\ MarketTyped
  BY DEF MarketPageInv, MarketTyped
<1>1. CASE CraftForgeTier /\ UNCHANGED <<databaseVars, listVars, dialogVars>>
  BY <1>1, ForgeKeeps
<1>2. CASE ChooseFilter /\ UNCHANGED forge
  BY <1>2, ListKeeps DEF ChooseFilter, Fetch, Renew
<1>3. CASE ListAnswered /\ UNCHANGED forge
  BY <1>0, <1>3, ListKeeps DEF ListAnswered
<1>4. CASE ToggleSelect /\ UNCHANGED forge
  <2>1. ~dialog /\ selected' \subseteq Pieces
        /\ UNCHANGED <<bought, dialog, rows, orders, verdicts, forge>>
    BY <1>0, <1>4 DEF ToggleSelect
  <2> QED
    BY <2>1, ListKeeps
<1>5. CASE ClearSelection /\ UNCHANGED forge
  BY <1>5, ListKeeps DEF ClearSelection
<1>6. CASE OpenDialog /\ UNCHANGED forge
  BY <1>6, OpenDialogKeeps
<1>7. CASE RowOpens /\ UNCHANGED forge
  BY <1>7, RowOpensKeeps
<1>8. CASE RowHears /\ UNCHANGED forge
  BY <1>8, RowHearsKeeps
<1>9. CASE Dismiss /\ UNCHANGED forge
  BY <1>0, <1>9, GoneKeeps DEF Dismiss
<1>10. CASE CloseDialog /\ UNCHANGED forge
  BY <1>10, GoneKeeps DEF CloseDialog, Fetch, Renew
<1>11. ASSUME NEW p \in Pieces, RowOrdered(p), UNCHANGED forge PROVE MarketPageInv'
  <2>1. /\ dialog /\ UNCHANGED <<dialog, rows, replaced, verdicts, selected, shown, forge>>
    <3>1. dialog
      BY <1>11 DEF RowOrdered, MarketPageInv, DialogStands, MarketTyped, EmptyRows, EmptyRow
    <3> QED
      BY <1>11, <3>1 DEF RowOrdered
  <2>2. CASE Reserves(p) /\ orders' = orders \cup {<<p, Len(bought) + 1>>}
    <3>1. /\ BoughtGrows /\ bought' \in Seq(PurchaseRecords)
          /\ Len(bought) + 1 \in DOMAIN bought' /\ bought'[Len(bought) + 1].piece = p
      BY <1>0, <2>2, ReservesGrows
    <3>2. Len(bought) + 1 \in Nat
      BY <1>0
    <3>3. ASSUME NEW o \in orders' PROVE o \in orders \/ OwnPurchase(o[1], o[2])'
      BY <2>2, <3>1 DEF OwnPurchase
    <3> QED
      BY <1>0, <2>1, <2>2, <3>1, <3>2, <3>3, BackendKeeps
  <2>3. CASE orders' = orders \cup {<<p, NoId>>} /\ UNCHANGED databaseVars
    <3>1. ASSUME NEW o \in orders' PROVE o \in orders \/ OwnPurchase(o[1], o[2])'
      BY <2>3 DEF OwnPurchase, NoId
    <3>2. orders' \subseteq Pieces \X Nat /\ BoughtGrows /\ bought' \in Seq(PurchaseRecords)
      BY <1>0, <2>3, BoughtStays DEF NoId
    <3> QED
      BY <2>1, <3>1, <3>2, BackendKeeps
  <2> QED
    BY <1>11, <2>2, <2>3 DEF RowOrdered
<1>12. ASSUME NEW p \in Pieces, StrayOrdered(p), UNCHANGED forge PROVE MarketPageInv'
  <2>1. BoughtGrows /\ bought' \in Seq(PurchaseRecords)
    BY <1>0, <1>12, ReservesGrows, BoughtStays DEF StrayOrdered
  <2> QED
    BY <1>0, <1>12, <2>1, BackendKeeps DEF StrayOrdered
<1>13. ASSUME NEW p \in Pieces, RowPolls(p), UNCHANGED forge PROVE MarketPageInv'
  BY <1>13, RowPollsKeeps
<1>14. ASSUME NEW p \in Pieces, OthersMove(p), UNCHANGED forge PROVE MarketPageInv'
  BY <1>0, <1>14, BackendKeeps, BoughtStays DEF OthersMove
<1>15. ASSUME NEW n \in DOMAIN bought, PurchaseSettles(n), UNCHANGED forge PROVE MarketPageInv'
  BY <1>0, <1>15, SettlesGrows, BackendKeeps DEF PurchaseSettles
<1>16. CASE CollectionAnswered /\ UNCHANGED forge
  <2>1. selected' \subseteq Pieces /\ (dialog => replaced')
        /\ UNCHANGED <<bought, dialog, rows, orders, verdicts, forge>>
    BY <1>16 DEF CollectionAnswered, Renew
  <2> QED
    BY <2>1, ListKeeps
<1>17. CASE UNCHANGED marketPageVars
  BY <1>0, <1>17, ListKeeps DEF marketPageVars
<1> QED
  BY <1>1, <1>2, <1>3, <1>4, <1>5, <1>6, <1>7, <1>8, <1>9, <1>10, <1>11, <1>12, <1>13, <1>14,
     <1>15, <1>16, <1>17 DEF MarketPageNext, MarketListNext

\* What the market page says was bought was bought, and its forge tells of a craft
\* that was made, for any pieces, filters and purchases (nft/page.tsx).
THEOREM MarketTellsTruthAlways == MarketPageSpec => []MarketTellsTruth
<1>1. MarketPageSpec => []MarketPageInv
  BY MarketPageStart, MarketPageStep, PTL DEF MarketPageSpec
<1> QED
  BY <1>1, MarketPageTruth, PTL

-----------------------------------------------------------------------------
(* The pages that ask for a payment.  A record a page was given exists and  *)
(* stays the page's until it is left; all the page hears is about it and    *)
(* was so once; and a wallet is asked for one payment at a time.            *)

FormPhases == {"amount", "form", "idle", "loading", "confirm", "soldOut", "notConfigured"}
InForm == page.phase \in FormPhases

\* Records in hand are the page's own, and exist.
OwnRecords ==
  /\ call.at = "opened" <=> call.record # NoRecord
  /\ {call.record, page.record} \subseteq mine \cup {NoRecord}
  /\ \A r \in mine : row[r] # "none"

\* What has been so is remembered, and what was not made cost nothing.
Remembered ==
  /\ \A r \in Records : IF row[r] = "none" THEN asked[r] = 0 /\ unheard[r] = 0 /\ sends[r] = 0
                                           ELSE <<r, row[r]>> \in been
  /\ \A r \in Records : <<r, "none">> \notin been
  /\ kind = "launch" => \A r \in Records : <<r, "done">> \in been => <<r, "paid">> \in been

\* Answers are about records of the page, and were so when they were given.
AnswersTrue == \A a \in answers : a[1] \in mine /\ <<a[1], a[2]>> \in been

\* Of all pages but that of a creation, which can go back: a record is asked for in
\* the form, where nothing is under way, and is the page's only one beyond it.
FormLeft == kind # "create" =>
  /\ call.at # "none" => InForm
  /\ InForm => answers = {} /\ ~page.sending /\ ~page.sent
  /\ ~InForm => page.record # NoRecord
  /\ \A a \in answers : a[1] = page.record
  /\ \A r \in mine : asked[r] + unheard[r] > 0 => r = page.record

\* A page has one payment at most in the hands of a wallet, and knows it.
OneAsked ==
  /\ \A r \in mine : asked[r] + unheard[r] <= 1
  /\ \A r, q \in mine : asked[r] + unheard[r] > 0 /\ asked[q] + unheard[q] > 0 => r = q
  /\ ~page.sending => \A r \in mine : asked[r] = 0 /\ unheard[r] = 0

\* No payment beyond what was quoted or went wrong, those asked for included.
PaymentsCovered == \A r \in Records : sends[r] + asked[r] <= quoted[r] + troubles[r]

\* Pages with a button to pay: it is gone for good once a payment was heard of.
ButtonGone == kind \notin {"launch", "sell"} =>
  /\ page.sent => \A r \in mine : asked[r] = 0 /\ unheard[r] = 0
  /\ \A r \in mine : sends[r] <= troubles[r] + unheard[r] + (IF page.sent THEN 1 ELSE 0)
  /\ \A r \in mine : quoted[r] >= 1 \/ (kind = "mint" /\ row[r] = "done")
  /\ page.phase = "waiting" => page.record # NoRecord /\ quoted[page.record] >= 1

\* A seller sells again only after an error.
SoldOnce == kind = "sell" =>
  /\ ~page.sending /\ page.phase \in {"form", "result"}
  /\ call.at = "opened" => <<call.record, "done">> \in been
  /\ \A r \in mine :
       /\ sends[r] <= troubles[r] + (IF call.at = "opened" \/ page.phase = "result" THEN 1 ELSE 0)
       /\ quoted[r] >= 1 /\ (call.at = "opened" => r = call.record)

\* Of a launch: each quote, on its way or shown, is good for one payment.
Quoting == quotes["ZEC"] + quotes["WALLET"]
OfferedNow == IF page.phase = "pay" /\ ~page.sending THEN 1 ELSE 0
QuotesCovered == kind = "launch" =>
  /\ InForm => Quoting = 0 /\ proofs = 0
  /\ ~InForm => sends[page.record] + asked[page.record] + Quoting + OfferedNow
                  <= quoted[page.record] + troubles[page.record]

\* Which pages have which phases.
PhasesApart ==
  /\ page.phase \in {"orchestrating", "pay"} => kind = "launch"
  /\ PageTellsTruth

PagesInv ==
  /\ PagesTypeOK /\ OwnRecords /\ Remembered /\ AnswersTrue /\ FormLeft /\ OneAsked
  /\ PaymentsCovered /\ ButtonGone /\ SoldOnce /\ QuotesCovered /\ PhasesApart

\* The types, as the steps below use them.
PageRecord == [phase : PagePhases, record : Records \cup {NoRecord}, asking : BOOLEAN,
               sending : BOOLEAN, sent : BOOLEAN, method : Methods \cup {"none"}]
CallRecord == [at : {"none", "asked", "opened"}, record : Records \cup {NoRecord}]
PagesTyped ==
  /\ kind \in Kinds /\ page \in PageRecord /\ call \in CallRecord
  /\ row \in [Records -> Statuses] /\ been \subseteq Records \X Statuses
  /\ answers \subseteq Records \X Statuses \X PagePhases /\ mine \subseteq Records
  /\ asked \in [Records -> Nat] /\ unheard \in [Records -> Nat]
  /\ sends \in [Records -> Nat] /\ troubles \in [Records -> Nat]
  /\ quoted \in [Records -> Nat]
  /\ quotes \in [Methods -> Nat] /\ proofs \in Nat

LEMMA PagesTypesAre == PagesTyped <=> PagesTypeOK
  BY DEF PagesTyped, PagesTypeOK, PageRecord, CallRecord
LEMMA PagesTypesAreNext == PagesTyped' <=> PagesTypeOK'
  BY DEF PagesTyped, PagesTypeOK, PageRecord, CallRecord

\* The status of a record becomes s, as the modules that settle it say.
LEMMA RecordSettlesKeeps ==
  ASSUME PagesInv, NEW r \in Records, RecordSettles(r)
  PROVE  PagesInv'
<1> USE DEF serverVars, moneyVars, launchOnlyVars
<1>1. PagesTyped
  BY PagesTypesAre DEF PagesInv
<1>2. UNCHANGED <<kind, page, call, mine, answers, asked, unheard, sends, troubles, quoted,
                  quotes, proofs>>
  BY DEF RecordSettles
<1>3. PICK s \in {"paid", "done", "failed"} :
        /\ row' = [row EXCEPT ![r] = s] /\ been' = been \cup {<<r, s>>}
        /\ row[r] \in {"pending", "paid"}
        /\ kind = "launch" /\ s = "done" => row[r] = "paid"
  BY DEF RecordSettles, Become
<1>4. /\ row'[r] = s /\ \A q \in Records \ {r} : row'[q] = row[q]
      /\ been \subseteq been'
  BY <1>1, <1>3 DEF PagesTyped
<1>5. PagesTyped'
  BY <1>1, <1>2, <1>3 DEF PagesTyped, Statuses
<1>6. OwnRecords'
  BY <1>1, <1>2, <1>4 DEF PagesInv, OwnRecords, PagesTyped
<1>7. Remembered'
  BY <1>1, <1>2, <1>3, <1>4 DEF PagesInv, Remembered, PagesTyped
<1>8. AnswersTrue'
  BY <1>2, <1>4 DEF PagesInv, AnswersTrue
<1>9. FormLeft'
  BY <1>2 DEF PagesInv, FormLeft, InForm
<1>10. OneAsked'
  BY <1>2 DEF PagesInv, OneAsked
<1>11. PaymentsCovered'
  BY <1>2 DEF PagesInv, PaymentsCovered
<1>12. ButtonGone'
  BY <1>1, <1>2, <1>3, <1>4 DEF PagesInv, ButtonGone, PagesTyped
<1>13. SoldOnce'
  BY <1>2, <1>4 DEF PagesInv, SoldOnce
<1>14. QuotesCovered'
  BY <1>2 DEF PagesInv, QuotesCovered, InForm, Quoting, OfferedNow
<1>15. PhasesApart'
  BY <1>2, <1>4 DEF PagesInv, PhasesApart, PageTellsTruth
<1> QED
  BY <1>5, <1>6, <1>7, <1>8, <1>9, <1>10, <1>11, <1>12, <1>13, <1>14, <1>15, PagesTypesAreNext
     DEF PagesInv

\* The wallet sends: what was asked for is made.
LEMMA WalletSendsKeeps ==
  ASSUME PagesInv, NEW r \in Records, WalletSends(r)
  PROVE  PagesInv'
<1> USE DEF serverVars, moneyVars, launchOnlyVars
<1>1. PagesTyped
  BY PagesTypesAre DEF PagesInv
<1>2. UNCHANGED <<kind, page, call, row, been, mine, answers, troubles, quoted, quotes, proofs>>
  BY DEF WalletSends
<1>3. /\ asked[r] > 0 /\ asked' = [asked EXCEPT ![r] = @ - 1]
      /\ unheard' = [unheard EXCEPT ![r] = @ + 1] /\ sends' = [sends EXCEPT ![r] = @ + 1]
  BY DEF WalletSends
<1>4. /\ asked'[r] = asked[r] - 1 /\ unheard'[r] = unheard[r] + 1 /\ sends'[r] = sends[r] + 1
      /\ \A q \in Records \ {r} : /\ asked'[q] = asked[q] /\ unheard'[q] = unheard[q]
                                   /\ sends'[q] = sends[q]
      /\ \A q \in Records : asked[q] \in Nat /\ unheard[q] \in Nat /\ sends[q] \in Nat
                             /\ quoted[q] \in Nat /\ troubles[q] \in Nat
  BY <1>1, <1>3 DEF PagesTyped
<1>5. PagesTyped'
  <2>1. asked[r] - 1 \in Nat /\ unheard[r] + 1 \in Nat /\ sends[r] + 1 \in Nat
    BY <1>3, <1>4
  <2> QED
    BY <1>1, <1>2, <1>3, <2>1 DEF PagesTyped
<1>6. OwnRecords'
  BY <1>2 DEF PagesInv, OwnRecords
<1>7. Remembered'
  BY <1>2, <1>3, <1>4 DEF PagesInv, Remembered
<1>8. AnswersTrue'
  BY <1>2 DEF PagesInv, AnswersTrue
<1>9. FormLeft'
  <2>1. \A q \in mine : asked'[q] + unheard'[q] > 0 <=> asked[q] + unheard[q] > 0
    BY <1>1, <1>3, <1>4 DEF PagesTyped
  <2> QED
    BY <1>2, <2>1 DEF PagesInv, FormLeft, InForm
<1>10. OneAsked'
  <2>1. \A q \in mine : asked'[q] + unheard'[q] = asked[q] + unheard[q]
    BY <1>1, <1>3, <1>4 DEF PagesTyped
  <2>2. ASSUME ~page.sending, NEW q \in mine PROVE asked'[q] = 0 /\ unheard'[q] = 0
    BY <1>1, <1>3, <1>4, <2>2 DEF PagesInv, OneAsked, PagesTyped
  <2> QED
    BY <1>2, <2>1, <2>2 DEF PagesInv, OneAsked
<1>11. PaymentsCovered'
  BY <1>2, <1>4 DEF PagesInv, PaymentsCovered
<1>12. ButtonGone'
  <2> SUFFICES ASSUME kind \notin {"launch", "sell"} PROVE ButtonGone'
    BY <1>2 DEF ButtonGone
  <2>1. ASSUME page.sent, NEW q \in mine PROVE asked'[q] = 0 /\ unheard'[q] = 0
    BY <1>1, <1>3, <1>4, <2>1 DEF PagesInv, ButtonGone, PagesTyped
  <2>2. ASSUME NEW q \in mine
        PROVE  sends'[q] <= troubles[q] + unheard'[q] + (IF page.sent THEN 1 ELSE 0)
    BY <1>1, <1>3, <1>4 DEF PagesInv, ButtonGone, PagesTyped
  <2> QED
    BY <1>2, <2>1, <2>2 DEF PagesInv, ButtonGone
<1>13. SoldOnce'
  <2> SUFFICES ASSUME kind = "sell" PROVE SoldOnce'
    BY <1>2 DEF SoldOnce
  <2>1. \A q \in mine : q # r
    BY <1>3 DEF PagesInv, SoldOnce, OneAsked
  <2> QED
    BY <1>1, <1>2, <1>4, <2>1 DEF PagesInv, SoldOnce, PagesTyped
<1>14. QuotesCovered'
  <2> SUFFICES ASSUME kind = "launch" PROVE QuotesCovered'
    BY <1>2 DEF QuotesCovered
  <2>1. CASE InForm
    BY <1>2, <2>1 DEF PagesInv, QuotesCovered, InForm, Quoting
  <2>2. CASE ~InForm
    <3>1. page.record \in Records
      BY <2>2 DEF PagesInv, FormLeft, OwnRecords, PagesTypeOK
    <3>2. sends'[page.record] + asked'[page.record] = sends[page.record] + asked[page.record]
      BY <1>4, <3>1
    <3> QED
      BY <1>2, <2>2, <3>2 DEF PagesInv, QuotesCovered, InForm, Quoting, OfferedNow
  <2> QED
    BY <2>1, <2>2
<1>15. PhasesApart'
  BY <1>2 DEF PagesInv, PhasesApart, PageTellsTruth
<1> QED
  BY <1>5, <1>6, <1>7, <1>8, <1>9, <1>10, <1>11, <1>12, <1>13, <1>14, <1>15, PagesTypesAreNext
     DEF PagesInv

\* A record is asked for: in the form, or on the page of a creation.
LEMMA AsksKeeps ==
  ASSUME PagesInv, Asks, kind = "create" \/ InForm
  PROVE  PagesInv'
<1> USE DEF serverVars, moneyVars, launchOnlyVars
<1>1. PagesTyped
  BY PagesTypesAre DEF PagesInv
<1>2. UNCHANGED <<kind, row, been, mine, answers, asked, unheard, sends, troubles, quoted, quotes,
                  proofs>>
  BY DEF Asks
<1>3. call.at = "none" /\ call' = [at |-> "asked", record |-> NoRecord]
  BY DEF Asks
<1>4. /\ page' \in PageRecord /\ page'.phase = page.phase /\ page'.record = page.record
      /\ page'.sending = page.sending /\ page'.sent = page.sent
  BY <1>1 DEF Asks, PagesTyped, PageRecord
<1>5. call' \in CallRecord /\ call'.at = "asked" /\ call'.record = NoRecord
  BY <1>3 DEF CallRecord
<1>6. PagesTyped'
  BY <1>1, <1>2, <1>3, <1>4, <1>5 DEF PagesInv, PagesTyped
<1>7. OwnRecords'
  BY <1>1, <1>2, <1>3, <1>4, <1>5 DEF PagesInv, OwnRecords
<1>8. Remembered'
  BY <1>1, <1>2, <1>3, <1>4, <1>5 DEF PagesInv, Remembered
<1>9. AnswersTrue'
  BY <1>1, <1>2, <1>3, <1>4, <1>5 DEF PagesInv, AnswersTrue
<1>10. FormLeft'
  BY <1>1, <1>2, <1>3, <1>4, <1>5 DEF PagesInv, FormLeft, InForm
<1>11. OneAsked'
  BY <1>1, <1>2, <1>3, <1>4, <1>5 DEF PagesInv, OneAsked
<1>12. PaymentsCovered'
  BY <1>1, <1>2, <1>3, <1>4, <1>5 DEF PagesInv, PaymentsCovered
<1>13. ButtonGone'
  BY <1>1, <1>2, <1>3, <1>4, <1>5 DEF PagesInv, ButtonGone
<1>14. SoldOnce'
  BY <1>1, <1>2, <1>3, <1>4, <1>5 DEF PagesInv, SoldOnce, InForm, FormPhases
<1>15. QuotesCovered'
  BY <1>1, <1>2, <1>3, <1>4, <1>5
     DEF PagesInv, QuotesCovered, InForm, Quoting, OfferedNow
<1>16. PhasesApart'
  BY <1>1, <1>2, <1>3, <1>4, <1>5 DEF PagesInv, PhasesApart, PageTellsTruth
<1> QED
  BY <1>6, <1>7, <1>8, <1>9, <1>10, <1>11, <1>12, <1>13, <1>14, <1>15, <1>16,
     PagesTypesAreNext DEF PagesInv

\* The answer comes with the record: the page keeps it and leaves the form.
LEMMA OpensKeeps ==
  ASSUME PagesInv, NEW ph \in PagePhases, Opens(ph),
         \/ ph \in {"waiting", "pickMethod"}
         \/ ph \in {"result", "revealed"} /\ <<call.record, "done">> \in been,
         kind = "sell" => ph = "result", kind = "launch" <=> ph = "pickMethod",
         kind = "create" => ph = "waiting", ph = "waiting" => quoted[call.record] >= 1
  PROVE  PagesInv'
<1> USE DEF serverVars, moneyVars, launchOnlyVars
<1>1. PagesTyped
  BY PagesTypesAre DEF PagesInv
<1>2. UNCHANGED <<kind, row, been, mine, answers, asked, unheard, sends, troubles, quoted, quotes,
                  proofs>>
  BY DEF Opens
<1>3. call.at = "opened" /\ call' = NoCall
  BY DEF Opens
<1>4. call.record \in mine /\ call.record \in Records /\ call.record # NoRecord
  BY <1>1, <1>3, NoRecordAssumption DEF PagesInv, OwnRecords, PagesTyped, CallRecord
<1>5. /\ page' \in PageRecord /\ page'.phase = ph /\ page'.record = call.record
      /\ page'.sending = page.sending /\ page'.sent = page.sent
  BY <1>1, <1>4 DEF Opens, PagesTyped, PageRecord
<1>6. call' \in CallRecord /\ call'.at = "none" /\ call'.record = NoRecord
  BY <1>3 DEF NoCall, CallRecord
<1>7. \A q \in Records : /\ asked[q] \in Nat /\ unheard[q] \in Nat /\ sends[q] \in Nat
                         /\ quoted[q] \in Nat /\ troubles[q] \in Nat
  BY <1>1 DEF PagesTyped
<1>8. kind # "create" => /\ InForm /\ answers = {} /\ ~page.sending
                           /\ \A q \in mine : asked[q] = 0 /\ unheard[q] = 0
  BY <1>3 DEF PagesInv, FormLeft, OneAsked
<1>9. ph \notin FormPhases
  BY DEF FormPhases
<1>10. PagesTyped'
  BY <1>1, <1>2, <1>3, <1>4, <1>5, <1>6, <1>7, <1>8, <1>9 DEF PagesInv, PagesTyped
<1>11. OwnRecords'
  BY <1>1, <1>2, <1>3, <1>4, <1>5, <1>6, <1>7, <1>8, <1>9 DEF PagesInv, OwnRecords
<1>12. Remembered'
  BY <1>1, <1>2, <1>3, <1>4, <1>5, <1>6, <1>7, <1>8, <1>9 DEF PagesInv, Remembered
<1>13. AnswersTrue'
  BY <1>1, <1>2, <1>3, <1>4, <1>5, <1>6, <1>7, <1>8, <1>9 DEF PagesInv, AnswersTrue
<1>14. FormLeft'
  BY <1>1, <1>2, <1>3, <1>4, <1>5, <1>6, <1>7, <1>8, <1>9
     DEF PagesInv, FormLeft, InForm
<1>15. OneAsked'
  BY <1>1, <1>2, <1>3, <1>4, <1>5, <1>6, <1>7, <1>8, <1>9 DEF PagesInv, OneAsked
<1>16. PaymentsCovered'
  BY <1>1, <1>2, <1>3, <1>4, <1>5, <1>6, <1>7, <1>8, <1>9 DEF PagesInv, PaymentsCovered
<1>17. ButtonGone'
  BY <1>1, <1>2, <1>3, <1>4, <1>5, <1>6, <1>7, <1>8, <1>9 DEF PagesInv, ButtonGone
<1>18. SoldOnce'
  BY <1>1, <1>2, <1>3, <1>4, <1>5, <1>6, <1>7, <1>8, <1>9
     DEF PagesInv, SoldOnce, OwnRecords
<1>19. QuotesCovered'
  BY <1>1, <1>2, <1>3, <1>4, <1>5, <1>6, <1>7, <1>8, <1>9
     DEF PagesInv, QuotesCovered, InForm, Quoting, OfferedNow, PaymentsCovered
<1>20. PhasesApart'
  BY <1>1, <1>2, <1>3, <1>4, <1>5, <1>6, <1>7, <1>8, <1>9
     DEF PagesInv, PhasesApart, PageTellsTruth, Remembered, DonePhases
<1> QED
  BY <1>10, <1>11, <1>12, <1>13, <1>14, <1>15, <1>16, <1>17, <1>18, <1>19,
     <1>20, PagesTypesAreNext DEF PagesInv

\* A record is made for the page, and its answer on its way: to be paid, or of a mint
\* that costs nothing done at once.
LEMMA MadeKeeps ==
  ASSUME PagesInv, NEW r \in Records, NEW s \in {"pending", "done"}, NEW n \in Nat, Fresh(r),
         Become(r, s), call.at = "asked",
         call' = [at |-> "opened", record |-> r], mine' = mine \cup {r},
         UNCHANGED <<kind, page, answers, moneyVars, launchOnlyVars>>,
         quoted' = [quoted EXCEPT ![r] = n], kind # "sell", kind = "launch" => s = "pending",
         n >= 1 \/ kind = "launch" \/ (kind = "mint" /\ s = "done")
  PROVE  PagesInv'
<1> USE DEF serverVars, moneyVars, launchOnlyVars
<1>1. PagesTyped
  BY PagesTypesAre DEF PagesInv
<1>2. /\ row[r] = "none" /\ row' = [row EXCEPT ![r] = s]
      /\ been' = been \cup {<<r, s>>}
  BY DEF Become, Fresh
<1>3. UNCHANGED <<kind, page, answers, asked, unheard, sends, troubles, quotes, proofs>>
  OBVIOUS
<1>4. /\ row'[r] = s /\ \A q \in Records \ {r} : row'[q] = row[q] /\ quoted'[q] = quoted[q]
      /\ quoted'[r] = n
  BY <1>1, <1>2 DEF PagesTyped
<1>5. call' \in CallRecord /\ call'.at = "opened" /\ call'.record = r /\ r # NoRecord
  BY NoRecordAssumption DEF CallRecord
<1>6. asked[r] = 0 /\ unheard[r] = 0 /\ sends[r] = 0 /\ r \notin mine /\ page.record # r
  BY <1>1, <1>2, NoRecordAssumption DEF PagesInv, Remembered, OwnRecords, PagesTyped
<1>7. \A q \in Records : /\ asked[q] \in Nat /\ unheard[q] \in Nat /\ sends[q] \in Nat
                         /\ quoted[q] \in Nat /\ troubles[q] \in Nat
  BY <1>1 DEF PagesTyped
<1>8. mine \subseteq Records
  BY <1>1 DEF PagesTyped
<1>9. PagesTyped'
  BY <1>1, <1>2, <1>3, <1>4, <1>5, <1>6, <1>7, <1>8 DEF PagesInv, PagesTyped, Statuses
<1>10. OwnRecords'
  BY <1>1, <1>2, <1>3, <1>4, <1>5, <1>6, <1>7, <1>8 DEF PagesInv, OwnRecords
<1>11. Remembered'
  BY <1>1, <1>2, <1>3, <1>4, <1>5, <1>6, <1>7, <1>8 DEF PagesInv, Remembered
<1>12. AnswersTrue'
  BY <1>1, <1>2, <1>3, <1>4, <1>5, <1>6, <1>7, <1>8 DEF PagesInv, AnswersTrue
<1>13. FormLeft'
  BY <1>1, <1>2, <1>3, <1>4, <1>5, <1>6, <1>7, <1>8 DEF PagesInv, FormLeft, InForm
<1>14. OneAsked'
  BY <1>1, <1>2, <1>3, <1>4, <1>5, <1>6, <1>7, <1>8 DEF PagesInv, OneAsked
<1>15. PaymentsCovered'
  BY <1>1, <1>2, <1>3, <1>4, <1>5, <1>6, <1>7, <1>8 DEF PagesInv, PaymentsCovered
<1>16. ButtonGone'
  BY <1>1, <1>2, <1>3, <1>4, <1>5, <1>6, <1>7, <1>8 DEF PagesInv, ButtonGone
<1>17. SoldOnce'
  BY <1>1, <1>2, <1>3, <1>4, <1>5, <1>6, <1>7, <1>8 DEF PagesInv, SoldOnce
<1>18. QuotesCovered'
  BY <1>1, <1>2, <1>3, <1>4, <1>5, <1>6, <1>7, <1>8
     DEF PagesInv, QuotesCovered, InForm, Quoting, OfferedNow
<1>19. PhasesApart'
  BY <1>1, <1>2, <1>3, <1>4, <1>5, <1>6, <1>7, <1>8
     DEF PagesInv, PhasesApart, PageTellsTruth
<1> QED
  BY <1>9, <1>10, <1>11, <1>12, <1>13, <1>14, <1>15, <1>16, <1>17, <1>18, <1>19,
     PagesTypesAreNext DEF PagesInv

LEMMA RecordMadeKeeps ==
  ASSUME PagesInv, NEW r \in Records, RecordMade(r), kind # "sell"
  PROVE  PagesInv'
<1>1. PICK s \in {"pending", "done"} : s = "pending" /\ Become(r, s)
  BY DEF RecordMade
<1>2. PICK n \in Nat : n = IF kind = "launch" THEN 0 ELSE 1
  OBVIOUS
<1>3. /\ Fresh(r) /\ call.at = "asked" /\ mine' = mine \cup {r}
      /\ call' = [at |-> "opened", record |-> r]
      /\ UNCHANGED <<kind, page, answers, moneyVars, launchOnlyVars>>
      /\ quoted' = [quoted EXCEPT ![r] = n]
  BY <1>2 DEF RecordMade
<1>4. (n >= 1 \/ kind = "launch") /\ (kind = "launch" => s = "pending")
  BY <1>1, <1>2
<1> QED
  BY <1>1, <1>3, <1>4, MadeKeeps

\* The request is refused or fails: the form stays, with an error.  The dialog that
\* sells counts it against the sale that may have been made.
LEMMA RefusesKeeps ==
  ASSUME PagesInv, Refuses, troubles' \in [Records -> Nat],
         \A r \in Records : troubles'[r] >= troubles[r],
         kind = "sell" /\ call.at = "opened" => troubles'[call.record] >= troubles[call.record] + 1
  PROVE  PagesInv'
<1> USE DEF serverVars, moneyVars, launchOnlyVars
<1>1. PagesTyped
  BY PagesTypesAre DEF PagesInv
<1>2. UNCHANGED <<kind, row, been, mine, answers, asked, unheard, sends, quoted, quotes, proofs>>
  BY DEF Refuses
<1>3. call.at # "none" /\ call' = NoCall
  BY DEF Refuses
<1>4. PICK kept \in {page.record} \cup ({call.record} \ {NoRecord}) :
        page' = [page EXCEPT !.record = kept, !.asking = FALSE]
  BY DEF Refuses
<1>5. kept \in mine \cup {NoRecord}
  BY <1>4 DEF PagesInv, OwnRecords
<1>6. /\ page' \in PageRecord /\ page'.phase = page.phase /\ page'.record = kept
      /\ page'.sending = page.sending /\ page'.sent = page.sent
  BY <1>1, <1>4, <1>5 DEF PagesTyped, PageRecord
<1>7. call' \in CallRecord /\ call'.at = "none" /\ call'.record = NoRecord
  BY <1>3 DEF NoCall, CallRecord
<1>8. kind # "create" => /\ InForm /\ answers = {} /\ ~page.sending
                           /\ \A r \in mine : asked[r] = 0 /\ unheard[r] = 0
  BY <1>3 DEF PagesInv, FormLeft, OneAsked
<1>9. page.phase \in FormPhases =>
        page.phase \notin {"waiting", "orchestrating", "result"} \cup DonePhases
  BY DEF FormPhases, DonePhases
<1>10. \A q \in Records : /\ asked[q] \in Nat /\ unheard[q] \in Nat /\ sends[q] \in Nat
                         /\ quoted[q] \in Nat /\ troubles[q] \in Nat
  BY <1>1 DEF PagesTyped
<1>11. \A r \in Records : troubles'[r] \in Nat
  OBVIOUS
<1>12. mine \subseteq Records
  BY <1>1 DEF PagesTyped
<1>13. PagesTyped'
  BY <1>1, <1>2, <1>3, <1>4, <1>5, <1>6, <1>7, <1>8, <1>9, <1>10, <1>11, <1>12
     DEF PagesInv, PagesTyped
<1>14. OwnRecords'
  BY <1>1, <1>2, <1>3, <1>4, <1>5, <1>6, <1>7, <1>8, <1>9, <1>10, <1>11, <1>12
     DEF PagesInv, OwnRecords
<1>15. Remembered'
  BY <1>1, <1>2, <1>3, <1>4, <1>5, <1>6, <1>7, <1>8, <1>9, <1>10, <1>11, <1>12
     DEF PagesInv, Remembered
<1>16. AnswersTrue'
  BY <1>1, <1>2, <1>3, <1>4, <1>5, <1>6, <1>7, <1>8, <1>9, <1>10, <1>11, <1>12
     DEF PagesInv, AnswersTrue
<1>17. FormLeft'
  BY <1>1, <1>2, <1>3, <1>4, <1>5, <1>6, <1>7, <1>8, <1>9, <1>10, <1>11, <1>12
     DEF PagesInv, FormLeft, InForm
<1>18. OneAsked'
  BY <1>1, <1>2, <1>3, <1>4, <1>5, <1>6, <1>7, <1>8, <1>9, <1>10, <1>11, <1>12
     DEF PagesInv, OneAsked
<1>19. PaymentsCovered'
  BY <1>1, <1>2, <1>3, <1>4, <1>5, <1>6, <1>7, <1>8, <1>9, <1>10, <1>11, <1>12
     DEF PagesInv, PaymentsCovered
<1>20. ButtonGone'
  BY <1>1, <1>2, <1>3, <1>4, <1>5, <1>6, <1>7, <1>8, <1>9, <1>10, <1>11, <1>12
     DEF PagesInv, ButtonGone, InForm, OwnRecords
<1>21. SoldOnce'
  BY <1>1, <1>2, <1>3, <1>4, <1>5, <1>6, <1>7, <1>8, <1>9, <1>10, <1>11, <1>12
     DEF PagesInv, SoldOnce
<1>22. QuotesCovered'
  BY <1>1, <1>2, <1>3, <1>4, <1>5, <1>6, <1>7, <1>8, <1>9, <1>10, <1>11, <1>12
     DEF PagesInv, QuotesCovered, InForm, Quoting, OfferedNow
<1>23. PhasesApart'
  BY <1>1, <1>2, <1>3, <1>4, <1>5, <1>6, <1>7, <1>8, <1>9, <1>10, <1>11, <1>12
     DEF PagesInv, PhasesApart, PageTellsTruth, InForm
<1> QED
  BY <1>13, <1>14, <1>15, <1>16, <1>17, <1>18, <1>19, <1>20, <1>21, <1>22,
     <1>23, PagesTypesAreNext DEF PagesInv

\* A sale is made within the call that asks for it.
LEMMA SaleMadeKeeps ==
  ASSUME PagesInv, NEW r \in Records, SaleMade(r)
  PROVE  PagesInv'
<1> USE DEF serverVars, moneyVars, launchOnlyVars
<1>1. PagesTyped
  BY PagesTypesAre DEF PagesInv
<1>2. UNCHANGED <<kind, page, answers, asked, unheard, troubles, quotes, proofs>>
  BY DEF SaleMade
<1>3. kind = "sell" /\ call.at = "asked" /\ call' = [at |-> "opened", record |-> r] /\ mine' = {r}
  BY DEF SaleMade
<1>4. mine = {r} \/ (mine = {} /\ row[r] = "none")
  BY DEF SaleMade, Fresh
<1>5. /\ row' = [row EXCEPT ![r] = "done"] /\ been' = been \cup {<<r, "done">>}
      /\ sends' = [sends EXCEPT ![r] = @ + 1] /\ quoted' = [quoted EXCEPT ![r] = 1]
  BY DEF SaleMade, Become
<1>6. \A q \in Records : /\ asked[q] \in Nat /\ unheard[q] \in Nat /\ sends[q] \in Nat
                         /\ quoted[q] \in Nat /\ troubles[q] \in Nat
  BY <1>1 DEF PagesTyped
<1>7. /\ row'[r] = "done" /\ sends'[r] = sends[r] + 1 /\ quoted'[r] = 1
      /\ \A q \in Records \ {r} : /\ row'[q] = row[q] /\ sends'[q] = sends[q]
                                   /\ quoted'[q] = quoted[q]
  BY <1>1, <1>5 DEF PagesTyped
<1>8. call' \in CallRecord /\ call'.at = "opened" /\ call'.record = r /\ r # NoRecord
  BY <1>3, NoRecordAssumption DEF CallRecord
<1>9. page.phase = "form" /\ answers = {}
  BY <1>3 DEF PagesInv, FormLeft, SoldOnce, InForm, FormPhases
<1>10. asked[r] = 0 /\ unheard[r] = 0 /\ sends[r] <= troubles[r]
  <2>1. CASE mine = {r}
    BY <1>3, <1>6, <1>9, <2>1 DEF PagesInv, OneAsked, SoldOnce
  <2>2. CASE row[r] = "none"
    <3>1. asked[r] = 0 /\ unheard[r] = 0 /\ sends[r] = 0
      BY <2>2 DEF PagesInv, Remembered
    <3> QED
      BY <1>6, <3>1
  <2> QED
    BY <1>4, <2>1, <2>2
<1>11. sends[r] + 1 \in Nat
  BY <1>6
<1>12. PagesTyped'
  <2>1. row' \in [Records -> Statuses] /\ been' \subseteq Records \X Statuses
    BY <1>1, <1>5 DEF PagesTyped, Statuses
  <2>2. sends' \in [Records -> Nat] /\ quoted' \in [Records -> Nat]
    BY <1>1, <1>5, <1>11 DEF PagesTyped
  <2> QED
    BY <1>1, <1>2, <1>3, <1>8, <2>1, <2>2 DEF PagesTyped
<1>13. OwnRecords'
  BY <1>1, <1>2, <1>3, <1>4, <1>5, <1>6, <1>7, <1>8, <1>9, <1>10, <1>11
     DEF PagesInv, OwnRecords
<1>14. Remembered'
  BY <1>1, <1>2, <1>3, <1>4, <1>5, <1>6, <1>7, <1>8, <1>9, <1>10, <1>11
     DEF PagesInv, Remembered
<1>15. AnswersTrue'
  BY <1>1, <1>2, <1>3, <1>4, <1>5, <1>6, <1>7, <1>8, <1>9, <1>10, <1>11
     DEF PagesInv, AnswersTrue
<1>16. FormLeft'
  BY <1>1, <1>2, <1>3, <1>4, <1>5, <1>6, <1>7, <1>8, <1>9, <1>10, <1>11
     DEF PagesInv, FormLeft, InForm
<1>17. OneAsked'
  BY <1>1, <1>2, <1>3, <1>4, <1>5, <1>6, <1>7, <1>8, <1>9, <1>10, <1>11
     DEF PagesInv, OneAsked
<1>18. PaymentsCovered'
  BY <1>1, <1>2, <1>3, <1>4, <1>5, <1>6, <1>7, <1>8, <1>9, <1>10, <1>11
     DEF PagesInv, PaymentsCovered
<1>19. ButtonGone'
  BY <1>1, <1>2, <1>3, <1>4, <1>5, <1>6, <1>7, <1>8, <1>9, <1>10, <1>11
     DEF PagesInv, ButtonGone
<1>20. SoldOnce'
  BY <1>1, <1>2, <1>3, <1>4, <1>5, <1>6, <1>7, <1>8, <1>9, <1>10, <1>11
     DEF PagesInv, SoldOnce, OwnRecords
<1>21. QuotesCovered'
  BY <1>1, <1>2, <1>3, <1>4, <1>5, <1>6, <1>7, <1>8, <1>9, <1>10, <1>11
     DEF PagesInv, QuotesCovered, InForm, Quoting, OfferedNow
<1>22. PhasesApart'
  BY <1>1, <1>2, <1>3, <1>4, <1>5, <1>6, <1>7, <1>8, <1>9, <1>10, <1>11
     DEF PagesInv, PhasesApart, PageTellsTruth, DonePhases
<1> QED
  BY <1>12, <1>13, <1>14, <1>15, <1>16, <1>17, <1>18, <1>19, <1>20, <1>21,
     <1>22, PagesTypesAreNext DEF PagesInv

\* A wallet is asked to pay, where a page has its button.
LEMMA AsksWalletKeeps ==
  ASSUME PagesInv, AsksWallet, ~page.sending,
         \/ kind \notin {"launch", "sell"} /\ page.phase = "waiting" /\ ~page.sent
         \/ kind = "launch" /\ page.phase = "pay"
  PROVE  PagesInv'
<1> USE DEF serverVars, moneyVars, launchOnlyVars
<1>1. PagesTyped
  BY PagesTypesAre DEF PagesInv
<1>2. UNCHANGED <<kind, call, row, been, mine, answers, unheard, sends, troubles, quoted, quotes,
                  proofs>>
  BY DEF AsksWallet
<1>3. PICK r : r = page.record /\ r # NoRecord /\ asked' = [asked EXCEPT ![r] = @ + 1]
  BY DEF AsksWallet
<1>4. r \in mine /\ r \in Records
  BY <1>1, <1>3 DEF PagesInv, OwnRecords, PagesTyped
<1>5. /\ page' \in PageRecord /\ page'.phase = page.phase /\ page'.record = page.record
      /\ page'.sending = TRUE /\ page'.sent = page.sent
  BY <1>1 DEF AsksWallet, PagesTyped, PageRecord
<1>6. \A q \in Records : /\ asked[q] \in Nat /\ unheard[q] \in Nat /\ sends[q] \in Nat
                         /\ quoted[q] \in Nat /\ troubles[q] \in Nat
  BY <1>1 DEF PagesTyped
<1>7. \A q \in mine : asked[q] = 0 /\ unheard[q] = 0
  BY DEF PagesInv, OneAsked
<1>8. asked'[r] = 1 /\ \A q \in Records \ {r} : asked'[q] = asked[q]
  BY <1>1, <1>3, <1>4, <1>7 DEF PagesTyped
<1>9. asked' \in [Records -> Nat]
  BY <1>1, <1>3, <1>4, <1>8 DEF PagesTyped
<1>10. Quoting \in Nat
  BY <1>1 DEF PagesTyped, Methods, Quoting
<1>11. page.phase \notin FormPhases
  BY DEF FormPhases
<1>12. sends[r] + 1 <= quoted[r] + troubles[r]
  <2>1. CASE kind \notin {"launch", "sell"}
    BY <1>3, <1>4, <1>6, <1>7, <2>1 DEF PagesInv, ButtonGone
  <2>2. CASE kind = "launch"
    BY <1>3, <1>4, <1>6, <1>7, <1>10, <1>11, <2>2 DEF PagesInv, QuotesCovered, InForm, OfferedNow
  <2> QED
    BY <2>1, <2>2
<1>13. mine \subseteq Records
  BY <1>1 DEF PagesTyped
<1>14. PagesTyped'
  BY <1>1, <1>2, <1>3, <1>4, <1>5, <1>6, <1>7, <1>8, <1>9, <1>10, <1>11, <1>12, <1>13
     DEF PagesInv, PagesTyped
<1>15. OwnRecords'
  BY <1>1, <1>2, <1>3, <1>4, <1>5, <1>6, <1>7, <1>8, <1>9, <1>10, <1>11, <1>12, <1>13
     DEF PagesInv, OwnRecords
<1>16. Remembered'
  BY <1>1, <1>2, <1>3, <1>4, <1>5, <1>6, <1>7, <1>8, <1>9, <1>10, <1>11, <1>12, <1>13
     DEF PagesInv, Remembered, OwnRecords
<1>17. AnswersTrue'
  BY <1>1, <1>2, <1>3, <1>4, <1>5, <1>6, <1>7, <1>8, <1>9, <1>10, <1>11, <1>12, <1>13
     DEF PagesInv, AnswersTrue
<1>18. FormLeft'
  BY <1>1, <1>2, <1>3, <1>4, <1>5, <1>6, <1>7, <1>8, <1>9, <1>10, <1>11, <1>12, <1>13
     DEF PagesInv, FormLeft, InForm
<1>19. OneAsked'
  BY <1>1, <1>2, <1>3, <1>4, <1>5, <1>6, <1>7, <1>8, <1>9, <1>10, <1>11, <1>12, <1>13
     DEF PagesInv, OneAsked
<1>20. PaymentsCovered'
  BY <1>1, <1>2, <1>3, <1>4, <1>5, <1>6, <1>7, <1>8, <1>9, <1>10, <1>11, <1>12, <1>13
     DEF PagesInv, PaymentsCovered
<1>21. ButtonGone'
  BY <1>1, <1>2, <1>3, <1>4, <1>5, <1>6, <1>7, <1>8, <1>9, <1>10, <1>11, <1>12, <1>13
     DEF PagesInv, ButtonGone
<1>22. SoldOnce'
  BY <1>1, <1>2, <1>3, <1>4, <1>5, <1>6, <1>7, <1>8, <1>9, <1>10, <1>11, <1>12, <1>13
     DEF PagesInv, SoldOnce
<1>23. QuotesCovered'
  BY <1>1, <1>2, <1>3, <1>4, <1>5, <1>6, <1>7, <1>8, <1>9, <1>10, <1>11, <1>12, <1>13
     DEF PagesInv, QuotesCovered, InForm, Quoting, OfferedNow
<1>24. PhasesApart'
  BY <1>1, <1>2, <1>3, <1>4, <1>5, <1>6, <1>7, <1>8, <1>9, <1>10, <1>11, <1>12, <1>13
     DEF PagesInv, PhasesApart, PageTellsTruth
<1> QED
  BY <1>14, <1>15, <1>16, <1>17, <1>18, <1>19, <1>20, <1>21, <1>22, <1>23,
     <1>24, PagesTypesAreNext DEF PagesInv

\* The id of the transaction comes back, and the button is gone.
LEMMA NoirSentKeeps ==
  ASSUME PagesInv, NoirSent, kind \notin {"launch", "sell"}
  PROVE  PagesInv'
<1> USE DEF serverVars, moneyVars, launchOnlyVars
<1>1. PagesTyped
  BY PagesTypesAre DEF PagesInv
<1>2. UNCHANGED <<kind, call, row, been, mine, answers, asked, sends, troubles, quoted, quotes,
                  proofs>>
  BY DEF NoirSent
<1>3. PICK r \in mine : /\ unheard[r] > 0 /\ unheard' = [unheard EXCEPT ![r] = @ - 1]
                          /\ page' = [page EXCEPT !.sent = TRUE, !.sending = FALSE]
  BY DEF NoirSent
<1>4. /\ page' \in PageRecord /\ page'.phase = page.phase /\ page'.record = page.record
      /\ page'.sending = FALSE /\ page'.sent = TRUE
  BY <1>1, <1>3 DEF PagesTyped, PageRecord
<1>5. \A q \in Records : /\ asked[q] \in Nat /\ unheard[q] \in Nat /\ sends[q] \in Nat
                         /\ quoted[q] \in Nat /\ troubles[q] \in Nat
  BY <1>1 DEF PagesTyped
<1>6. mine \subseteq Records
  BY <1>1 DEF PagesTyped
<1>7. /\ asked[r] = 0 /\ unheard[r] = 1 /\ page.sending /\ ~page.sent
      /\ \A q \in mine \ {r} : asked[q] = 0 /\ unheard[q] = 0
  <2>0. page.sending /\ ~page.sent
    BY <1>1, <1>3, <1>5 DEF PagesInv, OneAsked, ButtonGone, PagesTyped, PageRecord
  <2>a. asked[r] + unheard[r] <= 1 /\ r \in Records
    BY <1>3, <1>6 DEF PagesInv, OneAsked
  <2>1. asked[r] = 0 /\ unheard[r] = 1 /\ page.sending /\ ~page.sent
    BY <1>3, <1>5, <2>0, <2>a
  <2>2. ASSUME NEW q \in mine \ {r} PROVE asked[q] = 0 /\ unheard[q] = 0
    BY <1>3, <1>5, <1>6 DEF PagesInv, OneAsked
  <2> QED
    BY <2>1, <2>2
<1>8. unheard'[r] = 0 /\ \A q \in Records \ {r} : unheard'[q] = unheard[q]
  BY <1>1, <1>3, <1>6, <1>7 DEF PagesTyped
<1>9. unheard' \in [Records -> Nat]
  BY <1>1, <1>3, <1>6, <1>8 DEF PagesTyped
<1>10. PagesTyped'
  BY <1>1, <1>2, <1>3, <1>4, <1>5, <1>6, <1>7, <1>8, <1>9 DEF PagesInv, PagesTyped
<1>11. OwnRecords'
  BY <1>1, <1>2, <1>3, <1>4, <1>5, <1>6, <1>7, <1>8, <1>9 DEF PagesInv, OwnRecords
<1>12. Remembered'
  BY <1>1, <1>2, <1>3, <1>4, <1>5, <1>6, <1>7, <1>8, <1>9 DEF PagesInv, Remembered
<1>13. AnswersTrue'
  BY <1>1, <1>2, <1>3, <1>4, <1>5, <1>6, <1>7, <1>8, <1>9 DEF PagesInv, AnswersTrue
<1>14. FormLeft'
  BY <1>1, <1>2, <1>3, <1>4, <1>5, <1>6, <1>7, <1>8, <1>9
     DEF PagesInv, FormLeft, InForm
<1>15. OneAsked'
  BY <1>1, <1>2, <1>3, <1>4, <1>5, <1>6, <1>7, <1>8, <1>9 DEF PagesInv, OneAsked
<1>16. PaymentsCovered'
  BY <1>1, <1>2, <1>3, <1>4, <1>5, <1>6, <1>7, <1>8, <1>9 DEF PagesInv, PaymentsCovered
<1>17. ButtonGone'
  BY <1>1, <1>2, <1>3, <1>4, <1>5, <1>6, <1>7, <1>8, <1>9 DEF PagesInv, ButtonGone
<1>18. SoldOnce'
  BY <1>1, <1>2, <1>3, <1>4, <1>5, <1>6, <1>7, <1>8, <1>9 DEF PagesInv, SoldOnce
<1>19. QuotesCovered'
  BY <1>1, <1>2, <1>3, <1>4, <1>5, <1>6, <1>7, <1>8, <1>9
     DEF PagesInv, QuotesCovered, InForm, Quoting, OfferedNow
<1>20. PhasesApart'
  BY <1>2, <1>4 DEF PagesInv, PhasesApart, PageTellsTruth
<1> QED
  BY <1>10, <1>11, <1>12, <1>13, <1>14, <1>15, <1>16, <1>17, <1>18, <1>19,
     <1>20, PagesTypesAreNext DEF PagesInv

\* The wallet or its user refuses, or the payment fails: the button comes back, with an
\* error.
LEMMA WalletFailsKeeps ==
  ASSUME PagesInv, WalletFails, kind # "sell"
  PROVE  PagesInv'
<1> USE DEF serverVars, moneyVars, launchOnlyVars
<1>1. PagesTyped
  BY PagesTypesAre DEF PagesInv
<1>2. UNCHANGED <<kind, call, row, been, mine, answers, sends, quoted, quotes, proofs>>
  BY DEF WalletFails
<1>3. PICK r \in mine :
        /\ \/ asked[r] > 0 /\ asked' = [asked EXCEPT ![r] = @ - 1] /\ UNCHANGED unheard
           \/ unheard[r] > 0 /\ unheard' = [unheard EXCEPT ![r] = @ - 1] /\ UNCHANGED asked
        /\ troubles' = [troubles EXCEPT ![r] = @ + 1]
        /\ page' = [page EXCEPT !.sending = FALSE]
  BY DEF WalletFails
<1>4. /\ page' \in PageRecord /\ page'.phase = page.phase /\ page'.record = page.record
      /\ page'.sending = FALSE /\ page'.sent = page.sent
  BY <1>1, <1>3 DEF PagesTyped, PageRecord
<1>5. \A q \in Records : /\ asked[q] \in Nat /\ unheard[q] \in Nat /\ sends[q] \in Nat
                         /\ quoted[q] \in Nat /\ troubles[q] \in Nat
  BY <1>1 DEF PagesTyped
<1>6. mine \subseteq Records
  BY <1>1 DEF PagesTyped
<1>7. /\ asked[r] + unheard[r] = 1 /\ page.sending
      /\ \A q \in mine \ {r} : asked[q] = 0 /\ unheard[q] = 0
  <2>1. asked[r] + unheard[r] = 1 /\ page.sending
    BY <1>1, <1>3, <1>5, <1>6 DEF PagesInv, OneAsked, PagesTyped, PageRecord
  <2>2. ASSUME NEW q \in mine \ {r} PROVE asked[q] = 0 /\ unheard[q] = 0
    BY <1>3, <1>5, <1>6, <2>1 DEF PagesInv, OneAsked
  <2> QED
    BY <2>1, <2>2
<1>8. /\ asked'[r] = 0 /\ unheard'[r] = 0 /\ troubles'[r] = troubles[r] + 1
      /\ \A q \in Records \ {r} : /\ asked'[q] = asked[q] /\ unheard'[q] = unheard[q]
                                   /\ troubles'[q] = troubles[q]
  BY <1>1, <1>3, <1>5, <1>6, <1>7 DEF PagesTyped
<1>9. /\ asked' \in [Records -> Nat] /\ unheard' \in [Records -> Nat]
      /\ troubles' \in [Records -> Nat]
  <2>1. troubles[r] + 1 \in Nat
    BY <1>5, <1>6
  <2>2. troubles' \in [Records -> Nat]
    BY <1>1, <1>3, <2>1 DEF PagesTyped
  <2>3. asked' \in [Records -> Nat] /\ unheard' \in [Records -> Nat]
    BY <1>1, <1>3, <1>6, <1>8 DEF PagesTyped
  <2> QED
    BY <2>2, <2>3
<1>10. kind # "create" => r = page.record /\ ~InForm
  BY <1>3, <1>7 DEF PagesInv, FormLeft
<1>11. Quoting \in Nat
  BY <1>1 DEF PagesTyped, Methods, Quoting
<1>12. PagesTyped'
  BY <1>1, <1>2, <1>3, <1>4, <1>5, <1>6, <1>7, <1>8, <1>9, <1>10, <1>11
     DEF PagesInv, PagesTyped
<1>13. OwnRecords'
  BY <1>1, <1>2, <1>3, <1>4, <1>5, <1>6, <1>7, <1>8, <1>9, <1>10, <1>11
     DEF PagesInv, OwnRecords
<1>14. Remembered'
  BY <1>1, <1>2, <1>3, <1>4, <1>5, <1>6, <1>7, <1>8, <1>9, <1>10, <1>11
     DEF PagesInv, Remembered
<1>15. AnswersTrue'
  BY <1>1, <1>2, <1>3, <1>4, <1>5, <1>6, <1>7, <1>8, <1>9, <1>10, <1>11
     DEF PagesInv, AnswersTrue
<1>16. FormLeft'
  BY <1>1, <1>2, <1>3, <1>4, <1>5, <1>6, <1>7, <1>8, <1>9, <1>10, <1>11
     DEF PagesInv, FormLeft, InForm
<1>17. OneAsked'
  BY <1>1, <1>2, <1>3, <1>4, <1>5, <1>6, <1>7, <1>8, <1>9, <1>10, <1>11
     DEF PagesInv, OneAsked
<1>18. PaymentsCovered'
  BY <1>1, <1>2, <1>3, <1>4, <1>5, <1>6, <1>7, <1>8, <1>9, <1>10, <1>11
     DEF PagesInv, PaymentsCovered
<1>19. ButtonGone'
  BY <1>1, <1>2, <1>3, <1>4, <1>5, <1>6, <1>7, <1>8, <1>9, <1>10, <1>11
     DEF PagesInv, ButtonGone
<1>20. SoldOnce'
  BY <1>1, <1>2, <1>3, <1>4, <1>5, <1>6, <1>7, <1>8, <1>9, <1>10, <1>11
     DEF PagesInv, SoldOnce
<1>21. QuotesCovered'
  BY <1>1, <1>2, <1>3, <1>4, <1>5, <1>6, <1>7, <1>8, <1>9, <1>10, <1>11
     DEF PagesInv, QuotesCovered, InForm, Quoting, OfferedNow
<1>22. PhasesApart'
  BY <1>2, <1>4 DEF PagesInv, PhasesApart, PageTellsTruth
<1> QED
  BY <1>12, <1>13, <1>14, <1>15, <1>16, <1>17, <1>18, <1>19, <1>20, <1>21,
     <1>22, PagesTypesAreNext DEF PagesInv

\* The timer asks, beyond the form.
LEMMA AsksStatusKeeps ==
  ASSUME PagesInv, AsksStatus, ~InForm
  PROVE  PagesInv'
<1> USE DEF serverVars, moneyVars, launchOnlyVars
<1>1. PagesTyped
  BY PagesTypesAre DEF PagesInv
<1>2. UNCHANGED <<kind, page, call, row, been, mine, asked, unheard, sends, troubles, quoted,
                  quotes, proofs>>
  BY DEF AsksStatus
<1>3. PICK r : r = page.record /\ r # NoRecord
  BY DEF AsksStatus
<1>4. answers' = answers \cup {<<r, row[r], page.phase>>}
  BY <1>3 DEF AsksStatus
<1>5. r \in mine /\ r \in Records
  BY <1>1, <1>3 DEF PagesInv, OwnRecords, PagesTyped
<1>6. row[r] \in Statuses /\ page.phase \in PagePhases
  BY <1>1, <1>5 DEF PagesTyped, PageRecord
<1>7. <<r, row[r]>> \in been
  BY <1>5 DEF PagesInv, OwnRecords, Remembered
<1>8. PagesTyped'
  BY <1>1, <1>2, <1>3, <1>4, <1>5, <1>6, <1>7 DEF PagesInv, PagesTyped
<1>9. OwnRecords'
  BY <1>1, <1>2, <1>3, <1>4, <1>5, <1>6, <1>7 DEF PagesInv, OwnRecords
<1>10. Remembered'
  BY <1>1, <1>2, <1>3, <1>4, <1>5, <1>6, <1>7 DEF PagesInv, Remembered
<1>11. AnswersTrue'
  <2>1. ASSUME NEW a \in answers' PROVE a[1] \in mine /\ <<a[1], a[2]>> \in been
    <3>1. CASE a \in answers
      BY <3>1 DEF PagesInv, AnswersTrue
    <3>2. CASE a = <<r, row[r], page.phase>>
      BY <1>5, <1>7, <3>2
    <3> QED
      BY <1>4, <3>1, <3>2
  <2> QED
    BY <1>2, <2>1 DEF AnswersTrue
<1>12. FormLeft'
  BY <1>1, <1>2, <1>3, <1>4, <1>5, <1>6, <1>7 DEF PagesInv, FormLeft, InForm
<1>13. OneAsked'
  BY <1>1, <1>2, <1>3, <1>4, <1>5, <1>6, <1>7 DEF PagesInv, OneAsked
<1>14. PaymentsCovered'
  BY <1>1, <1>2, <1>3, <1>4, <1>5, <1>6, <1>7 DEF PagesInv, PaymentsCovered
<1>15. ButtonGone'
  BY <1>1, <1>2, <1>3, <1>4, <1>5, <1>6, <1>7 DEF PagesInv, ButtonGone
<1>16. SoldOnce'
  BY <1>1, <1>2, <1>3, <1>4, <1>5, <1>6, <1>7 DEF PagesInv, SoldOnce
<1>17. QuotesCovered'
  BY <1>1, <1>2, <1>3, <1>4, <1>5, <1>6, <1>7
     DEF PagesInv, QuotesCovered, InForm, Quoting, OfferedNow
<1>18. PhasesApart'
  BY <1>1, <1>2, <1>3, <1>4, <1>5, <1>6, <1>7 DEF PagesInv, PhasesApart, PageTellsTruth
<1> QED
  BY <1>8, <1>9, <1>10, <1>11, <1>12, <1>13, <1>14, <1>15, <1>16, <1>17, <1>18,
     PagesTypesAreNext DEF PagesInv

\* An answer leads to the phase it says.
LEMMA HearsKeeps ==
  ASSUME PagesInv, NEW a \in answers, NEW ph \in PagePhases, Hears(a, ph), kind # "sell",
         \/ ph = page.phase
         \/ ph \in DonePhases /\ a[2] = "done"
         \/ ph = "failed" /\ a[2] = "failed"
         \/ ph = "orchestrating" /\ a[2] \in {"paid", "done"} /\ kind = "launch"
  PROVE  PagesInv'
<1> USE DEF serverVars, moneyVars, launchOnlyVars
<1>1. PagesTyped
  BY PagesTypesAre DEF PagesInv
<1>2. UNCHANGED <<kind, call, row, been, mine, asked, unheard, sends, troubles, quoted, quotes,
                  proofs>>
  BY DEF Hears
<1>3. answers' \subseteq answers
  BY DEF Hears
<1>4. /\ page' \in PageRecord /\ page'.phase = ph /\ page'.record = page.record
      /\ page'.sending = page.sending /\ page'.sent = page.sent
  BY <1>1 DEF Hears, PagesTyped, PageRecord
<1>5. a[1] \in mine /\ <<a[1], a[2]>> \in been /\ a[1] \in Records
  BY <1>1 DEF PagesInv, AnswersTrue, PagesTyped
<1>6. kind # "create" => a[1] = page.record /\ ~InForm
  BY DEF PagesInv, FormLeft
<1>7. ph # page.phase => ph \notin FormPhases \cup {"waiting", "pay", "form"}
  BY DEF FormPhases, DonePhases
<1>8. ph \in DonePhases => ph \notin {"failed", "orchestrating"}
  BY DEF DonePhases
<1>9. PagesTyped'
  BY <1>1, <1>2, <1>3, <1>4, <1>5, <1>6, <1>7, <1>8 DEF PagesInv, PagesTyped
<1>10. OwnRecords'
  BY <1>1, <1>2, <1>3, <1>4, <1>5, <1>6, <1>7, <1>8 DEF PagesInv, OwnRecords
<1>11. Remembered'
  BY <1>1, <1>2, <1>3, <1>4, <1>5, <1>6, <1>7, <1>8 DEF PagesInv, Remembered
<1>12. AnswersTrue'
  BY <1>1, <1>2, <1>3, <1>4, <1>5, <1>6, <1>7, <1>8 DEF PagesInv, AnswersTrue
<1>13. FormLeft'
  BY <1>1, <1>2, <1>3, <1>4, <1>5, <1>6, <1>7, <1>8 DEF PagesInv, FormLeft, InForm
<1>14. OneAsked'
  BY <1>1, <1>2, <1>3, <1>4, <1>5, <1>6, <1>7, <1>8 DEF PagesInv, OneAsked
<1>15. PaymentsCovered'
  BY <1>1, <1>2, <1>3, <1>4, <1>5, <1>6, <1>7, <1>8 DEF PagesInv, PaymentsCovered
<1>16. ButtonGone'
  BY <1>1, <1>2, <1>3, <1>4, <1>5, <1>6, <1>7, <1>8 DEF PagesInv, ButtonGone
<1>17. SoldOnce'
  BY <1>1, <1>2, <1>3, <1>4, <1>5, <1>6, <1>7, <1>8 DEF PagesInv, SoldOnce
<1>18. QuotesCovered'
  <2> SUFFICES ASSUME kind = "launch" PROVE QuotesCovered'
    BY <1>2 DEF QuotesCovered
  <2>1. OfferedNow' <= OfferedNow /\ OfferedNow \in Nat /\ OfferedNow' \in Nat
    BY <1>4, <1>7 DEF OfferedNow
  <2>2. ~InForm /\ ~InForm' /\ page.record \in Records /\ Quoting' = Quoting /\ Quoting \in Nat
    BY <1>1, <1>2, <1>4, <1>5, <1>6, <1>7 DEF InForm, Quoting, PagesTyped, Methods
  <2>3. /\ sends[page.record] + asked[page.record] + Quoting + OfferedNow
             <= quoted[page.record] + troubles[page.record]
        /\ sends[page.record] \in Nat /\ asked[page.record] \in Nat
        /\ quoted[page.record] \in Nat /\ troubles[page.record] \in Nat
    BY <1>1, <2>2 DEF PagesInv, QuotesCovered, PagesTyped
  <2>4. /\ page'.record = page.record /\ UNCHANGED <<sends, asked, quoted, troubles>>
    BY <1>2, <1>4
  <2> QED
    BY <2>1, <2>2, <2>3, <2>4 DEF QuotesCovered
<1>19. PhasesApart'
  <2>1. page'.phase \in {"orchestrating", "pay"} => kind = "launch"
    BY <1>4, <1>7, <1>8 DEF PagesInv, PhasesApart, DonePhases
  <2>2. CASE ph = page.phase
    BY <1>2, <1>4, <2>1, <2>2 DEF PagesInv, PhasesApart, PageTellsTruth
  <2>3. CASE ph \in DonePhases /\ a[2] = "done"
    BY <1>2, <1>4, <1>5, <1>6, <1>8, <2>1, <2>3 DEF PhasesApart, PageTellsTruth
  <2>4. CASE ph = "failed" /\ a[2] = "failed"
    BY <1>2, <1>4, <1>5, <1>8, <2>1, <2>4 DEF PhasesApart, PageTellsTruth
  <2>5. CASE ph = "orchestrating" /\ a[2] \in {"paid", "done"} /\ kind = "launch"
    <3>1. <<page.record, "paid">> \in been
      BY <1>5, <1>6, <2>5 DEF PagesInv, Remembered
    <3> QED
      BY <1>2, <1>4, <1>8, <2>1, <2>5, <3>1 DEF PhasesApart, PageTellsTruth
  <2> QED
    BY <2>2, <2>3, <2>4, <2>5
<1> QED
  BY <1>9, <1>10, <1>11, <1>12, <1>13, <1>14, <1>15, <1>16, <1>17, <1>18, <1>19,
     PagesTypesAreNext DEF PagesInv

\* The page is left: it opens anew, with nothing of its own.
LEMMA LeaveKeeps ==
  ASSUME PagesInv, Leave
  PROVE  PagesInv'
<1> USE DEF serverVars, moneyVars, launchOnlyVars
<1>1. PagesTyped
  BY PagesTypesAre DEF PagesInv
<1>2. UNCHANGED <<kind, row, been, asked, unheard, sends, troubles, quoted>>
  BY DEF Leave
<1>3. /\ call' = NoCall /\ mine' = {} /\ answers' = {}
      /\ quotes' = [m \in Methods |-> 0] /\ proofs' = 0
  BY DEF Leave
<1>4. PICK ph \in FormPhases : ph = FirstPhase /\ (kind = "sell" => ph = "form")
  BY DEF FirstPhase, FormPhases
<1>5. page' = [phase |-> ph, record |-> NoRecord, asking |-> FALSE, sending |-> FALSE,
               sent |-> FALSE, method |-> "none"]
  BY <1>4 DEF Leave, Opening
<1>6. /\ page'.phase = ph /\ page'.record = NoRecord /\ page'.sending = FALSE /\ page'.sent = FALSE
      /\ page' \in PageRecord
  BY <1>5 DEF PageRecord, FormPhases, PagePhases
<1>7. call' \in CallRecord /\ call'.at = "none" /\ call'.record = NoRecord
  BY <1>3 DEF NoCall, CallRecord
<1>8. ph \notin {"waiting", "pay", "orchestrating", "failed", "result"} \cup DonePhases
  BY DEF FormPhases, DonePhases
<1>9. quotes'["ZEC"] = 0 /\ quotes'["WALLET"] = 0 /\ quotes' \in [Methods -> Nat]
  BY <1>3 DEF Methods
<1>10. PagesTyped'
  BY <1>1, <1>2, <1>3, <1>4, <1>5, <1>6, <1>7, <1>8, <1>9 DEF PagesInv, PagesTyped
<1>11. OwnRecords'
  BY <1>1, <1>2, <1>3, <1>4, <1>5, <1>6, <1>7, <1>8, <1>9 DEF PagesInv, OwnRecords
<1>12. Remembered'
  BY <1>1, <1>2, <1>3, <1>4, <1>5, <1>6, <1>7, <1>8, <1>9 DEF PagesInv, Remembered
<1>13. AnswersTrue'
  BY <1>1, <1>2, <1>3, <1>4, <1>5, <1>6, <1>7, <1>8, <1>9 DEF PagesInv, AnswersTrue
<1>14. FormLeft'
  BY <1>1, <1>2, <1>3, <1>4, <1>5, <1>6, <1>7, <1>8, <1>9
     DEF PagesInv, FormLeft, InForm
<1>15. OneAsked'
  BY <1>1, <1>2, <1>3, <1>4, <1>5, <1>6, <1>7, <1>8, <1>9 DEF PagesInv, OneAsked
<1>16. PaymentsCovered'
  BY <1>1, <1>2, <1>3, <1>4, <1>5, <1>6, <1>7, <1>8, <1>9 DEF PagesInv, PaymentsCovered
<1>17. ButtonGone'
  BY <1>1, <1>2, <1>3, <1>4, <1>5, <1>6, <1>7, <1>8, <1>9 DEF PagesInv, ButtonGone
<1>18. SoldOnce'
  BY <1>1, <1>2, <1>3, <1>4, <1>5, <1>6, <1>7, <1>8, <1>9 DEF PagesInv, SoldOnce
<1>19. QuotesCovered'
  BY <1>1, <1>2, <1>3, <1>4, <1>5, <1>6, <1>7, <1>8, <1>9
     DEF PagesInv, QuotesCovered, InForm, Quoting, OfferedNow
<1>20. PhasesApart'
  BY <1>1, <1>2, <1>3, <1>4, <1>5, <1>6, <1>7, <1>8, <1>9
     DEF PagesInv, PhasesApart, PageTellsTruth
<1> QED
  BY <1>10, <1>11, <1>12, <1>13, <1>14, <1>15, <1>16, <1>17, <1>18, <1>19,
     <1>20, PagesTypesAreNext DEF PagesInv

\* Back to the form of a creation: what was asked of a wallet stays asked.
LEMMA RetryKeeps ==
  ASSUME PagesInv, CreateRetry
  PROVE  PagesInv'
<1> USE DEF serverVars, moneyVars, launchOnlyVars
<1>1. PagesTyped
  BY PagesTypesAre DEF PagesInv
<1>2. UNCHANGED <<kind, call, row, been, mine, answers, asked, unheard, sends, troubles, quoted,
                  quotes, proofs>> /\ kind = "create"
  BY DEF CreateRetry
<1>3. /\ page' \in PageRecord /\ page'.phase = "form" /\ page'.record = NoRecord
      /\ page'.sending = page.sending /\ page'.sent = page.sent
  BY <1>1 DEF CreateRetry, PagesTyped, PageRecord, PagePhases
<1>4. PagesTyped'
  BY <1>1, <1>2, <1>3 DEF PagesInv, PagesTyped
<1>5. OwnRecords'
  BY <1>1, <1>2, <1>3 DEF PagesInv, OwnRecords
<1>6. Remembered'
  BY <1>1, <1>2, <1>3 DEF PagesInv, Remembered
<1>7. AnswersTrue'
  BY <1>1, <1>2, <1>3 DEF PagesInv, AnswersTrue
<1>8. FormLeft'
  BY <1>1, <1>2, <1>3 DEF PagesInv, FormLeft, InForm
<1>9. OneAsked'
  BY <1>1, <1>2, <1>3 DEF PagesInv, OneAsked
<1>10. PaymentsCovered'
  BY <1>1, <1>2, <1>3 DEF PagesInv, PaymentsCovered
<1>11. ButtonGone'
  BY <1>1, <1>2, <1>3 DEF PagesInv, ButtonGone
<1>12. SoldOnce'
  BY <1>1, <1>2, <1>3 DEF PagesInv, SoldOnce
<1>13. QuotesCovered'
  BY <1>1, <1>2, <1>3 DEF PagesInv, QuotesCovered, InForm, Quoting, OfferedNow
<1>14. PhasesApart'
  BY <1>1, <1>2, <1>3 DEF PagesInv, PhasesApart, PageTellsTruth, DonePhases
<1> QED
  BY <1>4, <1>5, <1>6, <1>7, <1>8, <1>9, <1>10, <1>11, <1>12, <1>13, <1>14,
     PagesTypesAreNext DEF PagesInv

\* A method is picked: an amount is asked for.
LEMMA PickKeeps ==
  ASSUME PagesInv, kind = "launch", page.phase = "pickMethod", NEW m \in Methods,
         quotes' = [quotes EXCEPT ![m] = @ + 1],
         quoted' = [quoted EXCEPT ![page.record] = @ + 1],
         page' = [page EXCEPT !.method = "none"],
         UNCHANGED <<call, kind, serverVars, mine, answers, moneyVars, proofs>>
  PROVE  PagesInv'
<1> USE DEF serverVars, moneyVars, launchOnlyVars
<1>1. PagesTyped
  BY PagesTypesAre DEF PagesInv
<1>2. UNCHANGED <<call, kind, row, been, mine, answers, asked, unheard, sends, troubles, proofs>>
  OBVIOUS
<1>3. PICK r : r = page.record
  OBVIOUS
<1>4. ~InForm /\ r \in mine /\ r \in Records
  BY <1>1, <1>3 DEF PagesInv, FormLeft, OwnRecords, InForm, FormPhases, PagesTyped
<1>5. /\ page' \in PageRecord /\ page'.phase = page.phase /\ page'.record = page.record
      /\ page'.sending = page.sending /\ page'.sent = page.sent
  BY <1>1 DEF PagesTyped, PageRecord
<1>6. \A q \in Records : /\ asked[q] \in Nat /\ unheard[q] \in Nat /\ sends[q] \in Nat
                         /\ quoted[q] \in Nat /\ troubles[q] \in Nat
  BY <1>1 DEF PagesTyped
<1>7. /\ quoted'[r] = quoted[r] + 1 /\ \A q \in Records \ {r} : quoted'[q] = quoted[q]
      /\ quoted' \in [Records -> Nat]
  <2>1. quoted' = [quoted EXCEPT ![r] = quoted[r] + 1] /\ quoted[r] + 1 \in Nat
    BY <1>3, <1>4, <1>6
  <2> QED
    BY <1>1, <1>4, <2>1 DEF PagesTyped
<1>8. quotes' \in [Methods -> Nat] /\ Quoting' = Quoting + 1
  <2>1. quotes[m] + 1 \in Nat /\ quotes["ZEC"] \in Nat /\ quotes["WALLET"] \in Nat
    BY <1>1 DEF PagesTyped, Methods
  <2> QED
    BY <1>1, <2>1 DEF PagesTyped, Methods, Quoting
<1>9. Quoting \in Nat
  BY <1>1 DEF PagesTyped, Methods, Quoting
<1>10. PagesTyped'
  BY <1>1, <1>2, <1>3, <1>4, <1>5, <1>6, <1>7, <1>8, <1>9 DEF PagesInv, PagesTyped
<1>11. OwnRecords'
  BY <1>1, <1>2, <1>3, <1>4, <1>5, <1>6, <1>7, <1>8, <1>9 DEF PagesInv, OwnRecords
<1>12. Remembered'
  BY <1>1, <1>2, <1>3, <1>4, <1>5, <1>6, <1>7, <1>8, <1>9 DEF PagesInv, Remembered
<1>13. AnswersTrue'
  BY <1>1, <1>2, <1>3, <1>4, <1>5, <1>6, <1>7, <1>8, <1>9 DEF PagesInv, AnswersTrue
<1>14. FormLeft'
  BY <1>1, <1>2, <1>3, <1>4, <1>5, <1>6, <1>7, <1>8, <1>9
     DEF PagesInv, FormLeft, InForm
<1>15. OneAsked'
  BY <1>1, <1>2, <1>3, <1>4, <1>5, <1>6, <1>7, <1>8, <1>9 DEF PagesInv, OneAsked
<1>16. PaymentsCovered'
  BY <1>1, <1>2, <1>3, <1>4, <1>5, <1>6, <1>7, <1>8, <1>9 DEF PagesInv, PaymentsCovered
<1>17. ButtonGone'
  BY <1>1, <1>2, <1>3, <1>4, <1>5, <1>6, <1>7, <1>8, <1>9 DEF PagesInv, ButtonGone
<1>18. SoldOnce'
  BY <1>1, <1>2, <1>3, <1>4, <1>5, <1>6, <1>7, <1>8, <1>9 DEF PagesInv, SoldOnce
<1>19. QuotesCovered'
  BY <1>2, <1>3, <1>4, <1>5, <1>6, <1>7, <1>8, <1>9
     DEF PagesInv, QuotesCovered, InForm, OfferedNow
<1>20. PhasesApart'
  BY <1>1, <1>2, <1>3, <1>4, <1>5, <1>6, <1>7, <1>8, <1>9
     DEF PagesInv, PhasesApart, PageTellsTruth
<1> QED
  BY <1>10, <1>11, <1>12, <1>13, <1>14, <1>15, <1>16, <1>17, <1>18, <1>19,
     <1>20, PagesTypesAreNext DEF PagesInv

\* A quote comes, for a method that may not be the one picked last.
LEMMA QuoteComesKeeps ==
  ASSUME PagesInv, kind = "launch", NEW m \in Methods, quotes[m] > 0,
         quotes' = [quotes EXCEPT ![m] = @ - 1],
         page' \in {[page EXCEPT !.method = m, !.phase = "pay"], [page EXCEPT !.method = m], page},
         UNCHANGED quoted,
         UNCHANGED <<call, kind, serverVars, mine, answers, moneyVars, proofs>>
  PROVE  PagesInv'
<1> USE DEF serverVars, moneyVars, launchOnlyVars
<1>1. PagesTyped
  BY PagesTypesAre DEF PagesInv
<1>2. UNCHANGED <<call, kind, row, been, mine, answers, asked, unheard, sends, troubles, quoted,
                  proofs>>
  OBVIOUS
<1>3. /\ quotes' \in [Methods -> Nat] /\ Quoting' = Quoting - 1 /\ Quoting \in Nat /\ Quoting > 0
  <2>1. quotes["ZEC"] \in Nat /\ quotes["WALLET"] \in Nat /\ quotes[m] - 1 \in Nat
    BY <1>1 DEF PagesTyped, Methods
  <2>2. Quoting \in Nat /\ Quoting > 0 /\ Quoting' = Quoting - 1
    BY <1>1, <2>1 DEF PagesTyped, Methods, Quoting
  <2> QED
    BY <1>1, <2>1, <2>2 DEF PagesTyped
<1>4. ~InForm
  BY <1>3 DEF PagesInv, QuotesCovered
<1>5. page.record \in mine /\ page.record \in Records
  BY <1>1, <1>4 DEF PagesInv, FormLeft, OwnRecords, PagesTyped
<1>6. /\ page' \in PageRecord /\ page'.phase \in {page.phase, "pay"} /\ page'.record = page.record
      /\ page'.sending = page.sending /\ page'.sent = page.sent
  BY <1>1 DEF PagesTyped, PageRecord, PagePhases
<1>7. \A q \in Records : /\ asked[q] \in Nat /\ unheard[q] \in Nat /\ sends[q] \in Nat
                         /\ quoted[q] \in Nat /\ troubles[q] \in Nat
  BY <1>1 DEF PagesTyped
<1>8. "pay" \notin FormPhases \cup DonePhases
  BY DEF FormPhases, DonePhases
<1>9. PagesTyped'
  BY <1>1, <1>2, <1>3, <1>4, <1>5, <1>6, <1>7, <1>8 DEF PagesInv, PagesTyped
<1>10. OwnRecords'
  BY <1>1, <1>2, <1>3, <1>4, <1>5, <1>6, <1>7, <1>8 DEF PagesInv, OwnRecords
<1>11. Remembered'
  BY <1>1, <1>2, <1>3, <1>4, <1>5, <1>6, <1>7, <1>8 DEF PagesInv, Remembered
<1>12. AnswersTrue'
  BY <1>1, <1>2, <1>3, <1>4, <1>5, <1>6, <1>7, <1>8 DEF PagesInv, AnswersTrue
<1>13. FormLeft'
  BY <1>1, <1>2, <1>3, <1>4, <1>5, <1>6, <1>7, <1>8 DEF PagesInv, FormLeft, InForm
<1>14. OneAsked'
  BY <1>1, <1>2, <1>3, <1>4, <1>5, <1>6, <1>7, <1>8 DEF PagesInv, OneAsked
<1>15. PaymentsCovered'
  BY <1>1, <1>2, <1>3, <1>4, <1>5, <1>6, <1>7, <1>8 DEF PagesInv, PaymentsCovered
<1>16. ButtonGone'
  BY <1>1, <1>2, <1>3, <1>4, <1>5, <1>6, <1>7, <1>8 DEF PagesInv, ButtonGone
<1>17. SoldOnce'
  BY <1>1, <1>2, <1>3, <1>4, <1>5, <1>6, <1>7, <1>8 DEF PagesInv, SoldOnce
<1>18. QuotesCovered'
  BY <1>2, <1>3, <1>4, <1>5, <1>6, <1>7, <1>8
     DEF PagesInv, QuotesCovered, InForm, OfferedNow
<1>19. PhasesApart'
  BY <1>1, <1>2, <1>3, <1>4, <1>5, <1>6, <1>7, <1>8
     DEF PagesInv, PhasesApart, PageTellsTruth
<1> QED
  BY <1>9, <1>10, <1>11, <1>12, <1>13, <1>14, <1>15, <1>16, <1>17, <1>18, <1>19,
     PagesTypesAreNext DEF PagesInv

\* What a wallet sent is presented to the backend as a proof.
LEMMA PresentKeeps ==
  ASSUME PagesInv, kind = "launch", NEW r \in mine, unheard[r] > 0,
         unheard' = [unheard EXCEPT ![r] = @ - 1],
         page' = [page EXCEPT !.phase = "confirming", !.sending = FALSE], proofs' = proofs + 1,
         UNCHANGED <<kind, call, serverVars, mine, answers, asked, sends, troubles, quoted, quotes>>
  PROVE  PagesInv'
<1> USE DEF serverVars, moneyVars, launchOnlyVars
<1>1. PagesTyped
  BY PagesTypesAre DEF PagesInv
<1>2. UNCHANGED <<kind, call, row, been, mine, answers, asked, sends, troubles, quoted, quotes>>
  OBVIOUS
<1>3. /\ page' \in PageRecord /\ page'.phase = "confirming" /\ page'.record = page.record
      /\ page'.sending = FALSE /\ page'.sent = page.sent
  BY <1>1 DEF PagesTyped, PageRecord, PagePhases
<1>4. \A q \in Records : /\ asked[q] \in Nat /\ unheard[q] \in Nat /\ sends[q] \in Nat
                         /\ quoted[q] \in Nat /\ troubles[q] \in Nat
  BY <1>1 DEF PagesTyped
<1>5. mine \subseteq Records
  BY <1>1 DEF PagesTyped
<1>6. asked[r] + unheard[r] <= 1 /\ page.sending
  BY <1>4, <1>5 DEF PagesInv, OneAsked
<1>7. \A q \in mine \ {r} : asked[q] = 0 /\ unheard[q] = 0
  <2>1. ASSUME NEW q \in mine \ {r} PROVE asked[q] = 0 /\ unheard[q] = 0
    BY <1>4, <1>5 DEF PagesInv, OneAsked
  <2> QED
    BY <2>1
<1>8. asked[r] = 0 /\ unheard[r] = 1
  BY <1>4, <1>5, <1>6
<1>9. unheard'[r] = 0 /\ \A q \in Records \ {r} : unheard'[q] = unheard[q]
  BY <1>1, <1>5, <1>8 DEF PagesTyped
<1>10. unheard' \in [Records -> Nat] /\ proofs' \in Nat
  BY <1>1, <1>5, <1>8 DEF PagesTyped
<1>11. r = page.record /\ ~InForm
  BY <1>6, <1>8 DEF PagesInv, FormLeft
<1>12. Quoting \in Nat
  BY <1>1 DEF PagesTyped, Methods, Quoting
<1>13. "confirming" \notin FormPhases \cup DonePhases
  BY DEF FormPhases, DonePhases
<1>14. PagesTyped'
  BY <1>1, <1>2, <1>3, <1>4, <1>5, <1>6, <1>7, <1>8, <1>9, <1>10, <1>11, <1>12, <1>13
     DEF PagesInv, PagesTyped
<1>15. OwnRecords'
  BY <1>1, <1>2, <1>3, <1>4, <1>5, <1>6, <1>7, <1>8, <1>9, <1>10, <1>11, <1>12, <1>13
     DEF PagesInv, OwnRecords
<1>16. Remembered'
  BY <1>1, <1>2, <1>3, <1>4, <1>5, <1>6, <1>7, <1>8, <1>9, <1>10, <1>11, <1>12, <1>13
     DEF PagesInv, Remembered
<1>17. AnswersTrue'
  BY <1>1, <1>2, <1>3, <1>4, <1>5, <1>6, <1>7, <1>8, <1>9, <1>10, <1>11, <1>12, <1>13
     DEF PagesInv, AnswersTrue
<1>18. FormLeft'
  BY <1>1, <1>2, <1>3, <1>4, <1>5, <1>6, <1>7, <1>8, <1>9, <1>10, <1>11, <1>12, <1>13
     DEF PagesInv, FormLeft, InForm
<1>19. OneAsked'
  BY <1>1, <1>2, <1>3, <1>4, <1>5, <1>6, <1>7, <1>8, <1>9, <1>10, <1>11, <1>12, <1>13
     DEF PagesInv, OneAsked
<1>20. PaymentsCovered'
  BY <1>1, <1>2, <1>3, <1>4, <1>5, <1>6, <1>7, <1>8, <1>9, <1>10, <1>11, <1>12, <1>13
     DEF PagesInv, PaymentsCovered
<1>21. ButtonGone'
  BY <1>1, <1>2, <1>3, <1>4, <1>5, <1>6, <1>7, <1>8, <1>9, <1>10, <1>11, <1>12, <1>13
     DEF PagesInv, ButtonGone
<1>22. SoldOnce'
  BY <1>1, <1>2, <1>3, <1>4, <1>5, <1>6, <1>7, <1>8, <1>9, <1>10, <1>11, <1>12, <1>13
     DEF PagesInv, SoldOnce
<1>23. QuotesCovered'
  BY <1>1, <1>2, <1>3, <1>4, <1>5, <1>6, <1>7, <1>8, <1>9, <1>10, <1>11, <1>12, <1>13
     DEF PagesInv, QuotesCovered, InForm, Quoting, OfferedNow
<1>24. PhasesApart'
  BY <1>1, <1>2, <1>3, <1>4, <1>5, <1>6, <1>7, <1>8, <1>9, <1>10, <1>11, <1>12, <1>13
     DEF PagesInv, PhasesApart, PageTellsTruth
<1> QED
  BY <1>14, <1>15, <1>16, <1>17, <1>18, <1>19, <1>20, <1>21, <1>22, <1>23,
     <1>24, PagesTypesAreNext DEF PagesInv

\* The proof is accepted, or the launch has already failed.
LEMMA AcceptedKeeps ==
  ASSUME PagesInv, kind = "launch", proofs > 0, proofs' = proofs - 1, row[page.record] # "pending",
         page' = [page EXCEPT !.phase =
                    IF row[page.record] = "failed" THEN "failed" ELSE "orchestrating"],
         UNCHANGED troubles,
         UNCHANGED <<kind, call, serverVars, mine, answers, asked, unheard, sends, quoted, quotes>>
  PROVE  PagesInv'
<1> USE DEF serverVars, moneyVars, launchOnlyVars
<1>1. PagesTyped
  BY PagesTypesAre DEF PagesInv
<1>2. UNCHANGED <<kind, call, row, been, mine, answers, asked, unheard, sends, troubles, quoted,
                  quotes>>
  OBVIOUS
<1>3. ~InForm /\ proofs' \in Nat
  BY <1>1 DEF PagesInv, QuotesCovered, PagesTyped
<1>4. page.record \in mine /\ page.record \in Records
  BY <1>1, <1>3 DEF PagesInv, FormLeft, OwnRecords, PagesTyped
<1>5. PICK st : st = row[page.record]
  OBVIOUS
<1>6. /\ st \in {"paid", "done", "failed"} /\ <<page.record, st>> \in been
      /\ st = "done" => <<page.record, "paid">> \in been
  BY <1>1, <1>4, <1>5 DEF PagesInv, OwnRecords, Remembered, PagesTyped, Statuses
<1>7. PICK ph \in {"failed", "orchestrating"} :
        /\ page' = [page EXCEPT !.phase = ph]
        /\ \/ ph = "failed" /\ st = "failed"
           \/ ph = "orchestrating" /\ <<page.record, "paid">> \in been
  <2>1. CASE st = "failed"
    <3>1. page' = [page EXCEPT !.phase = "failed"]
      BY <1>5, <2>1
    <3> QED
      BY <2>1, <3>1
  <2>2. CASE st # "failed"
    <3>1. page' = [page EXCEPT !.phase = "orchestrating"] /\ <<page.record, "paid">> \in been
      BY <1>5, <1>6, <2>2
    <3> QED
      BY <3>1
  <2> QED
    BY <2>1, <2>2
<1>8. /\ page' \in PageRecord /\ page'.phase = ph /\ page'.record = page.record
      /\ page'.sending = page.sending /\ page'.sent = page.sent
  BY <1>1, <1>7 DEF PagesTyped, PageRecord, PagePhases
<1>9. \A q \in Records : /\ asked[q] \in Nat /\ unheard[q] \in Nat /\ sends[q] \in Nat
                         /\ quoted[q] \in Nat /\ troubles[q] \in Nat
  BY <1>1 DEF PagesTyped
<1>10. mine \subseteq Records
  BY <1>1 DEF PagesTyped
<1>11. Quoting \in Nat
  BY <1>1 DEF PagesTyped, Methods, Quoting
<1>12. ph \notin FormPhases \cup DonePhases
  BY DEF FormPhases, DonePhases
<1>13. PagesTyped'
  BY <1>1, <1>2, <1>3, <1>4, <1>5, <1>6, <1>7, <1>8, <1>9, <1>10, <1>11, <1>12
     DEF PagesInv, PagesTyped
<1>14. OwnRecords'
  BY <1>1, <1>2, <1>3, <1>4, <1>5, <1>6, <1>7, <1>8, <1>9, <1>10, <1>11, <1>12
     DEF PagesInv, OwnRecords
<1>15. Remembered'
  BY <1>1, <1>2, <1>3, <1>4, <1>5, <1>6, <1>7, <1>8, <1>9, <1>10, <1>11, <1>12
     DEF PagesInv, Remembered
<1>16. AnswersTrue'
  BY <1>1, <1>2, <1>3, <1>4, <1>5, <1>6, <1>7, <1>8, <1>9, <1>10, <1>11, <1>12
     DEF PagesInv, AnswersTrue
<1>17. FormLeft'
  BY <1>1, <1>2, <1>3, <1>4, <1>5, <1>6, <1>7, <1>8, <1>9, <1>10, <1>11, <1>12
     DEF PagesInv, FormLeft, InForm
<1>18. OneAsked'
  BY <1>1, <1>2, <1>3, <1>4, <1>5, <1>6, <1>7, <1>8, <1>9, <1>10, <1>11, <1>12
     DEF PagesInv, OneAsked
<1>19. PaymentsCovered'
  BY <1>1, <1>2, <1>3, <1>4, <1>5, <1>6, <1>7, <1>8, <1>9, <1>10, <1>11, <1>12
     DEF PagesInv, PaymentsCovered
<1>20. ButtonGone'
  BY <1>1, <1>2, <1>3, <1>4, <1>5, <1>6, <1>7, <1>8, <1>9, <1>10, <1>11, <1>12
     DEF PagesInv, ButtonGone
<1>21. SoldOnce'
  BY <1>1, <1>2, <1>3, <1>4, <1>5, <1>6, <1>7, <1>8, <1>9, <1>10, <1>11, <1>12
     DEF PagesInv, SoldOnce
<1>22. QuotesCovered'
  BY <1>1, <1>2, <1>3, <1>4, <1>5, <1>6, <1>7, <1>8, <1>9, <1>10, <1>11, <1>12
     DEF PagesInv, QuotesCovered, InForm, Quoting, OfferedNow
<1>23. PhasesApart'
  <2>1. CASE ph = "failed"
    BY <1>2, <1>4, <1>6, <1>7, <1>8, <1>12, <2>1 DEF PhasesApart, PageTellsTruth
  <2>2. CASE ph = "orchestrating"
    BY <1>2, <1>4, <1>6, <1>7, <1>8, <1>12, <2>2 DEF PhasesApart, PageTellsTruth
  <2> QED
    BY <2>1, <2>2
<1> QED
  BY <1>13, <1>14, <1>15, <1>16, <1>17, <1>18, <1>19, <1>20, <1>21, <1>22,
     <1>23, PagesTypesAreNext DEF PagesInv

\* The proof is refused: the button to pay comes back, with an error.
LEMMA RefusedProofKeeps ==
  ASSUME PagesInv, kind = "launch", proofs > 0, proofs' = proofs - 1,
         page' = [page EXCEPT !.phase = "pay"],
         troubles' = [troubles EXCEPT ![page.record] = @ + 1],
         UNCHANGED <<kind, call, serverVars, mine, answers, asked, unheard, sends, quoted, quotes>>
  PROVE  PagesInv'
<1> USE DEF serverVars, moneyVars, launchOnlyVars
<1>1. PagesTyped
  BY PagesTypesAre DEF PagesInv
<1>2. UNCHANGED <<kind, call, row, been, mine, answers, asked, unheard, sends, quoted, quotes>>
  OBVIOUS
<1>3. ~InForm /\ proofs' \in Nat
  BY <1>1 DEF PagesInv, QuotesCovered, PagesTyped
<1>4. PICK r : r = page.record
  OBVIOUS
<1>5. r \in mine /\ r \in Records
  BY <1>1, <1>3, <1>4 DEF PagesInv, FormLeft, OwnRecords, PagesTyped
<1>6. /\ page' \in PageRecord /\ page'.phase = "pay" /\ page'.record = page.record
      /\ page'.sending = page.sending /\ page'.sent = page.sent
  BY <1>1 DEF PagesTyped, PageRecord, PagePhases
<1>7. \A q \in Records : /\ asked[q] \in Nat /\ unheard[q] \in Nat /\ sends[q] \in Nat
                         /\ quoted[q] \in Nat /\ troubles[q] \in Nat
  BY <1>1 DEF PagesTyped
<1>8. mine \subseteq Records
  BY <1>1 DEF PagesTyped
<1>9. Quoting \in Nat
  BY <1>1 DEF PagesTyped, Methods, Quoting
<1>10. troubles' = [troubles EXCEPT ![r] = troubles[r] + 1] /\ troubles[r] + 1 \in Nat
  BY <1>4, <1>5, <1>7
<1>11. /\ troubles'[r] = troubles[r] + 1 /\ \A q \in Records \ {r} : troubles'[q] = troubles[q]
      /\ troubles' \in [Records -> Nat]
  BY <1>1, <1>5, <1>10 DEF PagesTyped
<1>12. "pay" \notin FormPhases \cup DonePhases
  BY DEF FormPhases, DonePhases
<1>13. PagesTyped'
  BY <1>1, <1>2, <1>3, <1>4, <1>5, <1>6, <1>7, <1>8, <1>9, <1>10, <1>11, <1>12
     DEF PagesInv, PagesTyped
<1>14. OwnRecords'
  BY <1>1, <1>2, <1>3, <1>4, <1>5, <1>6, <1>7, <1>8, <1>9, <1>10, <1>11, <1>12
     DEF PagesInv, OwnRecords
<1>15. Remembered'
  BY <1>1, <1>2, <1>3, <1>4, <1>5, <1>6, <1>7, <1>8, <1>9, <1>10, <1>11, <1>12
     DEF PagesInv, Remembered
<1>16. AnswersTrue'
  BY <1>1, <1>2, <1>3, <1>4, <1>5, <1>6, <1>7, <1>8, <1>9, <1>10, <1>11, <1>12
     DEF PagesInv, AnswersTrue
<1>17. FormLeft'
  BY <1>1, <1>2, <1>3, <1>4, <1>5, <1>6, <1>7, <1>8, <1>9, <1>10, <1>11, <1>12
     DEF PagesInv, FormLeft, InForm
<1>18. OneAsked'
  BY <1>1, <1>2, <1>3, <1>4, <1>5, <1>6, <1>7, <1>8, <1>9, <1>10, <1>11, <1>12
     DEF PagesInv, OneAsked
<1>19. PaymentsCovered'
  BY <1>1, <1>2, <1>3, <1>4, <1>5, <1>6, <1>7, <1>8, <1>9, <1>10, <1>11, <1>12
     DEF PagesInv, PaymentsCovered
<1>20. ButtonGone'
  BY <1>1, <1>2, <1>3, <1>4, <1>5, <1>6, <1>7, <1>8, <1>9, <1>10, <1>11, <1>12
     DEF PagesInv, ButtonGone
<1>21. SoldOnce'
  BY <1>1, <1>2, <1>3, <1>4, <1>5, <1>6, <1>7, <1>8, <1>9, <1>10, <1>11, <1>12
     DEF PagesInv, SoldOnce
<1>22. QuotesCovered'
  BY <1>1, <1>2, <1>3, <1>4, <1>5, <1>6, <1>7, <1>8, <1>9, <1>10, <1>11, <1>12
     DEF PagesInv, QuotesCovered, InForm, Quoting, OfferedNow
<1>23. PhasesApart'
  BY <1>1, <1>2, <1>3, <1>4, <1>5, <1>6, <1>7, <1>8, <1>9, <1>10, <1>11, <1>12
     DEF PagesInv, PhasesApart, PageTellsTruth
<1> QED
  BY <1>13, <1>14, <1>15, <1>16, <1>17, <1>18, <1>19, <1>20, <1>21, <1>22,
     <1>23, PagesTypesAreNext DEF PagesInv

\* The mint page has loaded what it offers.
LEMMA LoadedKeeps ==
  ASSUME PagesInv, kind = "mint", page.phase = "loading",
         NEW ph \in {"confirm", "soldOut", "notConfigured"},
         page' = [page EXCEPT !.phase = ph],
         UNCHANGED <<kind, call, serverVars, mine, answers, moneyVars, quoted, launchOnlyVars>>
  PROVE  PagesInv'
<1> USE DEF serverVars, moneyVars, launchOnlyVars
<1>1. PagesTyped
  BY PagesTypesAre DEF PagesInv
<1>2. UNCHANGED <<kind, call, row, been, mine, answers, asked, unheard, sends, troubles, quoted,
                  quotes, proofs>>
  OBVIOUS
<1>3. /\ page' \in PageRecord /\ page'.phase = ph /\ page'.record = page.record
      /\ page'.sending = page.sending /\ page'.sent = page.sent
  BY <1>1 DEF PagesTyped, PageRecord, PagePhases
<1>4. ph \in FormPhases /\ page.phase \in FormPhases /\ ph \notin DonePhases
  BY DEF FormPhases, DonePhases
<1>5. PagesTyped'
  BY <1>1, <1>2, <1>3, <1>4 DEF PagesInv, PagesTyped
<1>6. OwnRecords'
  BY <1>1, <1>2, <1>3, <1>4 DEF PagesInv, OwnRecords
<1>7. Remembered'
  BY <1>1, <1>2, <1>3, <1>4 DEF PagesInv, Remembered
<1>8. AnswersTrue'
  BY <1>1, <1>2, <1>3, <1>4 DEF PagesInv, AnswersTrue
<1>9. FormLeft'
  BY <1>1, <1>2, <1>3, <1>4 DEF PagesInv, FormLeft, InForm
<1>10. OneAsked'
  BY <1>1, <1>2, <1>3, <1>4 DEF PagesInv, OneAsked
<1>11. PaymentsCovered'
  BY <1>1, <1>2, <1>3, <1>4 DEF PagesInv, PaymentsCovered
<1>12. ButtonGone'
  BY <1>1, <1>2, <1>3, <1>4 DEF PagesInv, ButtonGone
<1>13. SoldOnce'
  BY <1>1, <1>2, <1>3, <1>4 DEF PagesInv, SoldOnce
<1>14. QuotesCovered'
  BY <1>1, <1>2, <1>3, <1>4 DEF PagesInv, QuotesCovered, InForm, Quoting, OfferedNow
<1>15. PhasesApart'
  BY <1>1, <1>2, <1>3, <1>4 DEF PagesInv, PhasesApart, PageTellsTruth
<1> QED
  BY <1>5, <1>6, <1>7, <1>8, <1>9, <1>10, <1>11, <1>12, <1>13, <1>14, <1>15,
     PagesTypesAreNext DEF PagesInv

\* Nothing of the pages changes.
LEMMA PagesStay ==
  ASSUME PagesInv, UNCHANGED pageVars
  PROVE  PagesInv'
<1> USE DEF serverVars, moneyVars, launchOnlyVars
<1>1. PagesTyped
  BY PagesTypesAre DEF PagesInv
<1>2. UNCHANGED <<kind, page, call, row, been, mine, answers, asked, unheard, sends, troubles,
                  quoted, quotes, proofs>>
  BY DEF pageVars
<1>3. PagesTyped'
  BY <1>1, <1>2 DEF PagesInv, PagesTyped
<1>4. OwnRecords'
  BY <1>1, <1>2 DEF PagesInv, OwnRecords
<1>5. Remembered'
  BY <1>1, <1>2 DEF PagesInv, Remembered
<1>6. AnswersTrue'
  BY <1>1, <1>2 DEF PagesInv, AnswersTrue
<1>7. FormLeft'
  BY <1>1, <1>2 DEF PagesInv, FormLeft, InForm
<1>8. OneAsked'
  BY <1>1, <1>2 DEF PagesInv, OneAsked
<1>9. PaymentsCovered'
  BY <1>1, <1>2 DEF PagesInv, PaymentsCovered
<1>10. ButtonGone'
  BY <1>1, <1>2 DEF PagesInv, ButtonGone
<1>11. SoldOnce'
  BY <1>1, <1>2 DEF PagesInv, SoldOnce
<1>12. QuotesCovered'
  BY <1>1, <1>2 DEF PagesInv, QuotesCovered, InForm, Quoting, OfferedNow
<1>13. PhasesApart'
  BY <1>1, <1>2 DEF PagesInv, PhasesApart, PageTellsTruth
<1> QED
  BY <1>3, <1>4, <1>5, <1>6, <1>7, <1>8, <1>9, <1>10, <1>11, <1>12, <1>13,
     PagesTypesAreNext DEF PagesInv

\* The steps the pages share, as each page takes them.
LEMMA OpenedRecord ==
  ASSUME PagesInv, call.at = "opened"
  PROVE  /\ call.record \in mine /\ call.record \in Records
         /\ kind \notin {"launch", "sell", "mint"} => quoted[call.record] >= 1
         /\ kind = "mint" => quoted[call.record] >= 1 \/ row[call.record] = "done"
<1>1. call.record \in mine /\ mine \subseteq Records
  BY DEF PagesInv, OwnRecords, PagesTypeOK
<1> QED
  BY <1>1 DEF PagesInv, ButtonGone

LEMMA RefusedKeeps ==
  ASSUME PagesInv, Refused, kind # "sell"
  PROVE  PagesInv'
<1>1. troubles' = troubles /\ Refuses /\ PagesTyped
  BY PagesTypesAre DEF Refused, PagesInv
<1>2. troubles' \in [Records -> Nat] /\ \A r \in Records : troubles'[r] >= troubles[r]
  BY <1>1 DEF PagesTyped
<1> QED
  BY <1>1, <1>2, RefusesKeeps

LEMMA NoirKeeps ==
  ASSUME PagesInv, NEW buttons, PaysWithNoir(buttons), kind \notin {"launch", "sell"},
         "pay" \in buttons => page.phase = "waiting" /\ ~page.sent /\ ~page.sending
  PROVE  PagesInv'
  BY AsksWalletKeeps, NoirSentKeeps, WalletFailsKeeps DEF PaysWithNoir

LEMMA AskedAgainKeeps ==
  ASSUME PagesInv, AsksStatus, page.phase \in {"waiting", "pay", "orchestrating"}
  PROVE  PagesInv'
  BY AsksStatusKeeps DEF InForm, FormPhases

\* An answer that is done leads to one phase, a failed one to another.
LEMMA HeardKeeps ==
  ASSUME PagesInv, NEW a \in answers, NEW ph, Hears(a, ph), kind \notin {"sell", "launch"},
         NEW done \in DonePhases,
         ph = CASE a[2] = "done" -> done [] a[2] = "failed" -> "failed" [] OTHER -> page.phase
  PROVE  PagesInv'
<1>1. page.phase \in PagePhases
  BY PagesTypesAre DEF PagesInv, PagesTyped, PageRecord
<1>2. CASE a[2] = "done"
  BY <1>2, HearsKeeps DEF DonePhases, PagePhases
<1>3. CASE a[2] = "failed"
  BY <1>3, HearsKeeps DEF PagePhases
<1>4. CASE a[2] \notin {"done", "failed"}
  BY <1>1, <1>4, HearsKeeps
<1> QED
  BY <1>2, <1>3, <1>4

LEMMA BuyKeeps == PagesInv /\ (BuySubmit \/ BuyPay \/ BuyPoll) => PagesInv'
<1> SUFFICES ASSUME PagesInv, BuySubmit \/ BuyPay \/ BuyPoll PROVE PagesInv'
  OBVIOUS
<1>1. kind = "buy"
  BY DEF BuySubmit, BuyPay, BuyPoll
<1>2. CASE "submit" \in BuyView /\ Asks
  BY <1>2, AsksKeeps DEF BuyView, Button, InForm, FormPhases
<1>3. CASE Opens("waiting")
  <2>1. PICK ph \in PagePhases : ph = "waiting" /\ Opens(ph)
    BY <1>3 DEF PagePhases
  <2> QED
    BY <1>1, <2>1, OpenedRecord, OpensKeeps DEF Opens
<1>4. CASE Refused
  BY <1>1, <1>4, RefusedKeeps
<1>5. CASE PaysWithNoir(BuyView)
  BY <1>1, <1>5, NoirKeeps DEF BuyView, Button
<1>6. CASE page.phase = "waiting" /\ AsksStatus
  BY <1>6, AskedAgainKeeps
<1>7. ASSUME NEW a \in answers, Hears(a, BuyAfter(a[2])) PROVE PagesInv'
  <2>1. PICK ph : ph = BuyAfter(a[2]) /\ Hears(a, ph)
    BY <1>7
  <2> QED
    BY <1>1, <2>1, HeardKeeps, "filled" \in DonePhases DEF BuyAfter, DonePhases
<1> QED
  BY <1>2, <1>3, <1>4, <1>5, <1>6, <1>7 DEF BuySubmit, BuyPay, BuyPoll

LEMMA SellKeeps == ASSUME PagesInv, SellSubmit PROVE PagesInv'
<1>1. kind = "sell" /\ PagesTyped
  BY PagesTypesAre DEF SellSubmit, PagesInv
<1>2. CASE "submit" \in SellView /\ Asks
  BY <1>2, AsksKeeps DEF SellView, Button, InForm, FormPhases
<1>3. CASE Opens("result")
  <2>1. PICK ph \in PagePhases : ph = "result" /\ Opens(ph)
    BY <1>3 DEF PagePhases
  <2>2. <<call.record, "done">> \in been
    BY <1>1, <2>1 DEF PagesInv, SoldOnce, Opens
  <2> QED
    BY <1>1, <2>1, <2>2, OpensKeeps
<1>4. CASE /\ Refuses
           /\ troubles' = [r \in Records |-> troubles[r] + IF call.record = r THEN 1 ELSE 0]
  <2>1. \A r \in Records : troubles[r] \in Nat
    BY <1>1 DEF PagesTyped
  <2>2. troubles' \in [Records -> Nat] /\ \A r \in Records : troubles'[r] >= troubles[r]
    BY <1>4, <2>1
  <2>3. call.at = "opened" => troubles'[call.record] >= troubles[call.record] + 1
    BY <1>4, <2>1, OpenedRecord
  <2> QED
    BY <1>4, <2>2, <2>3, RefusesKeeps
<1> QED
  BY <1>2, <1>3, <1>4 DEF SellSubmit

LEMMA CreateKeeps ==
  PagesInv /\ (CreateSubmit \/ CreatePay \/ CreatePoll \/ CreateRetry) => PagesInv'
<1> SUFFICES ASSUME PagesInv, CreateSubmit \/ CreatePay \/ CreatePoll \/ CreateRetry
             PROVE  PagesInv'
  OBVIOUS
<1>1. kind = "create"
  BY DEF CreateSubmit, CreatePay, CreatePoll, CreateRetry
<1>2. CASE "submit" \in CreateFormView /\ Asks
  BY <1>1, <1>2, AsksKeeps
<1>3. CASE Opens("waiting")
  <2>1. PICK ph \in PagePhases : ph = "waiting" /\ Opens(ph)
    BY <1>3 DEF PagePhases
  <2> QED
    BY <1>1, <2>1, OpenedRecord, OpensKeeps DEF Opens
<1>4. CASE Refused
  BY <1>1, <1>4, RefusedKeeps
<1>5. CASE PaysWithNoir(CreateWaitView)
  BY <1>1, <1>5, NoirKeeps DEF CreateWaitView, Button
<1>6. CASE page.phase = "waiting" /\ AsksStatus
  BY <1>6, AskedAgainKeeps
<1>7. ASSUME NEW a \in answers, Hears(a, CreateAfter(a[2])) PROVE PagesInv'
  <2>1. PICK ph : ph = CreateAfter(a[2]) /\ Hears(a, ph)
    BY <1>7
  <2> QED
    BY <1>1, <2>1, HeardKeeps, "created" \in DonePhases DEF CreateAfter, DonePhases
<1>8. CASE CreateRetry
  BY <1>8, RetryKeeps
<1> QED
  BY <1>2, <1>3, <1>4, <1>5, <1>6, <1>7, <1>8 DEF CreateSubmit, CreatePay, CreatePoll

LEMMA LaunchKeeps ==
  PagesInv /\ (LaunchSubmit \/ LaunchPick \/ LaunchPay \/ LaunchProof \/ LaunchPoll) => PagesInv'
<1> SUFFICES ASSUME PagesInv,
                    LaunchSubmit \/ LaunchPick \/ LaunchPay \/ LaunchProof \/ LaunchPoll
             PROVE  PagesInv'
  OBVIOUS
<1>1. kind = "launch" /\ PagesTyped
  BY PagesTypesAre DEF LaunchSubmit, LaunchPick, LaunchPay, LaunchProof, LaunchPoll, PagesInv
<1>2. CASE "submit" \in LaunchFormView /\ Asks
  BY <1>2, AsksKeeps DEF LaunchFormView, Button, InForm, FormPhases
<1>3. CASE Opens("pickMethod")
  <2>1. PICK ph \in PagePhases : ph = "pickMethod" /\ Opens(ph)
    BY <1>3 DEF PagePhases
  <2> QED
    BY <1>1, <2>1, OpensKeeps
<1>4. CASE Refused
  BY <1>1, <1>4, RefusedKeeps
<1>5. CASE LaunchPick
  <2>1. ASSUME NEW m \in LaunchPickView,
               quotes' = [quotes EXCEPT ![m] = @ + 1],
               quoted' = [quoted EXCEPT ![page.record] = @ + 1],
               page' = [page EXCEPT !.method = "none"],
               UNCHANGED <<call, kind, serverVars, mine, answers, moneyVars, proofs>>
        PROVE  PagesInv'
    <3>1. page.phase = "pickMethod" /\ m \in Methods
      BY <2>1 DEF LaunchPickView
    <3> QED
      BY <1>1, <2>1, <3>1, PickKeeps
  <2>2. ASSUME NEW m \in Methods, quotes[m] > 0, quotes' = [quotes EXCEPT ![m] = @ - 1],
               \/ page' \in {[page EXCEPT !.method = m, !.phase = "pay"], page}
               \/ m = "ZEC" /\ page' = [page EXCEPT !.method = m],
               UNCHANGED quoted,
               UNCHANGED <<call, kind, serverVars, mine, answers, moneyVars, proofs>>
        PROVE  PagesInv'
    <3>1. page' \in {[page EXCEPT !.method = m, !.phase = "pay"], [page EXCEPT !.method = m], page}
      BY <2>2
    <3> QED
      BY <1>1, <2>2, <3>1, QuoteComesKeeps
  <2> QED
    BY <1>5, <2>1, <2>2 DEF LaunchPick
<1>6. CASE "pay" \in LaunchPayView /\ AsksWallet
  BY <1>1, <1>6, AsksWalletKeeps DEF LaunchPayView, Button
<1>7. CASE WalletFails
  BY <1>1, <1>7, WalletFailsKeeps
<1>8. ASSUME NEW r \in mine, unheard[r] > 0, unheard' = [unheard EXCEPT ![r] = @ - 1],
             page' = [page EXCEPT !.phase = "confirming", !.sending = FALSE],
             proofs' = proofs + 1,
             UNCHANGED <<kind, call, serverVars, mine, answers, asked, sends, troubles, quoted,
                         quotes>>
      PROVE  PagesInv'
  BY <1>1, <1>8, PresentKeeps
<1>9. CASE LaunchProof
  BY <1>1, <1>9, AcceptedKeeps, RefusedProofKeeps DEF LaunchProof
<1>10. CASE AsksStatus /\ page.phase \in {"pay", "orchestrating"}
  BY <1>10, AskedAgainKeeps
<1>11. ASSUME NEW a \in answers, Hears(a, LaunchAfter(a[2], a[3])) PROVE PagesInv'
  <2>1. PICK ph : ph = LaunchAfter(a[2], a[3]) /\ Hears(a, ph)
    BY <1>11
  <2>2. a[2] \in {"pending", "paid", "done", "failed"} /\ page.phase \in PagePhases
    BY <1>1 DEF PagesInv, AnswersTrue, Remembered, PagesTyped, PageRecord, Statuses
  <2>3. \/ ph = page.phase
        \/ ph \in DonePhases /\ a[2] = "done"
        \/ ph = "failed" /\ a[2] = "failed"
        \/ ph = "orchestrating" /\ a[2] \in {"paid", "done"} /\ kind = "launch"
    BY <1>1, <2>1, <2>2 DEF LaunchAfter, LaunchZecAfter, LaunchDeployAfter, DonePhases
  <2>4. ph \in PagePhases
    BY <2>2, <2>3 DEF DonePhases, PagePhases
  <2> QED
    BY <1>1, <2>1, <2>3, <2>4, HearsKeeps
<1> QED
  BY <1>2, <1>3, <1>4, <1>5, <1>6, <1>7, <1>8, <1>9, <1>10, <1>11
     DEF LaunchSubmit, LaunchPay, LaunchPoll

LEMMA LaunchpadKeeps == PagesInv /\ LaunchpadNext => PagesInv'
  BY BuyKeeps, SellKeeps, CreateKeeps, LaunchKeeps, RecordMadeKeeps, SaleMadeKeeps,
     RecordSettlesKeeps, WalletSendsKeeps, LeaveKeeps DEF LaunchpadNext

LEMMA MintMadeKeeps ==
  ASSUME PagesInv, NEW r \in Records, MintMade(r)
  PROVE  PagesInv'
<1>1. kind = "mint" /\ Fresh(r) /\ call.at = "asked" /\ PagesTyped
  BY PagesTypesAre DEF MintMade, PagesInv
<1>2. CASE RecordMade(r)
  BY <1>1, <1>2, RecordMadeKeeps
<1>3. CASE /\ call' = [at |-> "opened", record |-> r]
           /\ Become(r, "done")
           /\ mine' = mine \cup {r}
           /\ UNCHANGED <<kind, page, answers, moneyVars, quoted, launchOnlyVars>>
  <2>1. PICK n \in Nat : n = quoted[r]
    BY <1>1 DEF PagesTyped
  <2>2. quoted' = [quoted EXCEPT ![r] = n]
    BY <1>1, <1>3, <2>1 DEF PagesTyped
  <2>3. PICK s \in {"pending", "done"} : s = "done" /\ Become(r, s)
    BY <1>3
  <2> QED
    BY <1>1, <1>3, <2>2, <2>3, MadeKeeps
<1> QED
  BY <1>2, <1>3 DEF MintMade

LEMMA MintKeeps ==
  PagesInv /\ (MintLoads \/ MintSubmit \/ MintClaim \/ MintPay \/ MintPoll) => PagesInv'
<1> SUFFICES ASSUME PagesInv, MintLoads \/ MintSubmit \/ MintClaim \/ MintPay \/ MintPoll
             PROVE  PagesInv'
  OBVIOUS
<1>1. CASE MintLoads
  <2>1. ASSUME page.phase = "loading", NEW p \in {"confirm", "soldOut", "notConfigured"},
               page' = [page EXCEPT !.phase = p]
        PROVE  PagesInv'
    BY <1>1, <2>1, LoadedKeeps DEF MintLoads
  <2>2. CASE UNCHANGED page
    BY <1>1, <2>2, PagesStay DEF MintLoads, pageVars
  <2> QED
    BY <1>1, <2>1, <2>2 DEF MintLoads
<1>2. CASE MintClaim
  BY <1>2, PagesStay DEF MintClaim
<1>3. ASSUME MintSubmit \/ MintPay \/ MintPoll PROVE kind = "mint"
  BY <1>3 DEF MintSubmit, MintPay, MintPoll
<1>4. CASE MintBuyView # {} /\ Asks
  BY <1>4, AsksKeeps DEF MintBuyView, MintBox, Button, InForm, FormPhases
<1>5. ASSUME kind = "mint", call.at = "opened",
             Opens(IF row[call.record] = "done" /\ quoted[call.record] = 0
                   THEN "revealed" ELSE "waiting")
      PROVE  PagesInv'
  <2>1. /\ call.record \in mine /\ call.record \in Records
        /\ quoted[call.record] >= 1 \/ row[call.record] = "done"
    BY <1>5, OpenedRecord
  <2>2. row[call.record] = "done" => <<call.record, "done">> \in been
    BY <2>1 DEF PagesInv, Remembered
  <2>3. quoted[call.record] \in Nat
    BY <2>1, PagesTypesAre DEF PagesInv, PagesTyped
  <2>4. PICK ph \in PagePhases :
          /\ ph = IF row[call.record] = "done" /\ quoted[call.record] = 0
                  THEN "revealed" ELSE "waiting"
          /\ Opens(ph)
    BY <1>5 DEF PagePhases
  <2> QED
    BY <1>5, <2>1, <2>2, <2>3, <2>4, OpensKeeps
<1>6. CASE kind = "mint" /\ Refused
  BY <1>6, RefusedKeeps
<1>7. CASE kind = "mint" /\ PaysWithNoir(MintWaitView)
  BY <1>7, NoirKeeps DEF MintWaitView, Button
<1>8. CASE page.phase = "waiting" /\ AsksStatus
  BY <1>8, AskedAgainKeeps
<1>9. ASSUME kind = "mint", NEW a \in answers, Hears(a, MintAfter(a[2])) PROVE PagesInv'
  <2>1. PICK ph : ph = MintAfter(a[2]) /\ Hears(a, ph)
    BY <1>9
  <2> QED
    BY <1>9, <2>1, HeardKeeps, "revealed" \in DonePhases DEF MintAfter, DonePhases
<1> QED
  BY <1>1, <1>2, <1>3, <1>4, <1>5, <1>6, <1>7, <1>8, <1>9 DEF MintSubmit, MintPay, MintPoll

LEMMA ItemKeeps ==
  PagesInv /\ (ItemReload \/ ItemOwner \/ ItemBuy \/ ItemPay \/ ItemPoll \/ MarketMoves)
    => PagesInv'
<1> SUFFICES ASSUME PagesInv,
                    ItemReload \/ ItemOwner \/ ItemBuy \/ ItemPay \/ ItemPoll \/ MarketMoves
             PROVE  PagesInv'
  OBVIOUS
<1>1. CASE ItemReload \/ ItemOwner \/ MarketMoves
  BY <1>1, PagesStay DEF ItemReload, ItemOwner, MarketMoves
<1>2. kind = "item"
  BY DEF ItemReload, ItemOwner, ItemBuy, ItemPay, ItemPoll, MarketMoves
<1>3. CASE "buy" \in ItemView /\ Asks
  BY <1>3, AsksKeeps DEF ItemView, Button, InForm, FormPhases
<1>4. CASE Opens("waiting")
  <2>1. PICK ph \in PagePhases : ph = "waiting" /\ Opens(ph)
    BY <1>4 DEF PagePhases
  <2> QED
    BY <1>2, <2>1, OpenedRecord, OpensKeeps DEF Opens
<1>5. CASE Refused
  BY <1>2, <1>5, RefusedKeeps
<1>6. CASE PaysWithNoir(ItemView)
  BY <1>2, <1>6, NoirKeeps DEF ItemView, Button
<1>7. CASE page.phase = "waiting" /\ AsksStatus
  BY <1>7, AskedAgainKeeps
<1>8. ASSUME NEW a \in answers, Hears(a, ItemAfter(a[2])) PROVE PagesInv'
  <2>1. PICK ph : ph = ItemAfter(a[2]) /\ Hears(a, ph)
    BY <1>8
  <2> QED
    BY <1>2, <2>1, HeardKeeps, "filled" \in DonePhases DEF ItemAfter, DonePhases
<1> QED
  BY <1>1, <1>3, <1>4, <1>5, <1>6, <1>7, <1>8 DEF ItemBuy, ItemPay, ItemPoll

LEMMA NftPagesKeep == PagesInv /\ NftPagesNext => PagesInv'
  BY MintKeeps, ItemKeeps, MintMadeKeeps, RecordMadeKeeps, RecordSettlesKeeps, WalletSendsKeeps,
     LeaveKeeps DEF NftPagesNext, PurchaseMade

LEMMA PagesBegin == NftPagesInit => PagesInv
<1> SUFFICES ASSUME NftPagesInit PROVE PagesInv
  OBVIOUS
<1> USE DEF NftPagesInit, PagesInit
<1>1. FirstPhase \in FormPhases \cap PagePhases
  BY DEF FirstPhase, FormPhases, PagePhases
<1>2. /\ page \in PageRecord /\ page.phase \in FormPhases /\ page.record = NoRecord
      /\ ~page.sending /\ ~page.sent
  BY <1>1 DEF Opening, PageRecord
<1>3. call \in CallRecord /\ call.at = "none" /\ call.record = NoRecord
  BY DEF NoCall, CallRecord
<1>4. page.phase \notin DonePhases \cup {"waiting", "pay", "orchestrating", "failed", "result"}
  BY <1>2 DEF FormPhases, DonePhases
<1>5. kind = "sell" => page.phase = "form"
  BY DEF Opening, FirstPhase
<1>6. \A r \in Records : /\ row[r] = "none" /\ asked[r] = 0 /\ unheard[r] = 0
                         /\ sends[r] = 0 /\ troubles[r] = 0 /\ quoted[r] = 0
  OBVIOUS
<1>7. quotes["ZEC"] = 0 /\ quotes["WALLET"] = 0
  BY DEF Methods
<1>8. PagesTyped
  BY <1>2, <1>3 DEF PagesTyped, Statuses
<1>9. OwnRecords /\ Remembered /\ AnswersTrue
  BY <1>2, <1>3, <1>6 DEF OwnRecords, Remembered, AnswersTrue
<1>10. FormLeft /\ OneAsked /\ PaymentsCovered
  BY <1>2, <1>3, <1>6 DEF FormLeft, OneAsked, PaymentsCovered, InForm
<1>11. ButtonGone /\ SoldOnce
  BY <1>2, <1>3, <1>4, <1>5, <1>6 DEF ButtonGone, SoldOnce
<1>12. QuotesCovered /\ PhasesApart
  BY <1>2, <1>4, <1>7 DEF QuotesCovered, PhasesApart, PageTellsTruth, InForm, Quoting
<1> QED
  BY <1>8, <1>9, <1>10, <1>11, <1>12, PagesTypesAre DEF PagesInv

LEMMA PagesInvNext == PagesInv /\ [PagesNext]_nftPageVars => PagesInv'
<1>1. CASE PagesNext
  BY <1>1, LaunchpadKeeps, NftPagesKeep DEF PagesNext
<1>2. CASE UNCHANGED nftPageVars
  BY <1>2, PagesStay DEF nftPageVars
<1> QED
  BY <1>1, <1>2

LEMMA PagesKeep == NftPagesSpec => []PagesInv
  BY PagesBegin, PagesInvNext, PTL DEF NftPagesSpec

\* Every page of the browser that asks for a payment (the dialogs that buy and sell,
\* the pages that create, launch and mint, the page of a piece) says that its record
\* is done, deployed or failed only when that is so, for any records, however many
\* answers of the backend are under way and in whichever order they come.
THEOREM PageTellsTruthAlways == NftPagesSpec => []PageTellsTruth
  BY PagesKeep, PTL DEF PagesInv, PhasesApart

\* No page lets its user pay, or sell, more often for a record than it quoted an
\* amount and showed an error: not by a second click (payWithNoir, payWithWallet,
\* submit of SellModal.tsx), a late answer, a quote that comes when another is already
\* paid, or a return to the form.
THEOREM PaidOnceAlways == NftPagesSpec => []PaidOnceUnlessTold
<1>1. PagesInv => PaidOnceUnlessTold
  <2> SUFFICES ASSUME PagesInv, NEW r \in Records PROVE sends[r] <= quoted[r] + troubles[r]
    BY DEF PaidOnceUnlessTold
  <2>1. sends[r] \in Nat /\ asked[r] \in Nat /\ quoted[r] \in Nat /\ troubles[r] \in Nat
    BY PagesTypesAre DEF PagesInv, PagesTyped
  <2> QED
    BY <2>1 DEF PagesInv, PaymentsCovered
<1> QED
  BY PagesKeep, <1>1, PTL

-----------------------------------------------------------------------------
(* The types of every part.  What the invariants above do not say of them: *)
(* the flags and counters of the wallet service, what bounds the counts of *)
(* trades and the indices of the workers, the lists of the market page,    *)
(* what the pages know of a piece.                                         *)

WalletLeft ==
  /\ tries \in 0..MaxTries /\ walletFaults \in Nat
  /\ healing \in BOOLEAN /\ cooling \in BOOLEAN /\ bootedStray \in BOOLEAN
FeesLeft ==
  /\ paidOut \in [Accounts -> Nat] /\ trades \in [FeeTokens -> 0..MaxTrades]
  /\ disputed \subseteq Accounts /\ doubled \subseteq Accounts
  /\ \A t \in FeeTokens : reversal[t].at = "read" => trades[t] > 0

LEMMA WalletLeftStays ==
  ASSUME WalletLeft, UNCHANGED <<tries, walletFaults, healing, cooling, bootedStray>>
  PROVE  WalletLeft'
  BY DEF WalletLeft

LEMMA EnqueueLeaves == ASSUME WalletLeft, NEW r, Enqueue(r) PROVE WalletLeft'
  BY DEF Enqueue, WalletLeft

LEMMA WalletLeftNext == WalletLeft /\ WalletNext => WalletLeft'
<1> SUFFICES ASSUME WalletLeft, WalletNext PROVE WalletLeft'
  OBVIOUS
<1> USE DEF WalletLeft
<1>0. MaxTries \in Nat \ {0}
  BY WalletBoundsAssumption
<1>1. ASSUME NEW r \in Reads, ReadHeight(r) PROVE WalletLeft'
  BY <1>1, EnqueueLeaves DEF ReadHeight
<1>2. CASE CliConnectFails
  BY <1>0, <1>2 DEF CliConnectFails, WalletFault
<1>3. CASE CliSucceeds \/ CliRefused \/ CliFails
  <2>1. healing' \in BOOLEAN
    BY <1>3, Zenon DEF CliSucceeds, CliRefused, CliFails
  <2> QED
    BY <1>0, <1>3, <2>1 DEF CliSucceeds, CliRefused, CliFails, WalletFault, Dequeue
<1>5. CASE CliFindsDamage
  <2>1. healing' \in BOOLEAN /\ cooling' \in BOOLEAN
    BY <1>5, Zenon DEF CliFindsDamage
  <2> QED
    BY <1>0, <1>5, <2>1 DEF CliFindsDamage
<1>6. CASE CacheDamaged \/ Cooled
  <2>1. cooling' \in BOOLEAN
    BY <1>6, Zenon DEF CacheDamaged, Cooled
  <2> QED
    BY <1>6, <2>1 DEF CacheDamaged, WalletFault, Cooled
<1>7. CASE RestartWallet
  <2>1. bootedStray' \in BOOLEAN /\ healing' \in BOOLEAN /\ cooling' \in BOOLEAN
    BY <1>7, Zenon DEF RestartWallet
  <2>2. tries' = 0 /\ walletFaults' = walletFaults
    BY <1>7 DEF RestartWallet
  <2> QED
    BY <1>0, <2>1, <2>2
<1> QED
  BY <1>1, <1>2, <1>3, <1>5, <1>6, <1>7 DEF WalletNext

LEMMA PayoutLeftNext ==
  ASSUME PayInv, WalletLeft, FeesLeft, [PayoutNext]_payoutVars
  PROVE  WalletLeft' /\ FeesLeft'
<1> USE DEF feeRows, feeHistory
<1>0. /\ FeesTyped /\ MaxTrades \in Nat
      /\ reversal \in [FeeTokens -> [at : {"idle", "read"}, accrued : Int, total : Nat]]
  BY FeesAssumption DEF PayInv, FeesInv, FeesTyped
<1>a. UNCHANGED walletVars => WalletLeft'
  BY WalletLeftStays DEF walletVars
<1>b. UNCHANGED <<paidOut, trades, reversal, disputed, doubled>> => FeesLeft'
  BY DEF FeesLeft
<1>1. ASSUME NEW t \in FeeTokens, Trade(t) PROVE WalletLeft' /\ FeesLeft'
  <2>1. trades' = [trades EXCEPT ![t] = @ + 1] /\ trades[t] < MaxTrades /\ trades[t] \in 0..MaxTrades
    BY <1>1 DEF Trade, FeesLeft
  <2>2. trades[t] + 1 \in 0..MaxTrades /\ trades[t] + 1 > 0
    BY <1>0, <2>1
  <2> QED
    BY <1>1, <1>a, <2>1, <2>2 DEF Trade, FeesLeft
<1>2. ASSUME NEW t \in FeeTokens, ReadReversal(t) PROVE WalletLeft' /\ FeesLeft'
  BY <1>0, <1>2, <1>a DEF ReadReversal, FeesLeft
<1>3. ASSUME NEW t \in FeeTokens, WriteReversal(t) PROVE WalletLeft' /\ FeesLeft'
  <2>1. trades' = [trades EXCEPT ![t] = @ - 1] /\ trades[t] > 0 /\ trades[t] \in 0..MaxTrades
        /\ reversal' = [reversal EXCEPT ![t] = NoReversal]
    BY <1>3 DEF WriteReversal, FeesLeft
  <2>2. trades[t] - 1 \in 0..MaxTrades
    BY <1>0, <2>1
  <2>3. t \in Accounts /\ Platform \in Accounts
    BY DEF Accounts
  <2>4. disputed' \subseteq Accounts
    BY <1>3, <2>3 DEF WriteReversal, FeesLeft
  <2>5. \A u \in FeeTokens : reversal'[u].at = "read" => trades'[u] > 0
    BY <1>0, <2>1 DEF FeesLeft, NoReversal
  <2> QED
    BY <1>3, <1>a, <2>1, <2>2, <2>4, <2>5 DEF WriteReversal, FeesLeft
<1>4. ASSUME NEW p \in Payers, NEW due, TakeInHand(p, due) PROVE WalletLeft' /\ FeesLeft'
  BY <1>4, <1>a DEF TakeInHand, FeesLeft
<1>5. ASSUME NEW p \in Payers, RecordPayout(p) PROVE WalletLeft' /\ FeesLeft'
  <2>1. payer[p].send \in Sends
    BY <1>0, <1>5 DEF FeesTyped, PayersTyped, RecordPayout
  <2>2. payout[payer[p].send].amount \in Nat
    BY <1>0, <2>1 DEF FeesTyped, PayoutRow
  <2>3. paidOut' = [paidOut EXCEPT ![payout[payer[p].send].to] = @ + payout[payer[p].send].amount]
    BY <1>5 DEF RecordPayout
  <2>4. paidOut' \in [Accounts -> Nat]
    <3>1. ASSUME NEW to, NEW n \in Nat PROVE [paidOut EXCEPT ![to] = @ + n] \in [Accounts -> Nat]
      <4>1. CASE to \in Accounts
        <5>1. paidOut[to] + n \in Nat
          BY <4>1 DEF FeesLeft
        <5> QED
          BY <5>1 DEF FeesLeft
      <4>2. CASE to \notin Accounts
        BY <4>2 DEF FeesLeft
      <4> QED
        BY <4>1, <4>2
    <3> QED
      BY <2>2, <2>3, <3>1
  <2> QED
    BY <1>5, <1>a, <2>4 DEF RecordPayout, FeesLeft
<1>6. ASSUME NEW p \in Payers, DropPayout(p) \/ FinishPayer(p) PROVE WalletLeft' /\ FeesLeft'
  BY <1>6, <1>a, <1>b DEF DropPayout, FinishPayer
<1>7. ASSUME NEW p \in Payers, NEW a \in Accounts, PayAccount(p, a) PROVE WalletLeft' /\ FeesLeft'
  <2>1. PICK s : SendAccepted(s) \/ SendRefused(s)
    BY <1>7 DEF PayAccount
  <2>2. WalletLeft'
    BY <2>1, EnqueueLeaves, WalletLeftStays DEF SendAccepted, SendRefused
  <2> QED
    BY <1>7, <1>b, <2>2 DEF PayAccount
<1>8. CASE RestartBackend
  <2>1. \A t \in FeeTokens : reversal'[t].at = "idle"
    BY <1>8 DEF RestartBackend, NoReversal
  <2> QED
    BY <1>8, <1>a, <2>1 DEF RestartBackend, FeesLeft
<1>9. CASE WalletNext /\ UNCHANGED feeVars
  BY <1>9, <1>b, WalletLeftNext DEF feeVars
<1>10. CASE UNCHANGED payoutVars
  BY <1>10, <1>a, <1>b DEF payoutVars, feeVars
<1> QED
  BY <1>1, <1>2, <1>3, <1>4, <1>5, <1>6, <1>7, <1>8, <1>9, <1>10
     DEF PayoutNext, StartRun, StartWithdrawal

LEMMA PayoutTypes == ASSUME PayInv, WalletLeft, FeesLeft PROVE PayoutTypeOK
  BY DEF PayInv, WalletInv, FlagsTyped, BootLoads, FeesInv, FeesTyped, PayersTyped, PayerRow,
         PayoutRow, SendsInv, WalletLeft, FeesLeft, PayoutTypeOK, WalletTypeOK

LEMMA PayoutLeftStart == ASSUME PayoutInit PROVE WalletLeft /\ FeesLeft
<1>1. MaxTries \in Nat \ {0} /\ MaxTrades \in Nat
  BY WalletBoundsAssumption, FeesAssumption
<1>2. WalletLeft
  <2>1. healing \in BOOLEAN /\ cooling \in BOOLEAN /\ bootedStray \in BOOLEAN
    BY Zenon DEF PayoutInit, WalletInit
  <2> QED
    BY <1>1, <2>1 DEF PayoutInit, WalletInit, WalletLeft
<1>3. \A t \in FeeTokens : reversal[t].at = "idle"
  BY DEF PayoutInit, NoReversal
<1>4. FeesLeft
  BY <1>1, <1>3 DEF PayoutInit, FeesLeft
<1> QED
  BY <1>2, <1>4

-----------------------------------------------------------------------------
\* The pool: the workers' indices stay below what a batch can reach.
LEMMA BatchSmall == ASSUME topUp \in TopUp PROVE BatchSize \in Int /\ BatchSize <= TopUpSize
<1>1. /\ 1 + AddressWorkerUrls \in Int /\ PoolTarget \in Int /\ TopUpSize \in Int /\ TopUpAttempts \in Int
      /\ topUp.count \in Nat /\ topUp.generated \in Nat /\ topUp.attempts \in Nat
  BY PoolSizesAssumption DEF TopUp
<1>2. /\ PoolTarget - topUp.count \in Int /\ TopUpSize - topUp.generated \in Int
      /\ TopUpAttempts - topUp.attempts \in Int /\ TopUpSize - topUp.generated <= TopUpSize
  BY <1>1
<1>3. BatchSize \in Int /\ BatchSize <= TopUpSize - topUp.generated
  BY <1>1, <1>2, SmallestBelow DEF BatchSize
<1> QED
  BY <1>1, <1>2, <1>3

\* No worker is called more often than there are calls.
LEMMA CallsFew == ASSUME NEW w, NEW k \in Nat
                  PROVE  Cardinality(CallsTo(w, k)) \in 0..k
<1>1. IsFiniteSet(1..k) /\ CallsTo(w, k) \subseteq 1..k /\ Cardinality(1..k) = k
  BY FS_Interval DEF CallsTo
<1> QED
  BY <1>1, FS_Subset, FS_CardinalityType, CallsCounted

\* A worker that has not come to its last address has room for a batch.
LEMMA IndexRoom == ASSUME NEW i \in Indices, i < MaxIndex, NEW n \in 0..TopUpSize
                   PROVE  i + n \in Indices
  BY PoolSizesAssumption, PoolBoundsAssumption DEF Indices

LEMMA PoolTypes == ASSUME PoolInv, PoolTypeOK, [PoolNext]_poolVars PROVE PoolTypeOK'
<1> USE DEF PoolTypeOK
<1>0. /\ TopUpSize \in Nat \ {0} /\ MaxIndex \in Nat /\ 0 \in Indices /\ PoolInv'
      /\ NumWorkers \in Nat \ {0} /\ IdleTopUp.batch = {} /\ topUp \in TopUp
  BY PoolSizesAssumption, PoolBoundsAssumption, WorkersThere, PoolInvNext
     DEF Indices, IdleTopUp, PoolInv, PoolTyped
<1>1. /\ poolRow' \in [Indices -> {"absent", "free", "claimed"}] /\ turn' \in Workers
      /\ asking' \in [PoolOrders -> Asking] /\ topUp' \in TopUp
  BY <1>0 DEF PoolInv, PoolTyped
<1>2. ASSUME poolFaults' \in Nat, topUp'.batch \subseteq Indices \X Nat,
             nextIndex' \in [Workers -> Indices]
      PROVE  PoolTypeOK'
  BY <1>1, <1>2 DEF Asking, TopUp
<1>3. ASSUME UNCHANGED poolFaults \/ PoolFault PROVE poolFaults' \in Nat
  BY <1>3 DEF PoolFault
<1>4. ASSUME topUp' = topUp \/ topUp' = IdleTopUp \/ topUp' = [IdleTopUp EXCEPT !.at = "count"]
             \/ (\E at : topUp' = [topUp EXCEPT !.at = at])
      PROVE  topUp'.batch \subseteq Indices \X Nat
  BY <1>0, <1>4 DEF IdleTopUp
<1>5. ASSUME NEW o \in PoolOrders, DemandAnswered(o) PROVE PoolTypeOK'
  <2>1. asking[o].worker \in Workers /\ nextIndex[asking[o].worker] < MaxIndex
        /\ nextIndex' = [nextIndex EXCEPT ![asking[o].worker] = @ + 1] /\ UNCHANGED poolFaults
        /\ NudgeTopUp
    BY <1>5 DEF DemandAnswered
  <2>2. nextIndex[asking[o].worker] + 1 \in Indices
    BY <1>0, <2>1, IndexRoom
  <2> QED
    BY <1>2, <1>3, <1>4, <2>1, <2>2 DEF NudgeTopUp
<1>6. ASSUME NEW o \in PoolOrders,
             \/ AskAddress(o) \/ DemandAddress(o) \/ DemandFails(o)
             \/ \E i \in Indices : ClaimAddress(o, i)
      PROVE  PoolTypeOK'
  BY <1>2, <1>3, <1>4, <1>6 DEF AskAddress, DemandAddress, DemandFails, ClaimAddress, NudgeTopUp
<1>7. CASE BatchAnswered
  <2> DEFINE n == BatchSize
  <2>1. n \in 0..TopUpSize /\ n \in Nat
    BY <1>0, <1>7, BatchSmall DEF BatchAnswered
  <2>2. /\ nextIndex' = [w \in Workers |-> nextIndex[w] + Cardinality(CallsTo(w, n))]
        /\ topUp' = [topUp EXCEPT !.at = "insert", !.attempts = @ + n,
             !.batch = {<<nextIndex[CallWorker(k)] + Cardinality(CallsTo(CallWorker(k), k)) - 1, k>>
                          : k \in 1..n}]
        /\ UNCHANGED poolFaults /\ \A w \in Workers : nextIndex[w] < MaxIndex
    BY <1>7 DEF BatchAnswered
  <2> HIDE DEF n
  <2>3. ASSUME NEW w \in Workers PROVE nextIndex[w] + Cardinality(CallsTo(w, n)) \in Indices
    <3>1. Cardinality(CallsTo(w, n)) \in 0..TopUpSize
      BY <1>0, <2>1, CallsFew
    <3> QED
      BY <2>2, <3>1, IndexRoom
  <2>4. ASSUME NEW k \in 1..n
        PROVE  nextIndex[CallWorker(k)] + Cardinality(CallsTo(CallWorker(k), k)) - 1 \in Indices
    <3>1. CallWorker(k) \in Workers /\ k \in Nat
      <4>1. k - 1 \in Nat /\ turn + (k - 1) = turn + k - 1 /\ turn \in Workers
        BY <2>1 DEF Workers
      <4> QED
        BY <2>1, <4>1, WorkerCalled DEF CallWorker
    <3>2. Cardinality(CallsTo(CallWorker(k), k)) \in 0..k
      BY <3>1, CallsFew
    <3>3. Cardinality(CallsTo(CallWorker(k), k)) # 0
      <4>1. k \in CallsTo(CallWorker(k), k) /\ IsFiniteSet(CallsTo(CallWorker(k), k))
        <5>1. IsFiniteSet(1..k) /\ k \in 1..k
          BY <3>1, FS_Interval
        <5> QED
          BY <5>1, FS_Subset DEF CallsTo
      <4> QED
        BY <4>1, FS_EmptySet
    <3>4. Cardinality(CallsTo(CallWorker(k), k)) - 1 \in 0..TopUpSize
      BY <1>0, <2>1, <3>2, <3>3
    <3>5. nextIndex[CallWorker(k)] \in Indices /\ nextIndex[CallWorker(k)] < MaxIndex
      BY <2>2, <3>1
    <3> DEFINE c == Cardinality(CallsTo(CallWorker(k), k)) - 1
    <3>6. nextIndex[CallWorker(k)] + c \in Indices
      BY <3>4, <3>5, IndexRoom
    <3>7. nextIndex[CallWorker(k)] \in Int
      BY <1>0, <3>5 DEF Indices
    <3> QED
      BY <3>2, <3>6, <3>7
  <2>5. topUp'.batch \subseteq Indices \X Nat
    BY <1>0, <2>1, <2>2, <2>4 DEF TopUp
  <2> QED
    BY <1>2, <1>3, <2>2, <2>3, <2>5
<1>8. CASE BatchFails
  <2> DEFINE n == BatchSize
  <2>1. n \in 0..TopUpSize /\ n \in Nat
    BY <1>0, <1>8, BatchSmall DEF BatchFails
  <2>2. PICK failed : nextIndex' = [w \in Workers |->
          nextIndex[w] + Cardinality(CallsTo(w, n) \ {failed})]
    BY <1>8 DEF BatchFails
  <2>3. PoolFault /\ topUp' = IdleTopUp /\ \A w \in Workers : nextIndex[w] < MaxIndex
    BY <1>8 DEF BatchFails
  <2> HIDE DEF n
  <2>4. ASSUME NEW w \in Workers PROVE nextIndex[w] + Cardinality(CallsTo(w, n) \ {failed}) \in Indices
    <3>1. Cardinality(CallsTo(w, n) \ {failed}) \in 0..n
      BY <2>1, CallsAnswered
    <3>2. Cardinality(CallsTo(w, n) \ {failed}) \in 0..TopUpSize
      BY <1>0, <2>1, <3>1
    <3> QED
      BY <2>3, <3>2, IndexRoom
  <2> QED
    BY <1>2, <1>3, <1>4, <2>2, <2>3, <2>4
<1>9. CASE InsertAddress
  <2>1. PICK next : topUp'.batch = topUp.batch \ {next}
    <3>1. \E next \in topUp.batch :
            \/ topUp' = [topUp EXCEPT !.batch = @ \ {next}, !.generated = @ + 1, !.count = @ + 1]
            \/ topUp' = [topUp EXCEPT !.batch = @ \ {next}]
      BY <1>0, <1>9 DEF InsertAddress, TopUp
    <3> QED
      BY <1>0, <3>1 DEF TopUp
  <2> QED
    BY <1>2, <1>3, <1>9, <2>1 DEF InsertAddress
<1>10. CASE CountPool
  <2>1. topUp'.batch = topUp.batch
    BY <1>0, <1>10 DEF CountPool, TopUp
  <2> QED
    BY <1>2, <1>3, <1>10, <2>1 DEF CountPool
<1>11. CASE NextBatch \/ EndTopUp \/ TopUpThrows \/ TopUpTimer
  BY <1>2, <1>3, <1>4, <1>11 DEF NextBatch, EndTopUp, TopUpThrows, TopUpTimer, NudgeTopUp
<1>12. ASSUME NEW w \in Workers, ResetWorker(w) PROVE PoolTypeOK'
  BY <1>0, <1>2, <1>3, <1>4, <1>12 DEF ResetWorker
<1>13. CASE RestartPool
  BY <1>2, <1>3, <1>4, <1>13 DEF RestartPool
<1>14. CASE UNCHANGED poolVars
  BY <1>2, <1>3, <1>4, <1>14 DEF poolVars
<1> QED
  BY <1>5, <1>6, <1>7, <1>8, <1>9, <1>10, <1>11, <1>12, <1>13, <1>14 DEF PoolNext

LEMMA PoolTypesStart == ASSUME PoolInit PROVE PoolTypeOK
<1>1. 0 \in Workers /\ 0 \in Indices
  BY PoolSizesAssumption, PoolBoundsAssumption, WorkersThere DEF Workers, Indices
<1> QED
  BY <1>1 DEF PoolInit, PoolTypeOK, IdleTopUp

-----------------------------------------------------------------------------
\* Signing in with X.
LEMMA XTypes == XTypeOK /\ [XNext]_xVars => XTypeOK'
<1> SUFFICES ASSUME XTypeOK, [XNext]_xVars PROVE XTypeOK'
  OBVIOUS
<1> USE DEF XTypeOK, cookieVars, oauthVars, mintPageVars, xLoginVars, statusVars, xStatusVars
<1>0. /\ PendingTtl \in Nat /\ VerifiedTtl \in Nat /\ MaxXTime \in Nat /\ MaxReads \in Nat
      /\ time \in Nat /\ NoAccount \in Somebody
  BY XTimesAssumption DEF Somebody
<1>1. ASSUME NEW cookie \in [account : Somebody, exp : Nat] PROVE Session(cookie) \in Somebody
  BY <1>0 DEF Session
<1>2. CASE XLoginNext /\ UNCHANGED xStatusVars
  <2>1. ASSUME NEW a \in Attempts, Start(a) PROVE XTypeOK'
    <3>1. [attempt |-> a, exp |-> time + PendingTtl] \in [attempt : Attempts \cup {NoAttempt}, exp : Nat]
      BY <1>0
    <3>2. mintTab' \in [open : BOOLEAN, shown : Somebody, since : BOOLEAN, claiming : BOOLEAN]
      <4>1. NoPage \in [open : BOOLEAN, shown : Somebody, since : BOOLEAN, claiming : BOOLEAN]
        BY <1>0, Zenon DEF NoPage
      <4> QED
        BY <2>1, <4>1 DEF Start
    <3> QED
      BY <1>2, <2>1, <3>1, <3>2 DEF Start
  <2>2. ASSUME NEW a \in Attempts, Consents(a) \/ Callback(a) PROVE XTypeOK'
    BY <1>2, <2>2 DEF Consents, Callback
  <2>3. ASSUME NEW a \in Attempts, CallbackAnswered(a) PROVE XTypeOK'
    <3>1. CASE /\ attempt[a] \in XAccounts
               /\ attempt' = [attempt EXCEPT ![a] = "spent"]
               /\ logins' = logins \cup {[account |-> attempt[a], at |-> time]}
               /\ verified' = [account |-> attempt[a], exp |-> time + VerifiedTtl]
               /\ pending' = NoPending
               /\ reads' = {[r EXCEPT !.since = TRUE] : r \in reads}
               /\ mintTab' = [mintTab EXCEPT !.since = TRUE]
      <4>1. verified' \in [account : Somebody, exp : Nat]
        BY <1>0, <3>1 DEF Somebody
      <4>2. pending' \in [attempt : Attempts \cup {NoAttempt}, exp : Nat]
        BY <3>1 DEF NoPending
      <4>3. logins' \subseteq [account : XAccounts, at : 0 .. MaxXTime]
        BY <3>1
      <4>4. reads' \subseteq [account : Somebody, since : BOOLEAN]
        <5>1. ASSUME NEW r \in reads
              PROVE  [r EXCEPT !.since = TRUE] \in [account : Somebody, since : BOOLEAN]
          BY Zenon
        <5> QED
          BY <3>1, <5>1
      <4>5. mintTab' \in [open : BOOLEAN, shown : Somebody, since : BOOLEAN, claiming : BOOLEAN]
        BY <3>1
      <4> QED
        BY <1>2, <2>3, <3>1, <4>1, <4>2, <4>3, <4>4, <4>5 DEF CallbackAnswered
    <3>2. CASE /\ attempt' \in {attempt, [attempt EXCEPT ![a] = "spent"]}
               /\ UNCHANGED <<cookieVars, logins, reads, mintTab>>
      BY <1>2, <2>3, <3>2 DEF CallbackAnswered
    <3> QED
      BY <2>3, <3>1, <3>2 DEF CallbackAnswered
  <2>4. CASE AsksSession
    <3>1. Session(verified) \in Somebody
      BY <1>1
    <3>2. sessionsAsked' \in 0 .. MaxReads
      BY <1>0, <2>4 DEF AsksSession
    <3>3. reads' \subseteq [account : Somebody, since : BOOLEAN]
      <4>1. [account |-> Session(verified), since |-> FALSE] \in [account : Somebody, since : BOOLEAN]
        BY <3>1, Zenon
      <4> QED
        BY <2>4, <4>1 DEF AsksSession
    <3> QED
      BY <1>2, <2>4, <3>2, <3>3 DEF AsksSession
  <2>5. CASE HearsSession
    <3>1. PICK r \in reads :
            /\ reads' = reads \ {r}
            /\ mintTab' = IF mintTab.open
                          THEN [mintTab EXCEPT !.shown = r.account, !.since = r.since] ELSE mintTab
      BY <2>5 DEF HearsSession
    <3>2. r.account \in Somebody /\ r.since \in BOOLEAN
      BY Zenon
    <3>3. mintTab' \in [open : BOOLEAN, shown : Somebody, since : BOOLEAN, claiming : BOOLEAN]
      BY <3>1, <3>2
    <3> QED
      BY <1>2, <2>5, <3>1, <3>3 DEF HearsSession
  <2>6. CASE ClaimByX
    <3>1. /\ mintTab.shown \in Somebody /\ mintTab.since \in BOOLEAN
          /\ verified \in [account : Somebody, exp : Nat]
      OBVIOUS
    <3>2. claims' \subseteq [cookie : [account : Somebody, exp : Nat], shown : Somebody,
                             since : BOOLEAN]
      BY <2>6, <3>1 DEF ClaimByX
    <3> QED
      BY <1>2, <2>6, <3>2 DEF ClaimByX
  <2>7. CASE WizardSubmits
    <3>1. claims' \subseteq [cookie : [account : Somebody, exp : Nat], shown : Somebody,
                             since : BOOLEAN]
      <4>1. [cookie |-> verified, shown |-> NoAccount, since |-> FALSE]
              \in [cookie : [account : Somebody, exp : Nat], shown : Somebody, since : BOOLEAN]
        BY <1>0, Zenon
      <4> QED
        BY <2>7, <4>1 DEF WizardSubmits
    <3> QED
      BY <1>2, <2>7, <3>1 DEF WizardSubmits
  <2>8. ASSUME NEW c \in claims, Relay(c),
               mintTab' = [mintTab EXCEPT !.claiming = FALSE] \/ UNCHANGED mintTab
        PROVE  XTypeOK'
    <3>1. /\ c.cookie \in [account : Somebody, exp : Nat] /\ c.shown \in Somebody
          /\ c.since \in BOOLEAN /\ Session(c.cookie) \in Somebody
      BY <1>1
    <3>2. [account |-> Session(c.cookie), at |-> time, shown |-> c.shown, since |-> c.since]
            \in [account : Somebody, at : 0 .. MaxXTime, shown : Somebody, since : BOOLEAN]
      BY <3>1
    <3>3. claims' \subseteq claims /\ relayed' \in [account : Somebody, at : 0 .. MaxXTime,
                                                    shown : Somebody, since : BOOLEAN]
      BY <2>8, <3>2 DEF Relay
    <3> QED
      BY <1>2, <2>8, <3>3 DEF Relay
  <2>9. CASE ClaimRelayed \/ SubmitRelayed
    BY <2>8, <2>9 DEF ClaimRelayed, SubmitRelayed
  <2>10. CASE Elapse
    BY <1>0, <1>2, <2>10 DEF Elapse
  <2> QED
    BY <1>2, <2>1, <2>2, <2>3, <2>4, <2>5, <2>6, <2>7, <2>9, <2>10 DEF XLoginNext
<1>3. CASE XStatusNext /\ UNCHANGED xLoginVars
  <2>1. ASSUME NEW c \in XAccounts, TypeHandle(c) PROVE XTypeOK'
    BY <1>3, <2>1 DEF TypeHandle, Somebody
  <2>2. ASSUME NEW c \in XAccounts, EntryMoves(c) PROVE XTypeOK'
    <3>1. PICK s \in Entries : listing' = [listing EXCEPT ![c] = s] /\ stood' = stood \cup {<<c, s>>}
      BY <2>2 DEF EntryMoves, Entries
    <3> QED
      BY <1>3, <2>2, <3>1 DEF EntryMoves
  <2>3. CASE CheckStatus
    <3>1. typed \in XAccounts /\ listing[typed] \in Entries
      BY <2>3 DEF CheckStatus, Somebody
    <3> QED
      BY <1>3, <2>3, <3>1 DEF CheckStatus
  <2>4. CASE StatusShown
    BY <1>3, <2>4 DEF StatusShown
  <2> QED
    BY <1>3, <2>1, <2>2, <2>3, <2>4 DEF XStatusNext
<1>4. CASE UNCHANGED xVars
  BY <1>4 DEF xVars
<1> QED
  BY <1>2, <1>3, <1>4 DEF XNext

LEMMA XTypesStart == XInit => XTypeOK
<1>1. MaxXTime \in Nat /\ MaxReads \in Nat /\ NoAccount \in Somebody
  BY XTimesAssumption DEF Somebody
<1> QED
  BY <1>1 DEF XInit, XTypeOK, NoPending, NoVerified, NoPage, NotRelayed, NotChecked, Entries

-----------------------------------------------------------------------------
\* What the pages know of a piece.
KnownTyped ==
  /\ piece \in PieceStates
  /\ seen \in [piece : PieceStates \cup {"loading", "missing"}, limits : Limits]
  /\ loads \subseteq PieceStates \cup {"asked"}

LEMMA KnownTypes == KnownTyped /\ [PagesNext]_nftPageVars => KnownTyped'
<1> SUFFICES ASSUME KnownTyped, [PagesNext]_nftPageVars PROVE KnownTyped'
  OBVIOUS
<1> USE DEF KnownTyped
<1>1. UNCHANGED knownVars => KnownTyped'
  BY DEF knownVars
<1>2. NothingSeen \in [piece : PieceStates \cup {"loading", "missing"}, limits : Limits]
      /\ FirstLoads \subseteq PieceStates \cup {"asked"}
  BY DEF NothingSeen, Limits, FirstLoads
<1>3. CASE MintLoads
  BY <1>3 DEF MintLoads
<1>4. CASE MintSubmit \/ MintPay \/ MintPoll \/ ItemBuy \/ ItemPay
  BY <1>1, <1>4 DEF MintSubmit, MintPay, MintPoll, ItemBuy, ItemPay
<1>5. CASE MintClaim
  <2>1. PICK e \in {"free", "used"} : seen' = [seen EXCEPT !.limits.entry = e]
    BY <1>5 DEF MintClaim
  <2>2. seen' \in [piece : PieceStates \cup {"loading", "missing"}, limits : Limits]
    BY <2>1 DEF Limits
  <2> QED
    BY <1>5, <2>2 DEF MintClaim
<1>6. CASE ItemReload
  BY <1>6 DEF ItemReload
<1>7. CASE ItemOwner
  BY <1>7 DEF ItemOwner, PieceStates
<1>8. CASE ItemPoll
  BY <1>8 DEF ItemPoll
<1>9. CASE MarketMoves
  BY <1>9 DEF MarketMoves, PieceStates
<1>10. ASSUME NEW r \in Records,
              \/ MintMade(r) \/ PurchaseMade(r)
              \/ /\ UNCHANGED <<seen, loads>>
                 /\ piece' = IF kind = "item" /\ row'[r] = "done" THEN "mine" ELSE piece
              \/ UNCHANGED knownVars
       PROVE  KnownTyped'
  BY <1>1, <1>10 DEF MintMade, PurchaseMade, PieceStates
<1>11. CASE seen' = NothingSeen /\ loads' = FirstLoads /\ UNCHANGED piece
  BY <1>2, <1>11
<1>12. CASE LaunchpadNext /\ UNCHANGED knownVars
  BY <1>1, <1>12
<1>13. CASE UNCHANGED nftPageVars
  BY <1>1, <1>13 DEF nftPageVars
<1> QED
  BY <1>3, <1>4, <1>5, <1>6, <1>7, <1>8, <1>9, <1>10, <1>11, <1>12, <1>13
     DEF PagesNext, NftPagesNext

LEMMA KnownStart == NftPagesInit => KnownTyped
  BY DEF NftPagesInit, KnownTyped, NothingSeen, FirstLoads, Limits, PieceStates

LEMMA NftPagesTypes == PagesInv /\ KnownTyped => NftPagesTypeOK
  BY DEF PagesInv, KnownTyped, NftPagesTypeOK

-----------------------------------------------------------------------------
\* The market page.
LEMMA MarketBounds == MaxPurchases \in Nat /\ MaxFetches \in Nat /\ MaxCrafts \in Nat
  BY PageBoundsAssumption

LEMMA ListsAre ==
  /\ \A l : l \in Lists <=> DOMAIN l \subseteq Pieces /\ l \in [DOMAIN l -> Standings]
  /\ Nothing \in Lists
  /\ (state \in [Pieces -> Standings] => \A f : Answer(f) \in Lists)
<1>1. \A l : l \in Lists <=> DOMAIN l \subseteq Pieces /\ l \in [DOMAIN l -> Standings]
  BY DEF Lists
<1>2. Nothing \in Lists
  BY <1>1 DEF Nothing
<1>3. ASSUME state \in [Pieces -> Standings], NEW f PROVE Answer(f) \in Lists
  BY <1>1, <1>3 DEF Answer
<1> QED
  BY <1>1, <1>2, <1>3

\* What MarketPageInv leaves.
ListsTyped ==
  /\ state \in [Pieces -> Standings] /\ DOMAIN bought \in {1 .. n : n \in 0 .. MaxPurchases}
  /\ filter \in Filters /\ lists \subseteq Lists /\ shown \in Lists
  /\ rows \in [Pieces -> [phase : RowPhases, purchase : PurchaseIds \cup {NoId}]]
  /\ orders \subseteq Pieces \X (PurchaseIds \cup {NoId})
  /\ strays \subseteq Pieces /\ replaced \in BOOLEAN
  /\ fetches \in 0 .. MaxFetches /\ refetches \in 0 .. fetches

LEMMA MarketPageTypes == MarketPageInv /\ ListsTyped /\ forge.crafts \in 0 .. MaxCrafts => MarketPageTypeOK
<1> SUFFICES ASSUME MarketPageInv, ListsTyped, forge.crafts \in 0 .. MaxCrafts PROVE MarketPageTypeOK
  OBVIOUS
<1>1. \A n \in DOMAIN bought :
        bought[n] \in [piece : Pieces, status : {"pending", "done", "failed"}]
  <2>1. bought \in Seq(PurchaseRecords)
    BY DEF MarketPageInv, MarketTyped
  <2>2. \A n \in DOMAIN bought : bought[n] \in PurchaseRecords
    BY <2>1
  <2> QED
    BY <2>2 DEF PurchaseRecords
<1>2. forge \in [crafting : BOOLEAN, message : {"none", "ok", "error"},
                at : {"none", "asked", "made", "refused"}, crafts : 0 .. MaxCrafts, made : BOOLEAN]
  BY DEF MarketPageInv, ForgeStands
<1> QED
  BY <1>1, <1>2 DEF MarketPageInv, MarketTyped, ListsTyped, MarketPageTypeOK, RowPhases

LEMMA LengthBounded ==
  ASSUME NEW S, NEW s \in Seq(S), NEW b \in Nat, DOMAIN s \in {1 .. n : n \in 0 .. b}
  PROVE  Len(s) \in 0 .. b
<1> DEFINE length == Len(s)
<1>1. length \in Nat /\ DOMAIN s = 1 .. length
  OBVIOUS
<1> HIDE DEF length
<1>2. PICK n \in 0 .. b : 1 .. length = 1 .. n
  BY <1>1
<1>3. length <= n
  <2>1. CASE length = 0
    BY <2>1
  <2>2. CASE length # 0
    <3>1. length \in 1 .. n
      BY <1>1, <1>2, <2>2
    <3> QED
      BY <3>1
  <2> QED
    BY <2>1, <2>2
<1>4. length \in 0 .. b
  BY <1>1, <1>3
<1> QED
  BY <1>4 DEF length


LEMMA ListsTypedNext ==
  ASSUME MarketPageInv, ListsTyped, [MarketPageNext]_marketPageVars
  PROVE  ListsTyped'
<1> USE DEF ListsTyped, databaseVars, listVars, dialogVars
<1>0. /\ MaxPurchases \in Nat /\ MaxFetches \in Nat
      /\ bought \in Seq(PurchaseRecords) /\ Len(bought) \in Nat /\ DOMAIN bought = 1 .. Len(bought)
      /\ selected \subseteq Pieces /\ dialog \in BOOLEAN
      /\ verdicts \subseteq Pieces \X {"pending", "done", "failed"}
  BY MarketBounds DEF MarketPageInv, MarketTyped
<1>a. Len(bought) \in 0 .. MaxPurchases
  BY <1>0, LengthBounded
<1>b. ASSUME NEW p \in Pieces, Reserves(p)
      PROVE  /\ state' \in [Pieces -> Standings]
             /\ DOMAIN bought' \in {1 .. n : n \in 0 .. MaxPurchases}
             /\ Len(bought) + 1 \in PurchaseIds
  <2>1. [piece |-> p, status |-> "pending"] \in PurchaseRecords
    BY DEF PurchaseRecords
  <2>2. Len(bought') = Len(bought) + 1 /\ DOMAIN bought' = 1 .. Len(bought')
    <3>1. bought' = Append(bought, [piece |-> p, status |-> "pending"])
      BY <1>b DEF Reserves
    <3>2. bought' \in Seq(PurchaseRecords) /\ Len(bought') = Len(bought) + 1
      BY <1>0, <2>1, <3>1, QueueEdges
    <3> QED
      BY <3>2
  <2>3. Len(bought) + 1 \in 0 .. MaxPurchases /\ Len(bought) + 1 \in PurchaseIds
    <3>1. Len(bought) < MaxPurchases
      BY <1>b DEF Reserves
    <3>2. MaxPurchases \in Nat
      BY <1>0
    <3> QED
      BY <1>a, <3>1, <3>2 DEF PurchaseIds
  <2>4. state' \in [Pieces -> Standings]
    BY <1>b DEF Reserves, Standings
  <2> QED
    BY <2>2, <2>3, <2>4
<1>c. ASSUME NEW f \in Filters, Fetch(f)
      PROVE  /\ filter' \in Filters /\ lists' \subseteq Lists /\ shown' \in Lists
             /\ fetches' \in 0 .. MaxFetches
             /\ refetches' \in {refetches, refetches + 1} => refetches' \in 0 .. fetches'
  BY <1>0, <1>c, ListsAre DEF Fetch, Renew
<1>d. ASSUME Gone
      PROVE  /\ rows' \in [Pieces -> [phase : RowPhases, purchase : PurchaseIds \cup {NoId}]]
             /\ orders' \subseteq Pieces \X (PurchaseIds \cup {NoId})
             /\ strays' \subseteq Pieces /\ replaced' \in BOOLEAN
  <2>1. EmptyRow \in [phase : RowPhases, purchase : PurchaseIds \cup {NoId}]
    BY DEF EmptyRow, RowPhases
  <2>2. replaced' \in BOOLEAN
    BY <1>d, Zenon DEF Gone
  <2> QED
    BY <1>d, <2>1, <2>2 DEF Gone, EmptyRows
<1>1. CASE ChooseFilter /\ UNCHANGED forge
  BY <1>1, <1>c DEF ChooseFilter
<1>2. CASE ListAnswered /\ UNCHANGED forge
  <2>1. PICK l \in lists : lists' = lists \ {l} /\ shown' \in {l, Nothing}
    BY <1>2 DEF ListAnswered
  <2>2. lists' \subseteq Lists /\ shown' \in Lists
    BY <2>1, ListsAre
  <2> QED
    BY <1>0, <1>2, <2>2 DEF ListAnswered
<1>3. CASE (ToggleSelect \/ ClearSelection) /\ UNCHANGED forge
  BY <1>3 DEF ToggleSelect, ClearSelection
<1>4. CASE OpenDialog /\ UNCHANGED forge
  <2>1. EmptyRow \in [phase : RowPhases, purchase : PurchaseIds \cup {NoId}]
        /\ [EmptyRow EXCEPT !.phase = "creating"] \in [phase : RowPhases, purchase : PurchaseIds \cup {NoId}]
    BY DEF EmptyRow, RowPhases
  <2>2. replaced' \in BOOLEAN
    BY <1>4, Zenon DEF OpenDialog
  <2> QED
    BY <1>4, <2>1, <2>2 DEF OpenDialog
<1>5. CASE RowOpens /\ UNCHANGED forge
  <2>1. PICK o \in orders :
          rows' \in {[rows EXCEPT ![o[1]] = [phase |-> "failed", purchase |-> NoId]]}
                      \cup {[rows EXCEPT ![o[1]] = [phase |-> "waiting", purchase |-> n]] :
                              n \in {o[2]} \ {NoId}}
    BY <1>5 DEF RowOpens
  <2>2. o[2] \in PurchaseIds \cup {NoId} /\ o[1] \in Pieces
    OBVIOUS
  <2>3. rows' \in [Pieces -> [phase : RowPhases, purchase : PurchaseIds \cup {NoId}]]
    <3>1. ASSUME NEW record \in [phase : RowPhases, purchase : PurchaseIds \cup {NoId}]
          PROVE  [rows EXCEPT ![o[1]] = record]
                   \in [Pieces -> [phase : RowPhases, purchase : PurchaseIds \cup {NoId}]]
      BY <2>2
    <3>2. ASSUME NEW ph \in {"waiting", "failed"}, NEW n \in PurchaseIds \cup {NoId}
          PROVE  [phase |-> ph, purchase |-> n] \in [phase : RowPhases, purchase : PurchaseIds \cup {NoId}]
      BY DEF RowPhases
    <3>3. CASE rows' = [rows EXCEPT ![o[1]] = [phase |-> "failed", purchase |-> NoId]]
      BY <3>1, <3>2, <3>3
    <3>4. CASE rows' = [rows EXCEPT ![o[1]] = [phase |-> "waiting", purchase |-> o[2]]]
      BY <2>2, <3>1, <3>2, <3>4
    <3> QED
      BY <2>1, <3>3, <3>4
  <2> QED
    BY <1>5, <2>3 DEF RowOpens
<1>6. CASE RowHears /\ UNCHANGED forge
  <2>1. PICK v \in verdicts :
          rows' = CASE v[2] = "done" -> [rows EXCEPT ![v[1]].phase = "filled"]
                    [] v[2] = "failed" -> [rows EXCEPT ![v[1]].phase = "failed"]
                    [] OTHER -> rows
    BY <1>6 DEF RowHears
  <2>2. v[1] \in Pieces
    BY <1>0
  <2>3. rows' \in [Pieces -> [phase : RowPhases, purchase : PurchaseIds \cup {NoId}]]
    BY <2>1, <2>2 DEF RowPhases
  <2> QED
    BY <1>6, <2>3 DEF RowHears
<1>7. CASE Dismiss /\ UNCHANGED forge
  BY <1>7, <1>d DEF Dismiss
<1>8. CASE CloseDialog /\ UNCHANGED forge
  BY <1>8, <1>c, <1>d DEF CloseDialog
<1>9. ASSUME NEW p \in Pieces, RowOrdered(p), UNCHANGED forge PROVE ListsTyped'
  <2>1. CASE Reserves(p) /\ orders' = orders \cup {<<p, Len(bought) + 1>>}
    BY <1>9, <1>b, <2>1 DEF RowOrdered
  <2>2. CASE orders' = orders \cup {<<p, NoId>>} /\ UNCHANGED databaseVars
    BY <1>9, <2>2 DEF RowOrdered
  <2> QED
    BY <1>9, <2>1, <2>2 DEF RowOrdered
<1>10. ASSUME NEW p \in Pieces, StrayOrdered(p), UNCHANGED forge PROVE ListsTyped'
  BY <1>10, <1>b DEF StrayOrdered
<1>11. ASSUME NEW p \in Pieces, RowPolls(p), UNCHANGED forge PROVE ListsTyped'
  BY <1>11 DEF RowPolls
<1>12. ASSUME NEW p \in Pieces, OthersMove(p), UNCHANGED forge PROVE ListsTyped'
  BY <1>12 DEF OthersMove, Standings
<1>13. ASSUME NEW n \in DOMAIN bought, PurchaseSettles(n), UNCHANGED forge PROVE ListsTyped'
  <2>1. DOMAIN bought' = DOMAIN bought
    BY <1>13 DEF PurchaseSettles
  <2>2. state' \in [Pieces -> Standings]
    BY <1>13 DEF PurchaseSettles, Standings
  <2> QED
    BY <1>13, <2>1, <2>2 DEF PurchaseSettles
<1>14. CASE CraftForgeTier /\ UNCHANGED <<databaseVars, listVars, dialogVars>>
  BY <1>14
<1>15. CASE UNCHANGED marketPageVars
  BY <1>15 DEF marketPageVars
<1>16. CASE CollectionAnswered /\ UNCHANGED forge
  <2>1. shown' \in Lists /\ lists' \subseteq Lists
    BY <1>16, ListsAre DEF CollectionAnswered, Renew
  <2>2. refetches' \in 0 .. fetches
    <3>1. refetches > 0 /\ refetches' = refetches - 1
      BY <1>16 DEF CollectionAnswered
    <3>2. refetches \in 0 .. fetches /\ fetches \in 0 .. MaxFetches
      OBVIOUS
    <3> HIDE DEF ListsTyped
    <3>3. fetches \in Nat
      BY <1>0, <3>2
    <3> QED
      BY <3>1, <3>2, <3>3
  <2>3. replaced' \in BOOLEAN
    BY <1>0, <1>16 DEF CollectionAnswered
  <2> QED
    BY <1>16, <2>1, <2>2, <2>3 DEF CollectionAnswered
<1> QED
  BY <1>1, <1>2, <1>3, <1>4, <1>5, <1>6, <1>7, <1>8, <1>9, <1>10, <1>11, <1>12, <1>13, <1>14, <1>15,
     <1>16
     DEF MarketPageNext, MarketListNext

LEMMA CraftsBounded ==
  ASSUME MarketPageInv, forge.crafts \in 0 .. MaxCrafts, [MarketPageNext]_marketPageVars
  PROVE  forge'.crafts \in 0 .. MaxCrafts
<1>1. MaxCrafts \in Nat /\ DOMAIN forge = {"crafting", "message", "at", "crafts", "made"}
  BY MarketBounds DEF MarketPageInv, ForgeStands
<1>2. CASE CraftForgeTier
  <2>1. \/ forge.crafts < MaxCrafts /\ forge'.crafts = forge.crafts + 1
        \/ forge'.crafts = forge.crafts
    BY <1>1, <1>2 DEF CraftForgeTier
  <2> QED
    BY <1>1, <2>1
<1>3. CASE UNCHANGED forge
  BY <1>3
<1> QED
  BY <1>2, <1>3 DEF MarketPageNext, MarketListNext, marketPageVars

LEMMA ListsStart == MarketPageInit => ListsTyped /\ forge.crafts \in 0 .. MaxCrafts
<1> SUFFICES ASSUME MarketPageInit PROVE ListsTyped /\ forge.crafts \in 0 .. MaxCrafts
  OBVIOUS
<1> USE DEF MarketPageInit
<1>1. MaxPurchases \in Nat /\ MaxFetches \in Nat /\ MaxCrafts \in Nat
  BY MarketBounds
<1>2. DOMAIN bought = 1 .. 0 /\ 0 \in 0 .. MaxPurchases
  BY <1>1
<1>3. state \in [Pieces -> Standings]
  BY DEF Standings
<1>4. EmptyRow \in [phase : RowPhases, purchase : PurchaseIds \cup {NoId}]
  BY DEF EmptyRow, RowPhases
<1>5. replaced \in BOOLEAN
  BY Zenon
<1>6. ListsTyped
  BY <1>1, <1>2, <1>3, <1>4, <1>5, ListsAre, FirstFilterAssumption DEF ListsTyped, EmptyRows
<1> QED
  BY <1>1, <1>6

-----------------------------------------------------------------------------
\* The part that is explored keeps its invariant.
PartInv ==
  /\ part \in Parts
  /\ part = "mints" => MintsInv
  /\ part = "whitelist" => WhitelistInv
  /\ part = "payouts" => PayInv /\ WalletLeft /\ FeesLeft
  /\ part = "addresses" => PoolInv /\ PoolTypeOK
  /\ part = "logins" => LoginInv
  /\ part = "pages" => PagesInv /\ KnownTyped
  /\ part \in {"market", "forge"} =>
       MarketPageInv /\ ListsTyped /\ forge.crafts \in 0 .. MaxCrafts
  /\ part \in {"signin", "status"} => XTypeOK

LEMMA PartStart == ServicesInit => PartInv
<1> SUFFICES ASSUME ServicesInit PROVE PartInv
  OBVIOUS
<1>1. /\ MintInit /\ WhitelistInit /\ PayoutInit /\ PoolInit /\ LoginInit
      /\ NftPagesInit /\ MarketPageInit /\ XInit /\ part \in Parts
  BY DEF ServicesInit, Parts
<1>2. MintsInv /\ WhitelistInv /\ LoginInv /\ PayInv /\ PoolInv /\ PagesInv /\ MarketPageInv
  BY <1>1, MintsStart, WhitelistStart, LoginInvInit, PayInvStart, PoolInvStart, PagesBegin,
     MarketPageStart
<1>3. /\ WalletLeft /\ FeesLeft /\ PoolTypeOK /\ KnownTyped
      /\ ListsTyped /\ forge.crafts \in 0 .. MaxCrafts /\ XTypeOK
  BY <1>1, PayoutLeftStart, PoolTypesStart, KnownStart, ListsStart, XTypesStart
<1> QED
  BY <1>1, <1>2, <1>3 DEF PartInv

LEMMA PartNext == PartInv /\ [ServicesNext]_servicesVars => PartInv'
<1> SUFFICES ASSUME PartInv, [ServicesNext]_servicesVars PROVE PartInv'
  OBVIOUS
<1>1. part' = part /\ part \in Parts
  BY DEF ServicesNext, servicesVars, PartInv
<1> USE DEF ServicesNext, BackendNext, BrowserNext, servicesVars, backendVars, browserVars
<1>2. CASE part = "mints"
  <2>1. [MintNext]_mintVars /\ MintsInv
    BY <1>2 DEF PartInv
  <2> QED
    BY <1>1, <1>2, <2>1, MintsNext DEF PartInv
<1>3. CASE part = "whitelist"
  <2>1. [WhitelistNext]_whitelistVars /\ WhitelistInv
    BY <1>3 DEF PartInv
  <2> QED
    BY <1>1, <1>3, <2>1, WhitelistSteps DEF PartInv
<1>4. CASE part = "payouts"
  <2>1. [PayoutNext]_payoutVars /\ PayInv /\ WalletLeft /\ FeesLeft
    BY <1>4 DEF PartInv
  <2> QED
    BY <1>1, <1>4, <2>1, PayInvNext, PayoutLeftNext DEF PartInv
<1>5. CASE part = "addresses"
  <2>1. [PoolNext]_poolVars /\ PoolInv /\ PoolTypeOK
    BY <1>5 DEF PartInv
  <2> QED
    BY <1>1, <1>5, <2>1, PoolInvNext, PoolTypes DEF PartInv
<1>6. CASE part = "logins"
  <2>1. [LoginNext]_loginVars /\ LoginInv
    BY <1>6 DEF PartInv
  <2> QED
    BY <1>1, <1>6, <2>1, LoginInvNext DEF PartInv
<1>7. CASE part = "pages"
  <2>1. [PagesNext]_nftPageVars /\ PagesInv /\ KnownTyped
    BY <1>7 DEF PartInv
  <2> QED
    BY <1>1, <1>7, <2>1, PagesInvNext, KnownTypes DEF PartInv
<1>8. CASE part \in {"market", "forge"}
  <2>1. /\ [MarketPageNext]_marketPageVars
        /\ MarketPageInv /\ ListsTyped /\ forge.crafts \in 0 .. MaxCrafts
    BY <1>8 DEF PartInv, MarketPageNext
  <2> QED
    BY <1>1, <1>8, <2>1, MarketPageStep, ListsTypedNext, CraftsBounded DEF PartInv
<1>9. CASE part \in {"signin", "status"}
  <2>1. [XNext]_xVars /\ XTypeOK
    BY <1>9 DEF PartInv, XNext
  <2> QED
    BY <1>1, <1>9, <2>1, XTypes DEF PartInv
<1> QED
  BY <1>1, <1>2, <1>3, <1>4, <1>5, <1>6, <1>7, <1>8, <1>9 DEF Parts

\* Whichever service or page is explored, its rows, counts, queues and lists stay of
\* their types, for any instances of their constants: no statement of the services
\* and the pages takes one out of them.
THEOREM ServicesTypedAlways == ServicesSpec => []ServicesTypeOK
<1>1. PartInv => ServicesTypeOK
  <2>1. /\ MintsInv => MintTypeOK
        /\ WhitelistInv => WhitelistTypeOK
        /\ LoginInv => LoginTypeOK
    BY DEF MintsInv, MintInv, MintSound, WhitelistInv, LoginInv
  <2> QED
    BY <2>1, PayoutTypes, NftPagesTypes, MarketPageTypes DEF PartInv, ServicesTypeOK, Parts
<1> QED
  BY <1>1, PartStart, PartNext, PTL DEF ServicesSpec
=============================================================================
