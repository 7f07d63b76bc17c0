----------------------------- MODULE WalletLogin -----------------------------
(***************************************************************************)
(* Ways into a wallet of the platform (backend/src/server.ts, store.ts,    *)
(* walletAuth.ts, frontend/lib/wallet.tsx): twelve words, or an extension  *)
(* of Noir, an EVM wallet or a NEAR wallet, which signs a challenge that   *)
(* the backend issued and consumes when the signature comes back.  The     *)
(* three extensions go through the same steps, each with its own table of  *)
(* challenges and its own unique column of the wallet.                     *)
(*                                                                         *)
(* A name is what the column holds: an address as it was spelled, a NEAR   *)
(* account, the hash of twelve words.                                      *)
(***************************************************************************)
EXTENDS Integers

CONSTANTS
  Extensions,  \* names of extension accounts
  Phrases,     \* hashes of twelve words
  Challenges,  \* nonces; each is issued to one browser session
  Logins       \* requests that answer a challenge or import words

ASSUME NamesAssumption == Extensions \cap Phrases = {}

VARIABLES
  challenge,  \* database: the challenges, and whether their time is over
  signer,     \* browsers: the account that signed each challenge
  walletOf,   \* database: the wallet of each name, 0 for none
  wallets,    \* database: how many wallets there are; ids are never used again
  login       \* memory: the requests

loginVars == <<challenge, signer, walletOf, wallets, login>>

Names == Extensions \cup Phrases
LoginSteps == {"idle", "verify", "find", "create", "in", "refused"}

LoginTypeOK ==
  /\ challenge \in [Challenges -> [at : {"none", "issued", "consumed"}, old : BOOLEAN]]
  /\ signer \in [Challenges -> Extensions \cup {"nobody"}]
  /\ walletOf \in [Names -> Nat] /\ wallets \in Nat
  /\ login \in [Logins -> [at : LoginSteps, name : Names \cup {"nobody"},
                           challenge : Challenges \cup {"none"}, wallet : Nat,
                           inTime : BOOLEAN]]

LoginInit ==
  /\ challenge = [c \in Challenges |-> [at |-> "none", old |-> FALSE]]
  /\ signer = [c \in Challenges |-> "nobody"]
  /\ walletOf = [n \in Names |-> 0] /\ wallets = 0
  /\ login = [q \in Logins |-> [at |-> "idle", name |-> "nobody", challenge |-> "none",
                                wallet |-> 0, inTime |-> FALSE]]

-----------------------------------------------------------------------------
\* createNoirChallenge, createEvmChallenge, createNearWalletChallenge
IssueChallenge(c) ==
  /\ challenge[c].at = "none"
  /\ challenge' = [challenge EXCEPT ![c].at = "issued"]
  /\ UNCHANGED <<signer, walletOf, wallets, login>>

\* connectNoir, connectEvm, connectNear: the extension signs the message.
SignChallenge(c, n) ==
  /\ challenge[c].at = "issued" /\ signer[c] = "nobody"
  /\ signer' = [signer EXCEPT ![c] = n]
  /\ UNCHANGED <<challenge, walletOf, wallets, login>>

\* Five minutes pass.
AgeChallenge(c) ==
  /\ challenge[c].at = "issued" /\ ~challenge[c].old
  /\ challenge' = [challenge EXCEPT ![c].old = TRUE]
  /\ UNCHANGED <<signer, walletOf, wallets, login>>

\* Mutant: the challenge is read and not deleted.
ConsumeChallengeNot(q, c) ==
  LET found == challenge[c].at = "issued" IN
  /\ login[q].at = "idle" /\ signer[c] # "nobody"
  /\ challenge' = challenge
  /\ login' = [login EXCEPT ![q] =
       [@ EXCEPT !.at = IF found /\ ~challenge[c].old THEN "verify" ELSE "refused",
                 !.name = signer[c], !.challenge = c, !.inTime = ~challenge[c].old]]
  /\ UNCHANGED <<signer, walletOf, wallets>>

\* consumeNoirChallenge (and its two likes): the row is deleted, too old or not;
\* a browser may send its answer again.
ConsumeChallenge(q, c) ==
  LET found == challenge[c].at = "issued" IN
  /\ login[q].at = "idle" /\ signer[c] # "nobody"
  /\ challenge' = [challenge EXCEPT ![c].at = "consumed"]
  /\ login' = [login EXCEPT ![q] =
       [@ EXCEPT !.at = IF found /\ ~challenge[c].old THEN "verify" ELSE "refused",
                 !.name = signer[c], !.challenge = c, !.inTime = ~challenge[c].old]]
  /\ UNCHANGED <<signer, walletOf, wallets>>

\* verifyMessageSignature, verifyEvmSignature, verifyNearWalletSignature: the
\* challenge is gone, whatever they say.
VerifySignature(q) ==
  /\ login[q].at = "verify"
  /\ \E at \in {"find", "refused"} : login' = [login EXCEPT ![q].at = at]
  /\ UNCHANGED <<challenge, signer, walletOf, wallets>>

\* connectOrCreateNoirWallet (and its two likes) looks for the wallet ...
FindWallet(q) ==
  LET known == walletOf[login[q].name] IN
  /\ login[q].at = "find"
  /\ login' = [login EXCEPT ![q].wallet = known,
                            ![q].at = IF known # 0 THEN "in" ELSE "create"]
  /\ UNCHANGED <<challenge, signer, walletOf, wallets>>

\* A new wallet for the name.
AddWallet(n) ==
  /\ wallets' = wallets + 1
  /\ walletOf' = [walletOf EXCEPT ![n] = wallets']

\* ... and creates one in a second statement, which throws when another request
\* was faster: the column is unique.
CreateWallet(q) ==
  LET n == login[q].name IN
  /\ login[q].at = "create"
  /\ IF walletOf[n] = 0
     THEN /\ AddWallet(n)
          /\ login' = [login EXCEPT ![q].at = "in", ![q].wallet = wallets']
     ELSE /\ UNCHANGED <<walletOf, wallets>>
          /\ login' = [login EXCEPT ![q].at = "refused"]
  /\ UNCHANGED <<challenge, signer>>

\* POST /api/wallets: the words are new.
CreateByWords(n) ==
  /\ n \in Phrases /\ walletOf[n] = 0
  /\ AddWallet(n)
  /\ UNCHANGED <<challenge, signer, login>>

\* POST /api/wallets/import
ImportWords(q, n) ==
  /\ login[q].at = "idle" /\ n \in Phrases
  /\ login' = [login EXCEPT ![q] =
       [@ EXCEPT !.name = n, !.wallet = walletOf[n],
                 !.at = IF walletOf[n] # 0 THEN "in" ELSE "refused"]]
  /\ UNCHANGED <<challenge, signer, walletOf, wallets>>

LoginNext ==
  \/ \E c \in Challenges : \/ IssueChallenge(c) \/ AgeChallenge(c)
                           \/ \E n \in Extensions : SignChallenge(c, n)
  \/ \E q \in Logins : \/ VerifySignature(q) \/ FindWallet(q) \/ CreateWallet(q)
                       \/ \E c \in Challenges : ConsumeChallenge(q, c)
                       \/ \E n \in Phrases : ImportWords(q, n)
  \/ \E n \in Phrases : CreateByWords(n)

LoginSpec == LoginInit /\ [][LoginNext]_loginVars

-----------------------------------------------------------------------------
(* Property.                                                               *)

\* Logins of one name, at the same time or again, land on one wallet, and no other
\* name's; a challenge admits one login, and none when its time is over, however
\* often a browser sends its answer.
LoginsAgree == \A p, q \in {r \in Logins : login[r].at = "in"} :
  /\ login[p].wallet = login[q].wallet <=> login[p].name = login[q].name
  /\ login[p].challenge = login[q].challenge /\ login[p].challenge # "none" => p = q
  /\ login[p].challenge # "none" => login[p].inTime
=============================================================================
