--------------------------- MODULE WalletService ----------------------------
(***************************************************************************)
(* zcash-wallet-service, the process that holds the platform's wallet      *)
(* (zcash-wallet-service/src/server.js, cli.js).  Every request becomes    *)
(* one zingo-cli process, and one queue runs them one at a time; a command *)
(* that could not connect is tried again, and one that reports a damaged   *)
(* cache starts a heal, which wipes the volume at once, past the queue,    *)
(* and restores the wallet from its seed as one more command.              *)
(*                                                                         *)
(* zingo-cli itself is outside the repository: without a wallet in the     *)
(* volume and without a seed it makes a new one, and it restores a seed    *)
(* only where there is no wallet.                                          *)
(***************************************************************************)
EXTENDS Integers, Sequences

CONSTANTS
  Sends,           \* requests POST /wallet/send
  Reads,           \* requests GET /wallet/height, the health probe among them
  MaxTries,        \* attempts of a command that cannot connect
  MaxWalletFaults  \* bound: failures to connect, failed commands and damages

ASSUME WalletRequestsAssumption ==
  Sends \cap Reads = {} /\ (Sends \cup Reads) \cap {"load", "restore", "heal"} = {}
ASSUME WalletBoundsAssumption == MaxTries \in Nat \ {0} /\ MaxWalletFaults \in Nat

VARIABLES
  volume,        \* disk: the wallet in the data volume
  cliQueue,      \* memory: the commands, the first one running
  tries,         \* memory: attempts of the running command that did not connect
  answer,        \* the requests: not sent, waiting, or answered
  ready, healing, cooling,  \* memory: flags of server.js
  sent,          \* Zcash: how often each send was carried out
  bootedStray,   \* history: the service booted on a wallet not made from its seed
  walletFaults

walletVars == <<volume, cliQueue, tries, answer, ready, healing, cooling,
                sent, bootedStray, walletFaults>>

WalletRequests == Sends \cup Reads
\* ensureWalletReady of the boot and of a heal: load what there is, or restore.
Ensures == {"load", "restore", "heal"}

WalletTypeOK ==
  /\ volume \in {"none", "good", "damaged", "stray"}
  /\ cliQueue \in Seq(WalletRequests \cup Ensures)
  /\ tries \in 0..MaxTries
  /\ answer \in [WalletRequests -> {"unsent", "waiting", "ok", "error"}]
  /\ {ready, healing, cooling, bootedStray} \subseteq BOOLEAN
  /\ sent \in [Sends -> Nat]
  /\ walletFaults \in Nat

WalletFault == walletFaults < MaxWalletFaults /\ walletFaults' = walletFaults + 1

\* The first boot, on an empty volume.
WalletInit ==
  /\ volume = "none" /\ cliQueue = <<"restore">> /\ tries = 0
  /\ answer = [r \in WalletRequests |-> "unsent"]
  /\ ready = FALSE /\ healing = FALSE /\ cooling = FALSE
  /\ sent = [s \in Sends |-> 0]
  /\ bootedStray = FALSE /\ walletFaults = 0

-----------------------------------------------------------------------------
\* runCli
Enqueue(r) ==
  /\ answer' = [answer EXCEPT ![r] = "waiting"]
  /\ cliQueue' = Append(cliQueue, r)
  /\ UNCHANGED <<volume, tries, ready, healing, cooling, sent, bootedStray, walletFaults>>

\* POST /wallet/send: only while the wallet is ready.
SendAccepted(s) == answer[s] = "unsent" /\ ready /\ Enqueue(s)
SendRefused(s) ==
  /\ answer[s] = "unsent" /\ ~ready
  /\ answer' = [answer EXCEPT ![s] = "error"]
  /\ UNCHANGED <<volume, cliQueue, tries, ready, healing, cooling, sent, bootedStray, walletFaults>>

\* GET /wallet/height asks even while it is not.
ReadHeight(r) == r \in Reads /\ answer[r] = "unsent" /\ Enqueue(r)

Running == Head(cliQueue)
Dequeue == cliQueue' = Tail(cliQueue) /\ tries' = 0
Answered(a) == answer' = IF Running \in WalletRequests
                         THEN [answer EXCEPT ![Running] = a] ELSE answer

\* A failure to connect is before anything the command does: it is tried again.
CliConnectFails ==
  /\ cliQueue # <<>> /\ tries + 1 < MaxTries /\ WalletFault
  /\ tries' = tries + 1
  /\ UNCHANGED <<volume, cliQueue, answer, ready, healing, cooling, sent, bootedStray>>

\* What an ordinary command does to a volume that was wiped: it makes a wallet
\* of its own, or saves the one it had loaded before, or does not get so far.
AfterWipe == {"none", "stray", "damaged"}

\* It exits 0.  A restore does so only on an empty volume; a send, only from a
\* wallet with funds.
CliSucceeds ==
  /\ cliQueue # <<>> /\ volume # "damaged"
  /\ \/ Running \in {"restore", "heal"} /\ volume = "none" /\ volume' = "good" /\ sent' = sent
     \/ Running = "load" /\ volume' = volume /\ sent' = sent
     \/ /\ Running \in Reads /\ sent' = sent
        /\ volume' \in IF volume = "none" THEN AfterWipe ELSE {volume}
     \/ /\ Running \in Sends /\ volume = "good" /\ volume' = volume
        /\ sent' = [sent EXCEPT ![Running] = @ + 1]
  /\ ready' = (ready \/ Running \in Ensures)
  /\ healing' = (healing /\ Running # "heal")
  /\ Answered("ok") /\ Dequeue
  /\ UNCHANGED <<cooling, bootedStray, walletFaults>>

\* Mutant: every failure is tried again, one that came after the send too.
CliFailsAgain ==
  /\ cliQueue # <<>> /\ WalletFault
  /\ volume' = volume
  /\ sent' \in {sent} \cup {[sent EXCEPT ![s] = @ + 1] : s \in Sends \cap {Running}}
  /\ volume # "good" => sent' = sent
  /\ UNCHANGED <<cliQueue, tries, answer, ready, healing, cooling, bootedStray>>

\* It fails or times out otherwise; a send may be out by then, a restore may have
\* left its wallet.  No heal follows, and a heal that fails leaves the service down.
CliFails ==
  /\ cliQueue # <<>> /\ WalletFault
  /\ volume' \in IF volume # "none" THEN {volume}
                 ELSE IF Running \in Ensures THEN {"none", "good"} ELSE AfterWipe
  /\ sent' \in {sent} \cup {[sent EXCEPT ![s] = @ + 1] : s \in Sends \cap {Running}}
  /\ volume # "good" => sent' = sent
  /\ healing' = (healing /\ Running # "heal")
  /\ Answered("error") /\ Dequeue
  /\ UNCHANGED <<ready, cooling, bootedStray>>

\* Mutant: the service is ready after a heal, whatever became of the restore.
CliRefusedReady ==
  /\ cliQueue # <<>>
  /\ \/ Running \in {"restore", "heal"} /\ volume # "none"
     \/ Running \in Sends /\ volume \in {"none", "stray"}
  /\ volume' \in IF volume = "none" THEN AfterWipe ELSE {volume}
  /\ ready' = (ready \/ Running = "heal")
  /\ healing' = (healing /\ Running # "heal")
  /\ Answered("error") /\ Dequeue
  /\ UNCHANGED <<cooling, sent, bootedStray, walletFaults>>

\* A command that cannot succeed: a restore over a wallet, a send without funds.
CliRefused ==
  /\ cliQueue # <<>>
  /\ \/ Running \in {"restore", "heal"} /\ volume # "none"
     \/ Running \in Sends /\ volume \in {"none", "stray"}
  /\ volume' \in IF volume = "none" THEN AfterWipe ELSE {volume}
  /\ healing' = (healing /\ Running # "heal")
  /\ Answered("error") /\ Dequeue
  /\ UNCHANGED <<ready, cooling, sent, bootedStray, walletFaults>>

\* It reports the damaged cache: maybeAutoHeal, unless a heal is under way or
\* the last one is too recent.  (A heal's own failure is only logged.)
CliFindsDamage ==
  LET heal == ~healing /\ ~cooling /\ Running # "heal" IN
  /\ cliQueue # <<>> /\ volume = "damaged"
  /\ Answered("error") /\ tries' = 0
  /\ cliQueue' = IF heal THEN Append(Tail(cliQueue), "heal") ELSE Tail(cliQueue)
  /\ volume' = IF heal THEN "none" ELSE volume
  /\ ready' = (ready /\ ~heal)
  /\ healing' = (heal \/ (healing /\ Running # "heal"))
  /\ cooling' = (cooling \/ heal)
  /\ UNCHANGED <<sent, bootedStray, walletFaults>>

\* An indexer damages the cache; the cooldown of a heal runs out.
CacheDamaged ==
  /\ volume = "good" /\ WalletFault /\ volume' = "damaged"
  /\ UNCHANGED <<cliQueue, tries, answer, ready, healing, cooling, sent, bootedStray>>
Cooled ==
  /\ cooling /\ cooling' = FALSE
  /\ UNCHANGED <<volume, cliQueue, tries, answer, ready, healing, sent, bootedStray, walletFaults>>

\* The service stops and boots; ZCASH_FORCE_REWALLET wipes the volume first.
RestartWallet ==
  /\ \E rewallet \in BOOLEAN :
       /\ volume' = IF rewallet THEN "none" ELSE volume
       /\ cliQueue' = IF volume' = "none" THEN <<"restore">> ELSE <<"load">>
       /\ bootedStray' = (volume' = "stray")
  /\ answer' = [r \in WalletRequests |-> IF answer[r] = "waiting" THEN "error" ELSE answer[r]]
  /\ tries' = 0 /\ ready' = FALSE /\ healing' = FALSE /\ cooling' = FALSE
  /\ UNCHANGED <<sent, walletFaults>>

WalletNext ==
  \/ \E r \in Reads : ReadHeight(r)
  \/ CliConnectFails \/ CliSucceeds \/ CliFails \/ CliRefused \/ CliFindsDamage
  \/ CacheDamaged \/ Cooled \/ RestartWallet

-----------------------------------------------------------------------------
(* Property.                                                               *)

\* A service that says it is ready has the wallet of its seed, damaged or not,
\* whatever is queued when a heal wipes the volume: the commands before the
\* restore may leave a wallet there, the restore is then refused and the service
\* stays down.  Only a later boot takes such a wallet for its own.
ReadyOnSeedWallet == ready => volume \in {"good", "damaged"} \/ bootedStray
=============================================================================
