---------------------------- MODULE LaunchToken -----------------------------
(***************************************************************************)
(* The token contract of a NEAR launch                                     *)
(* (near-zodd-launch-rust/token/src/lib.rs): the whole supply is minted to *)
(* the owner, plain transfers are free, and a transfer with a call, which  *)
(* is how one trades, pays a share to the platform and one to the founder  *)
(* before the rest goes to the receiver, whose answer, some blocks later,  *)
(* says how much of it to give back.                                       *)
(*                                                                         *)
(* Balances, registration and the resolution of a call are those of        *)
(* near-contract-standards.  A call of the contract is atomic: one that    *)
(* panics changes nothing.                                                 *)
(***************************************************************************)
EXTENDS Integers, FiniteSets, FiniteSetsExt

CONSTANTS
  Accounts, Owner, PlatformAccount, FounderAccount,
  TotalSupply,
  FeeBps, BpsDenominator, \* PLATFORM_SWAP_FEE_BPS = FOUNDER_SWAP_FEE_BPS
  Calls                   \* ft_transfer_calls, each used once

ASSUME TokenAccountsAssumption ==
  {Owner, PlatformAccount, FounderAccount} \subseteq Accounts /\ IsFiniteSet(Accounts)
ASSUME TokenFeesAssumption ==
  {TotalSupply, FeeBps} \subseteq Nat /\ BpsDenominator \in Nat /\ 2 * FeeBps < BpsDenominator

VARIABLES
  registered,  \* accounts with storage
  balance,
  supply,      \* ft_total_supply
  swap,        \* the calls on their way
  left         \* history: an account was unregistered with a balance, or while
               \* something it sent was on its way

tokenVars == <<registered, balance, supply, swap, left>>

Swap == [at : {"unsent", "called", "resolved"}, from : Accounts, to : Accounts, amount : Nat]

TokenTypeOK ==
  /\ registered \subseteq Accounts /\ balance \in [Accounts -> Nat] /\ supply \in Nat
  /\ swap \in [Calls -> Swap]
  /\ left \in BOOLEAN

UnsentSwap == [at |-> "unsent", from |-> Owner, to |-> Owner, amount |-> 0]

\* new
TokenInit ==
  /\ registered = {Owner, PlatformAccount, FounderAccount}
  /\ balance = [a \in Accounts |-> IF a = Owner THEN TotalSupply ELSE 0]
  /\ supply = TotalSupply
  /\ swap = [c \in Calls |-> UnsentSwap]
  /\ left = FALSE

-----------------------------------------------------------------------------
\* internal_transfer: both accounts are registered, and not the same.
CanMove(from, to, n) == {from, to} \subseteq registered /\ from # to /\ n > 0
Moved(b, from, to, n) == [b EXCEPT ![from] = @ - n, ![to] = @ + n]

\* ft_transfer
Transfer(from, to, n) ==
  /\ CanMove(from, to, n) /\ n <= balance[from]
  /\ balance' = Moved(balance, from, to, n)
  /\ UNCHANGED <<registered, supply, swap, left>>

Fee(n) == (n * FeeBps) \div BpsDenominator

\* ft_transfer_call: the owner, who seeds the pool, pays no fee.
TransferCall(c, from, to, n) ==
  LET fee == IF from = Owner THEN 0 ELSE Fee(n)
      net == n - 2 * fee IN
  /\ swap[c].at = "unsent"
  /\ CanMove(from, to, net) /\ n <= balance[from]
  /\ fee > 0 => CanMove(from, PlatformAccount, fee) /\ CanMove(from, FounderAccount, fee)
  /\ balance' = Moved(Moved(Moved(balance, from, PlatformAccount, fee),
                            from, FounderAccount, fee), from, to, net)
  /\ swap' = [swap EXCEPT ![c] = [at |-> "called", from |-> from, to |-> to, amount |-> net]]
  /\ UNCHANGED <<registered, supply, left>>

\* Mutant: the refund is not limited to what the receiver still has.
ResolveTransferUnlimited(c, unused) ==
  LET s == swap[c] IN
  /\ s.at = "called" /\ unused <= s.amount
  /\ balance' = IF s.from \in registered THEN Moved(balance, s.to, s.from, unused)
                ELSE [balance EXCEPT ![s.to] = @ - unused]
  /\ supply' = IF s.from \in registered THEN supply ELSE supply - unused
  /\ swap' = [swap EXCEPT ![c] = [UnsentSwap EXCEPT !.at = "resolved"]]
  /\ UNCHANGED <<registered, left>>

\* Mutant: the sender gets what was not used, wherever the rest of it went.
ResolveTransferInFull(c, unused) ==
  LET s == swap[c]
      refund == Min({unused, balance[s.to]}) IN
  /\ s.at = "called" /\ unused <= s.amount
  /\ balance' = IF s.from \in registered
                THEN [balance EXCEPT ![s.to] = @ - refund, ![s.from] = @ + unused]
                ELSE [balance EXCEPT ![s.to] = @ - refund]
  /\ supply' = IF s.from \in registered THEN supply ELSE supply - refund
  /\ swap' = [swap EXCEPT ![c] = [UnsentSwap EXCEPT !.at = "resolved"]]
  /\ UNCHANGED <<registered, left>>

\* ft_resolve_transfer: what the receiver did not use, and still has, goes back;
\* it is burned if the sender is not registered any more.
ResolveTransfer(c, unused) ==
  LET s == swap[c]
      refund == Min({unused, balance[s.to]}) IN
  /\ s.at = "called" /\ unused <= s.amount
  /\ balance' = IF s.from \in registered THEN Moved(balance, s.to, s.from, refund)
                ELSE [balance EXCEPT ![s.to] = @ - refund]
  /\ supply' = IF s.from \in registered THEN supply ELSE supply - refund
  /\ swap' = [swap EXCEPT ![c] = [UnsentSwap EXCEPT !.at = "resolved"]]
  /\ UNCHANGED <<registered, left>>

\* storage_deposit
StorageDeposit(a) ==
  /\ a \notin registered
  /\ registered' = registered \cup {a}
  /\ UNCHANGED <<balance, supply, swap, left>>

\* storage_unregister: by force, the account's balance is burned.
StorageUnregister(a) ==
  /\ a \in registered
  /\ registered' = registered \ {a}
  /\ balance' = [balance EXCEPT ![a] = 0]
  /\ supply' = supply - balance[a]
  /\ left' = (left \/ balance[a] > 0 \/ \E c \in Calls : swap[c].at = "called" /\ swap[c].from = a)
  /\ UNCHANGED <<swap>>

TokenNext ==
  \/ \E from, to \in Accounts, n \in 1..TotalSupply :
       \/ Transfer(from, to, n)
       \/ \E c \in Calls : TransferCall(c, from, to, n)
  \/ \E c \in Calls, unused \in 0..TotalSupply : ResolveTransfer(c, unused)
  \/ \E a \in Accounts : StorageDeposit(a) \/ StorageUnregister(a)

TokenSpec == TokenInit /\ [][TokenNext]_tokenVars

-----------------------------------------------------------------------------
(* Property.                                                               *)

\* The supply is what the accounts have, though a call is resolved long after its
\* tokens were moved and the receiver may have passed them on or left; and a
\* token is only ever burned with an account that left (a refused or half-used
\* call burns nothing).  An account that left has nothing.
SupplyKept ==
  /\ SumFunction(balance) = supply
  /\ ~left => supply = TotalSupply
  /\ \A a \in Accounts \ registered : balance[a] = 0
=============================================================================
