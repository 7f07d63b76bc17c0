---------------------------- MODULE LaunchChain -----------------------------
(***************************************************************************)
(* What the NEAR launch pipeline promises of a launch: nothing is built    *)
(* before it is paid, the eight effects on NEAR appear once each and in    *)
(* their order, and only a launch that has them all is announced live.     *)
(*                                                                         *)
(* A settled launch may be asked for again: a payment that is marked late  *)
(* reopens it.                                                             *)
(***************************************************************************)
EXTENDS Naturals

CONSTANT Launches

\* Account created, contract deployed and initialised, deploy key deleted, pool
\* created, supply deposited, liquidity added, position handed to the locker,
\* position locked.
Effects == 8

VARIABLES
  fate,   \* what the platform says of each launch
  built   \* how many of the effects NEAR has

LCInit ==
  /\ fate = [l \in Launches |-> "asked"]
  /\ built = [l \in Launches |-> 0]

Pay(l) ==
  /\ fate' = [fate EXCEPT ![l] = "paid"]
  /\ built' = built

Build(l) ==
  /\ fate[l] = "paid" /\ built[l] < Effects
  /\ built' = [built EXCEPT ![l] = @ + 1]
  /\ fate' = fate

Announce(l) ==
  /\ fate[l] = "paid" /\ built[l] = Effects
  /\ fate' = [fate EXCEPT ![l] = "live"]
  /\ built' = built

GiveUp(l) ==
  /\ fate[l] = "paid"
  /\ fate' = [fate EXCEPT ![l] = "failed"]
  /\ built' = built

LCNext == \E l \in Launches : Pay(l) \/ Build(l) \/ Announce(l) \/ GiveUp(l)

LCSpec == LCInit /\ [][LCNext]_<<fate, built>>
=============================================================================
