-------------------------- MODULE MCPendingRecords ---------------------------
(***************************************************************************)
(* Small instances, for TLC, of what waits for a payment and is then       *)
(* built: a launch on NEAR, the token contract it deploys, a token of the  *)
(* platform.  The three share no state, so that each is explored by        *)
(* itself: a behaviour draws one of them at its start and leaves the       *)
(* others as they are.                                                     *)
(***************************************************************************)
EXTENDS NearLaunch, TokenCreation, LaunchToken

VARIABLE part
pendingVars == <<part, launchVars, creationVars, tokenVars>>

PendingInit ==
  /\ part \in {"launch", "contract", "creation"}
  /\ LaunchInit /\ TokenInit /\ CreationInit

PendingNext ==
  \/ part = "launch" /\ LaunchNext /\ UNCHANGED <<part, tokenVars, creationVars>>
  \/ part = "contract" /\ TokenNext /\ UNCHANGED <<part, launchVars, creationVars>>
  \/ part = "creation" /\ CreationNext /\ UNCHANGED <<part, launchVars, tokenVars>>

PendingSpec == PendingInit /\ [][PendingNext]_pendingVars /\ LaunchFairness

\* Every variable of the part that is explored has its type: no statement of
\* nearLaunch.ts, store.ts or the contract takes a row, a poll or a balance out of
\* it.
PendingTypeOK ==
  CASE part = "launch" -> LaunchTypeOK
    [] part = "contract" -> TokenTypeOK
    [] part = "creation" -> CreationTypeOK
=============================================================================
