------------------------ MODULE PendingRecords_proofs ------------------------
(***************************************************************************)
(* Proofs about what waits for a payment and is then built: the NEAR       *)
(* launch pipeline, for any number of launches, transactions and payments; *)
(* the creation of tokens, for any number of creations, symbols, payments  *)
(* and administrator's runs; the token contract of a launch, for any       *)
(* number of accounts and calls; each with any bound on tries and faults.  *)
(*                                                                         *)
(* RecordFollowsChain is not inductive: that a step is recorded only after *)
(* its effects rests on where the poll stands (PollInStep), and that what  *)
(* the poll has in hand was paid (PollPaid).                               *)
(* FirstBuyOnce is strengthened by counting: the settlements that have     *)
(* made a token and may still buy it, and the buys that were made, are     *)
(* together no more than the creation's tokens (BuysCovered).              *)
(* CreationTold is strengthened by what an undisturbed creation's only     *)
(* settlement knows at each statement (SettledAlone).                      *)
(* SupplyKept is strengthened by what a call on its way remembers          *)
(* (CallsNamed); the rest of it is arithmetic on a sum.                    *)
(***************************************************************************)
EXTENDS MCPendingRecords, FiniteSums, FiniteSetTheorems, TLAPS

-----------------------------------------------------------------------------
(* Types.                                                                  *)

LEMMA Initials == NoLaunchRow \in Row /\ Unsent \in Request /\ Over \in Request /\ IdleTick \in Tick
<1>1. NoLaunchRow \in Row
  BY DEF NoLaunchRow, Row, Methods, Steps
<1>2. Unsent \in Request /\ Over \in Request
  BY DEF Unsent, Over, Request
<1>3. IdleTick \in Tick
  BY DEF IdleTick, Tick, Effects
<1> QED
  BY <1>1, <1>2, <1>3

LEMMA LaunchTypeInit == LaunchInit => LaunchTypeOK
<1> SUFFICES ASSUME LaunchInit PROVE LaunchTypeOK
  OBVIOUS
<1>1. launch \in [Launches -> Row] /\ request \in [Requests -> Request] /\ tick \in Tick
  BY Initials DEF LaunchInit
<1>2. zecWatch \subseteq Launches /\ chain \in [Launches -> 0..Effects] /\ faults \in Nat
  BY DEF LaunchInit, Effects
<1>3. consumed \subseteq ZecRefs /\ overlap \in BOOLEAN
  BY DEF LaunchInit
<1> QED
  BY <1>1, <1>2, <1>3 DEF LaunchTypeOK

LEMMA BaseBounds == \A step \in 0..5 :
  /\ Base(step) \in 0..7 /\ Base(step + 1) \in 0..8
  /\ Base(step) < Base(step + 1)
  BY DEF Base

\* A poll that has a launch in hand has one, at a call of the step of its row.
PollInStep ==
  /\ tick.at = "idle" <=> tick.cur = NoLaunch
  /\ tick.cur \notin tick.todo
  /\ tick.at # "idle" =>
       LET row == launch[tick.cur] IN
       /\ row.step \in 0..5
       /\ tick.at = "call" => /\ tick.call \in Base(row.step) + 1 .. Base(row.step + 1)
                              /\ chain[tick.cur] >= tick.call - 1
       /\ tick.at = "record" => chain[tick.cur] = Base(row.step + 1)

LEMMA CallLasts == ASSUME NEW l \in Launches, NEW step \in 0..5, NEW last \in 1..8,
                          Call(l, step, last),
                          <<step, last>> \in {<<0, 1>>, <<1, 2>>, <<2, 3>>, <<3, 4>>, <<4, 6>>, <<5, 8>>}
                   PROVE  last = Base(launch[l].step + 1) /\ launch[l].step = step
  BY DEF Call, Base

LEMMA TypeNext == LaunchTypeOK /\ PollInStep /\ [LaunchNext]_launchVars => LaunchTypeOK'
<1> SUFFICES ASSUME LaunchTypeOK, PollInStep, [LaunchNext]_launchVars PROVE LaunchTypeOK'
  OBVIOUS
<1>1. ASSUME NEW l \in Launches, CreateLaunch(l) PROVE LaunchTypeOK'
  BY <1>1 DEF CreateLaunch, payments, LaunchTypeOK, Row
<1>2. ASSUME NEW l \in Launches, QuoteFails(l) PROVE LaunchTypeOK'
  BY <1>2 DEF QuoteFails, LaunchTypeOK
<1>3. ASSUME NEW l \in Launches, NEW m \in {"zec", "submitted"}, Quote(l, m) PROVE LaunchTypeOK'
  BY <1>3 DEF Quote, LaunchTypeOK, Row, Methods
<1>4. ASSUME NEW q \in Requests, NEW l \in Launches, NEW r \in Refs, SubmitProof(q, l, r)
      PROVE  LaunchTypeOK'
  BY <1>4 DEF SubmitProof, LaunchTypeOK, Request
<1>5. ASSUME NEW q \in Requests, NEW l \in Launches, NEW r \in Refs, DetectZec(q, l, r)
      PROVE  LaunchTypeOK'
  BY <1>5 DEF DetectZec, LaunchTypeOK, Request
<1>6. ASSUME NEW q \in Requests, Verify(q) PROVE LaunchTypeOK'
  BY <1>6 DEF Verify, LaunchTypeOK, Request, Over, Unsent
<1>7. ASSUME NEW q \in Requests, MarkPaid(q) PROVE LaunchTypeOK'
  <2> DEFINE l == request[q].launch
             row == [launch[l] EXCEPT !.status = "PAID", !.ref = request[q].ref]
  <2>1. launch' = [launch EXCEPT ![l] = row]
    BY <1>7 DEF MarkPaid
  <2>2. ASSUME l \in Launches PROVE row \in Row
    <3>1. launch[l] \in Row /\ request[q].ref \in Refs \cup {NoRef}
      BY <2>2 DEF LaunchTypeOK, Request
    <3> QED
      BY <3>1 DEF Row
  <2>3. launch' \in [Launches -> Row]
    <3> HIDE DEF row
    <3> QED
      BY <2>1, <2>2 DEF LaunchTypeOK
  <2>4. request' \in [Requests -> Request]
    BY <1>7, Initials DEF MarkPaid, LaunchTypeOK
  <2> QED
    BY <1>7, <2>3, <2>4 DEF MarkPaid, LaunchTypeOK
<1>8. ASSUME NEW q \in Requests, MarkThrows(q) PROVE LaunchTypeOK'
  BY <1>8 DEF MarkThrows, LaunchTypeOK, Request, Over, Unsent
<1>9. CASE StartTick
  BY <1>9 DEF StartTick, payments, LaunchTypeOK, Tick, NextLaunch, IdleTick, ToAdvance, Effects
<1>10. ASSUME NEW l \in Launches, TakeLaunch(l) PROVE LaunchTypeOK'
  <2>1. launch[l].step \in Steps
    BY DEF LaunchTypeOK, Row
  <2>2. NextLaunch(tick.todo \ {l}) \in Tick
    BY Initials DEF NextLaunch, LaunchTypeOK, Tick
  <2>3. tick' \in Tick
    <3>1. CASE launch[l].step = 6
      BY <1>10, <2>2, <3>1 DEF TakeLaunch
    <3>2. CASE launch[l].step # 6
      <4>1. launch[l].step \in 0..5
        BY <2>1, <3>2 DEF Steps
      <4>2. Base(launch[l].step) + 1 \in 0..Effects
        BY <4>1 DEF Base, Effects
      <4>3. \E at \in {"call", "caught"} : tick' = [NextLaunch(tick.todo \ {l}) EXCEPT
               !.cur = l, !.call = Base(launch[l].step) + 1, !.at = at]
        BY <1>10, <3>2 DEF TakeLaunch
      <4> QED
        BY <2>2, <4>2, <4>3 DEF Tick
    <3> QED
      BY <3>1, <3>2
  <2> QED
    BY <1>10, <2>3 DEF TakeLaunch, payments, LaunchTypeOK
<1>11. ASSUME NEW l \in Launches, NEW step \in 0..5, NEW last \in 1..8, Call(l, step, last),
              last = Base(launch[l].step + 1)
       PROVE  LaunchTypeOK'
  <2>1. tick.cur = l /\ tick.at = "call" /\ tick.call \in Base(step) + 1 .. last /\ last <= Effects
        /\ launch[l].step = step
    BY <1>11, LaunchesAssumption DEF Call, Calling, PollInStep, Effects
  <2>2. chain' \in [Launches -> 0..Effects]
    BY <1>11, <2>1 DEF Call, CallAnswered, CallThrows, LaunchTypeOK, Effects, Tick
  <2>3. tick' \in Tick
    BY <1>11, <2>1, BaseBounds
       DEF Call, CallAnswered, CallThrows, LaunchTypeOK, Effects, Tick
  <2> QED
    BY <1>11, <2>2, <2>3 DEF Call, payments, LaunchTypeOK
<1>12. ASSUME NEW l \in Launches, RecordStep(l) PROVE LaunchTypeOK'
  <2>1. launch[l].step \in 0..5 /\ launch[l] \in Row
    BY <1>12, LaunchesAssumption DEF RecordStep, PollInStep, LaunchTypeOK
  <2> DEFINE step == launch[l].step + 1
             status == IF step = 6 THEN "LIVE" ELSE "DEPLOYING"
             key == IF step = 1 THEN TRUE ELSE IF step = 3 THEN FALSE ELSE launch[l].key
             row == [launch[l] EXCEPT !.step = step, !.attempts = 0, !.status = status, !.key = key]
  <2>2. launch' = [launch EXCEPT ![l] = row]
    BY <1>12 DEF RecordStep
  <2>3. row \in Row
    <3>1. key \in BOOLEAN
      BY <2>1 DEF Row
    <3>2. status \in {"LIVE", "DEPLOYING"} /\ step \in Steps
      BY <2>1 DEF Steps
    <3> HIDE DEF key, status, step
    <3> QED
      BY <2>1, <3>1, <3>2 DEF Row
  <2> HIDE DEF row
  <2>4. launch' \in [Launches -> Row]
    BY <2>2, <2>3 DEF LaunchTypeOK
  <2>5. tick' \in Tick
    BY <1>12, Initials DEF RecordStep, NextLaunch, LaunchTypeOK, Tick
  <2> QED
    BY <1>12, <2>4, <2>5 DEF RecordStep, payments, LaunchTypeOK
<1>13. ASSUME NEW l \in Launches, RecordThrows(l) PROVE LaunchTypeOK'
  BY <1>13 DEF RecordThrows, payments, LaunchTypeOK, Tick
<1>14. ASSUME NEW l \in Launches, CountFailure(l) PROVE LaunchTypeOK'
  BY <1>14 DEF CountFailure, payments, LaunchTypeOK, Row, Tick, NextLaunch, IdleTick, Effects
<1>15. ASSUME NEW l \in Launches, FailLaunch(l) PROVE LaunchTypeOK'
  BY <1>15 DEF FailLaunch, payments, LaunchTypeOK, Row, Tick, NextLaunch, IdleTick, Effects
<1>16. ASSUME NEW l \in Launches, TickThrows(l) PROVE LaunchTypeOK'
  BY <1>16 DEF TickThrows, payments, LaunchTypeOK, Tick, IdleTick, Effects
<1>17. CASE RestartLaunches
  BY <1>17 DEF RestartLaunches, LaunchTypeOK, Request, Unsent, Over, Tick, IdleTick, Effects
<1>18. CASE UNCHANGED launchVars
  BY <1>18 DEF launchVars, payments, LaunchTypeOK
<1>19. ASSUME NEW l \in Launches, Advance(l) PROVE LaunchTypeOK'
  BY <1>19, <1>10, <1>11, <1>12, <1>13, <1>14, <1>15, <1>16, CallLasts
     DEF Advance, StepCreateTokenAccount, StepDeployAndInitToken, StepRevokeDeployKey,
         StepCreatePool, StepSeedLiquidity, StepLockPosition
<1> QED
  BY <1>1, <1>2, <1>3, <1>4, <1>5, <1>6, <1>7, <1>8, <1>9, <1>17, <1>18, <1>19
     DEF LaunchNext, PaymentNext, PollNext

-----------------------------------------------------------------------------
(* The record follows the chain.                                           *)

\* What the poll has in hand, or ahead of it, was paid and is not settled.
PollPaid == \A l \in Launches :
  l \in tick.todo \/ tick.cur = l => launch[l].status \in {"PAID", "DEPLOYING"}

LaunchInv == LaunchTypeOK /\ PollInStep /\ PollPaid /\ RecordFollowsChain

LEMMA LaunchInvInit == LaunchInit => LaunchInv
<1> SUFFICES ASSUME LaunchInit PROVE LaunchInv
  OBVIOUS
<1>1. LaunchTypeOK
  BY LaunchTypeInit
<1>2. PollInStep /\ PollPaid
  BY LaunchesAssumption DEF LaunchInit, IdleTick, PollInStep, PollPaid
<1>3. RecordFollowsChain
  BY DEF LaunchInit, NoLaunchRow, RecordFollowsChain, Base
<1> QED
  BY <1>1, <1>2, <1>3 DEF LaunchInv

\* A step that keeps the chain and the poll, and of every row what the invariant
\* speaks of, up to the status.
Statuses == {"NONE", "PENDING", "PAID", "DEPLOYING", "LIVE", "FAILED"}
RowsKept == \A l \in Launches :
  /\ launch'[l].step = launch[l].step /\ launch'[l].key = launch[l].key
  /\ \/ launch'[l].status = launch[l].status
     \/ launch'[l].status = "PAID"
     \/ launch[l].status = "NONE" /\ launch'[l].status = "PENDING"

LEMMA PaymentKeeps == ASSUME LaunchInv, LaunchTypeOK', RowsKept, UNCHANGED <<tick, chain>>
                      PROVE  LaunchInv'
<1> USE DEF LaunchInv
<1>1. PollInStep'
  <2>1. tick.cur = NoLaunch \/ tick.cur \in Launches
    BY DEF LaunchTypeOK, Tick
  <2> QED
    BY <2>1 DEF PollInStep, RowsKept
<1>2. PollPaid'
  BY DEF PollPaid, RowsKept
<1>3. RecordFollowsChain'
  BY DEF RecordFollowsChain, RowsKept
<1> QED
  BY <1>1, <1>2, <1>3

LEMMA PaymentRows == ASSUME LaunchTypeOK, PaymentNext PROVE RowsKept /\ UNCHANGED <<tick, chain>>
<1>1. ASSUME NEW l \in Launches, CreateLaunch(l) \/ QuoteFails(l)
      PROVE  RowsKept /\ UNCHANGED <<tick, chain>>
  BY <1>1 DEF CreateLaunch, QuoteFails, RowsKept, LaunchTypeOK, Row
<1>2. ASSUME NEW l \in Launches, NEW m \in {"zec", "submitted"}, Quote(l, m)
      PROVE  RowsKept /\ UNCHANGED <<tick, chain>>
  BY <1>2 DEF Quote, RowsKept, LaunchTypeOK, Row
<1>3. ASSUME NEW q \in Requests, NEW l \in Launches, NEW r \in Refs,
             SubmitProof(q, l, r) \/ DetectZec(q, l, r)
      PROVE  RowsKept /\ UNCHANGED <<tick, chain>>
  BY <1>3 DEF SubmitProof, DetectZec, RowsKept
<1>4. ASSUME NEW q \in Requests, Verify(q) \/ MarkPaid(q) \/ MarkThrows(q)
      PROVE  RowsKept /\ UNCHANGED <<tick, chain>>
  BY <1>4 DEF Verify, MarkPaid, MarkThrows, RowsKept, LaunchTypeOK, Row
<1> QED
  BY <1>1, <1>2, <1>3, <1>4 DEF PaymentNext

LEMMA PaymentInv == ASSUME LaunchInv, PaymentNext PROVE LaunchInv'
<1>1. LaunchTypeOK'
  BY TypeNext DEF LaunchNext, LaunchInv
<1> QED
  BY <1>1, PaymentRows, PaymentKeeps DEF LaunchInv

LEMMA CallInv == ASSUME LaunchInv, LaunchTypeOK', NEW l \in Launches, NEW step \in 0..5,
                        NEW last \in 1..8, Call(l, step, last), last = Base(launch[l].step + 1)
                 PROVE  LaunchInv'
<1> USE DEF LaunchInv
<1>1. tick.cur = l /\ tick.at = "call" /\ l # NoLaunch /\ launch[l].step = step
      /\ launch' = launch /\ tick.call \in Base(step) + 1 .. last
  BY LaunchesAssumption DEF Call, Calling, PollInStep
<1>2. /\ tick'.cur = l /\ tick'.todo = tick.todo
      /\ \A o \in Launches : o # l => chain'[o] = chain[o]
      /\ chain'[l] = chain[l] \/ (chain[l] = tick.call - 1 /\ chain'[l] = tick.call)
  BY <1>1 DEF Call, CallAnswered, CallThrows, Applied, LaunchTypeOK, Tick
<1>3. PollInStep'
  <2>1. CASE CallAnswered(l, last)
    BY <1>1, <2>1 DEF CallAnswered, PollInStep, LaunchTypeOK, Tick, Effects, Base
  <2>2. CASE CallThrows(l)
    BY <1>1, <2>2 DEF CallThrows, PollInStep, LaunchTypeOK, Tick
  <2> QED
    BY <2>1, <2>2 DEF Call
<1>4. PollPaid'
  BY <1>1, <1>2 DEF PollPaid
<1>5. RecordFollowsChain'
  BY <1>1, <1>2 DEF RecordFollowsChain, PollPaid, LaunchTypeOK, Effects, Base
<1> QED
  BY <1>3, <1>4, <1>5

LEMMA RecordInv == ASSUME LaunchInv, LaunchTypeOK', NEW l \in Launches, RecordStep(l)
                   PROVE  LaunchInv'
<1> USE DEF LaunchInv
<1>1. tick.cur = l /\ l # NoLaunch /\ launch[l].step \in 0..5
      /\ chain[l] = Base(launch[l].step + 1) /\ chain' = chain
  BY LaunchesAssumption DEF RecordStep, PollInStep
<1>2. tick'.cur = NoLaunch /\ tick'.at = "idle" /\ tick'.todo = tick.todo
  BY DEF RecordStep, NextLaunch, IdleTick
<1>3. /\ launch'[l].step = launch[l].step + 1
      /\ launch'[l].status = IF launch[l].step + 1 = 6 THEN "LIVE" ELSE "DEPLOYING"
      /\ \A o \in Launches : o # l => launch'[o] = launch[o]
  BY DEF RecordStep, LaunchTypeOK, Row
<1>4. launch'[l].key <=> launch'[l].step \in {1, 2}
  <2>1. launch'[l].key = IF launch[l].step + 1 = 1 THEN TRUE
                         ELSE IF launch[l].step + 1 = 3 THEN FALSE ELSE launch[l].key
    BY DEF RecordStep, LaunchTypeOK, Row
  <2>2. launch[l].key <=> launch[l].step \in {1, 2}
    BY DEF RecordFollowsChain
  <2> QED
    BY <1>1, <1>3, <2>1, <2>2
<1>5. PollInStep'
  BY <1>2, LaunchesAssumption DEF PollInStep, LaunchTypeOK, Tick
<1>6. PollPaid'
  <2>1. l \notin tick.todo
    BY <1>1 DEF PollInStep
  <2> QED
    BY <1>2, <1>3, <2>1, LaunchesAssumption DEF PollPaid
<1>7. RecordFollowsChain'
  <2>1. ASSUME NEW o \in Launches, o # l PROVE launch'[o] = launch[o] /\ chain'[o] = chain[o]
    BY <1>1, <1>3, <2>1
  <2>2. /\ Base(launch'[l].step) <= chain'[l]
        /\ launch'[l].step < 6 => chain'[l] <= Base(launch'[l].step + 1)
        /\ launch'[l].status \in {"LIVE", "DEPLOYING"}
        /\ launch'[l].status = "LIVE" => launch'[l].step = 6
    BY <1>1, <1>3 DEF Base
  <2> QED
    BY <1>4, <2>1, <2>2 DEF RecordFollowsChain
<1> QED
  BY <1>5, <1>6, <1>7

LEMMA TickInv == ASSUME LaunchInv, LaunchTypeOK', NEW l \in Launches,
                        StartTick \/ TakeLaunch(l) \/ RecordThrows(l) \/ TickThrows(l)
                 PROVE  LaunchInv'
<1> USE DEF LaunchInv
<1>1. UNCHANGED <<launch, chain>>
  BY DEF StartTick, TakeLaunch, RecordThrows, TickThrows
<1>2. RecordFollowsChain'
  BY <1>1 DEF RecordFollowsChain
<1>3. CASE StartTick
  <2>1. tick'.at = "idle" /\ tick'.cur = NoLaunch /\ tick'.todo = ToAdvance
    BY <1>3 DEF StartTick, NextLaunch, IdleTick
  <2> QED
    BY <1>1, <1>2, <2>1, LaunchesAssumption DEF PollInStep, PollPaid, ToAdvance
<1>4. CASE TakeLaunch(l)
  <2>1. tick'.todo = tick.todo \ {l}
        /\ tick'.cur = IF launch[l].step = 6 THEN NoLaunch ELSE l
    BY <1>4 DEF TakeLaunch, NextLaunch, IdleTick
  <2>2. PollPaid'
    BY <1>1, <1>4, <2>1, LaunchesAssumption DEF PollPaid, TakeLaunch
  <2>3. PollInStep'
    <3>1. CASE launch[l].step = 6
      <4>1. tick'.at = "idle" /\ tick'.cur = NoLaunch
        BY <1>4, <3>1 DEF TakeLaunch, NextLaunch, IdleTick
      <4> QED
        BY <2>1, <4>1, LaunchesAssumption DEF PollInStep, LaunchTypeOK, Tick
    <3>2. CASE launch[l].step # 6
      <4>1. launch[l].step \in 0..5
        BY <3>2 DEF LaunchTypeOK, Row, Steps
      <4>2. tick'.at \in {"call", "caught"} /\ tick'.call = Base(launch[l].step) + 1
        BY <1>4, <3>2 DEF TakeLaunch, NextLaunch, IdleTick
      <4>3. tick'.call \in Base(launch[l].step) + 1 .. Base(launch[l].step + 1)
        BY <4>1, <4>2, BaseBounds
      <4>4. chain[l] >= tick'.call - 1
        BY <4>1, <4>2, BaseBounds DEF RecordFollowsChain, LaunchTypeOK, Effects
      <4>5. tick'.cur = l /\ l \notin tick'.todo /\ launch'[l] = launch[l] /\ chain'[l] = chain[l]
        BY <1>1, <2>1, <3>2
      <4> QED
        BY <4>1, <4>2, <4>3, <4>4, <4>5, LaunchesAssumption DEF PollInStep
    <3> QED
      BY <3>1, <3>2
  <2> QED
    BY <1>2, <2>2, <2>3
<1>5. CASE RecordThrows(l)
  <2>1. tick'.at = "caught" /\ tick'.cur = tick.cur /\ tick'.todo = tick.todo /\ tick.at = "record"
    BY <1>5 DEF RecordThrows, LaunchTypeOK, Tick
  <2> QED
    BY <1>1, <1>2, <2>1 DEF PollInStep, PollPaid
<1>6. CASE TickThrows(l)
  <2>1. tick'.at = "idle" /\ tick'.cur = NoLaunch /\ tick'.todo = {}
    BY <1>6 DEF TickThrows, IdleTick
  <2> QED
    BY <1>1, <1>2, <2>1, LaunchesAssumption DEF PollInStep, PollPaid
<1> QED
  BY <1>3, <1>4, <1>5, <1>6

LEMMA FailureInv == ASSUME LaunchInv, LaunchTypeOK', NEW l \in Launches, CountFailure(l) \/ FailLaunch(l)
                    PROVE  LaunchInv'
<1> USE DEF LaunchInv
<1>1. /\ tick.cur = l /\ tick.at \in {"caught", "giveup"} /\ chain' = chain /\ l # NoLaunch
      /\ launch'[l].step = launch[l].step /\ launch'[l].key = launch[l].key
      /\ launch'[l].status = launch[l].status \/ launch'[l].status = "FAILED"
      /\ \A o \in Launches : o # l => launch'[o] = launch[o]
  BY LaunchesAssumption DEF CountFailure, FailLaunch, LaunchTypeOK, Row
<1>2. tick'.todo = tick.todo /\ l \notin tick.todo
  BY <1>1 DEF CountFailure, FailLaunch, NextLaunch, IdleTick, LaunchTypeOK, Tick, PollInStep
<1>3. \/ tick'.cur = NoLaunch /\ tick'.at = "idle"
      \/ tick'.cur = l /\ tick'.at = "giveup" /\ launch'[l].status = launch[l].status
  BY <1>1 DEF CountFailure, FailLaunch, NextLaunch, IdleTick, LaunchTypeOK, Tick, Row
<1>4. PollInStep'
  BY <1>1, <1>2, <1>3, LaunchesAssumption DEF PollInStep, LaunchTypeOK, Tick
<1>5. PollPaid'
  BY <1>1, <1>2, <1>3, LaunchesAssumption DEF PollPaid
<1>6. RecordFollowsChain'
  BY <1>1 DEF RecordFollowsChain, PollPaid
<1> QED
  BY <1>4, <1>5, <1>6

LEMMA LaunchInvNext == LaunchInv /\ [LaunchNext]_launchVars => LaunchInv'
<1> SUFFICES ASSUME LaunchInv, [LaunchNext]_launchVars PROVE LaunchInv'
  OBVIOUS
<1>1. LaunchTypeOK'
  BY TypeNext DEF LaunchInv
<1>2. CASE PaymentNext
  BY <1>2, PaymentInv
<1>3. CASE StartTick
  <2>1. PICK l \in Launches : launch[l].status \in {"PAID", "DEPLOYING"}
    BY <1>3 DEF StartTick, ToAdvance
  <2> QED
    BY <1>1, <1>3, <2>1, TickInv
<1>4. ASSUME NEW l \in Launches, Advance(l) PROVE LaunchInv'
  BY <1>1, <1>4, TickInv, FailureInv, RecordInv, CallInv, CallLasts
     DEF Advance, StepCreateTokenAccount, StepDeployAndInitToken, StepRevokeDeployKey,
         StepCreatePool, StepSeedLiquidity, StepLockPosition
<1>5. CASE RestartLaunches
  <2>1. tick'.at = "idle" /\ tick'.cur = NoLaunch /\ tick'.todo = {} /\ UNCHANGED <<launch, chain>>
    BY <1>5 DEF RestartLaunches, IdleTick
  <2> QED
    BY <1>1, <2>1, LaunchesAssumption DEF LaunchInv, PollInStep, PollPaid, RecordFollowsChain
<1>6. CASE UNCHANGED launchVars
  BY <1>1, <1>6 DEF launchVars, LaunchInv, PollInStep, PollPaid, RecordFollowsChain
<1> QED
  BY <1>2, <1>3, <1>4, <1>5, <1>6 DEF LaunchNext, PollNext

\* The invariant, of every behaviour: what the poll has in hand was paid, and the
\* row follows NEAR.
THEOREM LaunchInvariant == LaunchSpec => []LaunchInv
<1>1. LaunchInit => LaunchInv
  BY LaunchInvInit
<1>2. LaunchInv /\ [LaunchNext]_launchVars => LaunchInv'
  BY LaunchInvNext
<1> QED
  BY <1>1, <1>2, PTL DEF LaunchSpec

\* Every row, payment and poll keeps its type: no step past the last, no call
\* past the last effect, no record of a launch that does not exist.
THEOREM LaunchTypeAlways == LaunchSpec => []LaunchTypeOK
<1>1. LaunchInv => LaunchTypeOK
  BY DEF LaunchInv
<1> QED
  BY <1>1, LaunchInvariant, PTL

\* The row of a launch is never ahead of NEAR and at most one step behind, nothing
\* is built unpaid, and the deploy key is in the row while the account has it.
THEOREM RecordFollowsChainAlways == LaunchSpec => []RecordFollowsChain
<1>1. LaunchInv => RecordFollowsChain
  BY DEF LaunchInv
<1> QED
  BY <1>1, LaunchInvariant, PTL

-----------------------------------------------------------------------------
(* A stranded launch stays stranded.                                       *)

LEMMA StrandedStep == ASSUME LaunchInv, LaunchNext, NEW l \in Launches, Stranded(l)
                      PROVE  Stranded(l)'
<1> USE DEF LaunchInv
<1>1. CASE PaymentNext
  <2>1. launch'[l].step = launch[l].step /\ UNCHANGED <<tick, chain>>
    BY <1>1, PaymentRows DEF RowsKept
  <2> QED
    BY <2>1 DEF Stranded, Moving, Applied
<1>2. CASE StartTick \/ RestartLaunches
  <2>1. tick'.cur = NoLaunch /\ UNCHANGED <<launch, chain>>
    BY <1>2 DEF StartTick, RestartLaunches, NextLaunch, IdleTick
  <2> QED
    BY <2>1, LaunchesAssumption DEF Stranded, Moving
<1>3. ASSUME NEW o \in Launches, TakeLaunch(o) PROVE Stranded(l)'
  <2>1. tick'.cur = l => o = l /\ (tick'.at = "call" => tick'.call = Base(launch[l].step) + 1)
        /\ tick'.at # "record"
    BY <1>3, LaunchesAssumption DEF TakeLaunch, NextLaunch, IdleTick
  <2>2. Base(launch[l].step) \in Int
    BY DEF LaunchTypeOK, Row, Steps, Base
  <2>3. UNCHANGED <<launch, chain>>
    BY <1>3 DEF TakeLaunch
  <2> QED
    BY <2>1, <2>2, <2>3 DEF Stranded, Moving, Applied
<1>4. ASSUME NEW o \in Launches, NEW step \in 0..5, NEW last \in 1..8, Call(o, step, last)
      PROVE  Stranded(l)'
  <2>1. tick.cur = o /\ tick.at = "call" /\ tick'.cur = o /\ launch' = launch
    BY <1>4 DEF Call, Calling, CallAnswered, CallThrows, LaunchTypeOK, Tick
  <2>2. CASE o = l
    <3>1. ~Applied(l)
      BY <2>1, <2>2 DEF Stranded, Moving
    <3>2. chain' = chain /\ tick'.at = "caught"
      BY <1>4, <2>2, <3>1 DEF Call, CallAnswered, CallThrows, LaunchTypeOK, Tick
    <3> QED
      BY <2>1, <3>2 DEF Stranded, Moving
  <2>3. CASE o # l
    <3>1. chain'[l] = chain[l]
      BY <1>4, <2>3 DEF Call, CallAnswered, CallThrows, LaunchTypeOK
    <3> QED
      BY <2>1, <2>3, <3>1 DEF Stranded, Moving
  <2> QED
    BY <2>2, <2>3
<1>5. ASSUME NEW o \in Launches, RecordStep(o) PROVE Stranded(l)'
  <2>1. o # l
    BY <1>5 DEF RecordStep, Stranded, Moving
  <2>2. tick'.cur = NoLaunch /\ launch'[l] = launch[l] /\ chain' = chain
    BY <1>5, <2>1 DEF RecordStep, NextLaunch, IdleTick, LaunchTypeOK
  <2> QED
    BY <2>2, LaunchesAssumption DEF Stranded, Moving
<1>6. ASSUME NEW o \in Launches,
             RecordThrows(o) \/ CountFailure(o) \/ FailLaunch(o) \/ TickThrows(o)
      PROVE  Stranded(l)'
  <2>1. tick'.cur = NoLaunch \/ tick'.at \in {"caught", "giveup"}
    BY <1>6 DEF RecordThrows, CountFailure, FailLaunch, TickThrows, NextLaunch, IdleTick,
                LaunchTypeOK, Tick
  <2>2. launch'[l].step = launch[l].step /\ chain' = chain
    BY <1>6 DEF RecordThrows, CountFailure, FailLaunch, TickThrows, LaunchTypeOK, Row
  <2> QED
    BY <2>1, <2>2, LaunchesAssumption DEF Stranded, Moving
<1> QED
  BY <1>1, <1>2, <1>3, <1>4, <1>5, <1>6
     DEF LaunchNext, PollNext, Advance, StepCreateTokenAccount, StepDeployAndInitToken,
         StepRevokeDeployKey, StepCreatePool, StepSeedLiquidity, StepLockPosition

\* A launch that fell behind NEAR never catches up: no retry of its step, restart
\* or later payment brings the row and the chain together again.
THEOREM StrandedStaysAlways == LaunchSpec => StrandedStays
<1>1. LaunchInv /\ [LaunchNext]_launchVars
      => [\A l \in Launches : Stranded(l) => Stranded(l)']_launchVars
  BY StrandedStep
<1> QED
  BY <1>1, LaunchInvariant, PTL DEF LaunchSpec, StrandedStays

-----------------------------------------------------------------------------
(* The pipeline implements LaunchChain.                                    *)

fates == [l \in Launches |-> Fate(l)]

\* What one row does is what the abstract launch does, when the others stay.
LEMMA FateStep == ASSUME NEW l \in Launches,
                         \A o \in Launches : o # l => launch'[o].status = launch[o].status
                  PROVE  fates' = [fates EXCEPT ![l] = Fate(l)']
<1>1. ASSUME NEW o \in Launches, o # l PROVE Fate(o)' = Fate(o)
  BY <1>1 DEF Fate
<1> QED
  BY <1>1 DEF fates

LEMMA FateStays == ASSUME \A o \in Launches : Fate(o)' = Fate(o) PROVE fates' = fates
  BY DEF fates

LEMMA PaymentRefines == ASSUME LaunchInv, PaymentNext
                        PROVE  LC!LCNext \/ UNCHANGED <<fates, chain>>
<1> USE DEF LaunchInv
<1>1. ASSUME NEW l \in Launches, CreateLaunch(l) PROVE UNCHANGED <<fates, chain>>
  <2>1. \A o \in Launches : Fate(o)' = Fate(o)
    BY <1>1 DEF CreateLaunch, LaunchTypeOK, Row, Fate
  <2> QED
    BY <1>1, <2>1, FateStays DEF CreateLaunch
<1>2. ASSUME NEW l \in Launches, QuoteFails(l) PROVE UNCHANGED <<fates, chain>>
  BY <1>2, FateStays DEF QuoteFails, Fate
<1>3. ASSUME NEW l \in Launches, NEW m \in {"zec", "submitted"}, Quote(l, m)
      PROVE  UNCHANGED <<fates, chain>>
  <2>1. \A o \in Launches : Fate(o)' = Fate(o)
    BY <1>3 DEF Quote, LaunchTypeOK, Row, Fate
  <2> QED
    BY <1>3, <2>1, FateStays DEF Quote
<1>4. ASSUME NEW q \in Requests, NEW l \in Launches, NEW r \in Refs,
             SubmitProof(q, l, r) \/ DetectZec(q, l, r)
      PROVE  UNCHANGED <<fates, chain>>
  BY <1>4, FateStays DEF SubmitProof, DetectZec, Fate
<1>5. ASSUME NEW q \in Requests, Verify(q) \/ MarkThrows(q) PROVE UNCHANGED <<fates, chain>>
  BY <1>5, FateStays DEF Verify, MarkThrows, Fate
<1>6. ASSUME NEW q \in Requests, MarkPaid(q) PROVE LC!LCNext \/ UNCHANGED <<fates, chain>>
  <2>1. ASSUME NEW l \in Launches, request[q].launch = l PROVE LC!LCNext
    <3>1. Fate(l)' = "paid" /\ \A o \in Launches : o # l => launch'[o].status = launch[o].status
      BY <1>6, <2>1 DEF MarkPaid, LaunchTypeOK, Row, Fate
    <3>2. fates' = [fates EXCEPT ![l] = "paid"]
      BY <3>1, FateStep
    <3>3. chain' = chain
      BY <1>6 DEF MarkPaid
    <3> QED
      BY <3>2, <3>3 DEF LC!LCNext, LC!Pay, fates
  <2>2. CASE request[q].launch \notin Launches
    BY <1>6, <2>2, FateStays DEF MarkPaid, LaunchTypeOK, Fate
  <2> QED
    BY <2>1, <2>2
<1> QED
  BY <1>1, <1>2, <1>3, <1>4, <1>5, <1>6 DEF PaymentNext

LEMMA CallRefines == ASSUME LaunchInv, NEW l \in Launches, NEW step \in 0..5, NEW last \in 1..8,
                            Call(l, step, last), last = Base(launch[l].step + 1)
                     PROVE  LC!LCNext \/ UNCHANGED <<fates, chain>>
<1> USE DEF LaunchInv
<1>1. fates' = fates
  BY FateStays DEF Call, Fate
<1>2. CASE Applied(l) /\ chain' = [chain EXCEPT ![l] = tick.call]
  <2>1. fates[l] = "paid"
    BY DEF Call, Calling, PollPaid, Fate, fates
  <2>2. chain[l] < LC!Effects /\ tick.call = chain[l] + 1
    BY <1>2, BaseBounds, LaunchesAssumption
       DEF Call, Calling, PollInStep, Applied, LC!Effects, LaunchTypeOK, Effects, Tick
  <2> QED
    BY <1>1, <1>2, <2>1, <2>2 DEF LC!LCNext, LC!Build, fates
<1>3. CASE chain' = chain
  BY <1>1, <1>3
<1> QED
  BY <1>2, <1>3 DEF Call, CallAnswered, CallThrows

LEMMA RecordRefines == ASSUME LaunchInv, NEW l \in Launches, RecordStep(l)
                       PROVE  LC!LCNext \/ UNCHANGED <<fates, chain>>
<1> USE DEF LaunchInv
<1>1. tick.cur = l /\ launch[l].step \in 0..5 /\ fates[l] = "paid"
      /\ chain[l] = Base(launch[l].step + 1) /\ chain' = chain
  BY LaunchesAssumption DEF RecordStep, PollInStep, PollPaid, fates, Fate
<1>2. \A o \in Launches : o # l => launch'[o].status = launch[o].status
  BY DEF RecordStep, LaunchTypeOK
<1>3. CASE launch[l].step = 5
  <2>1. Fate(l)' = "live"
    BY <1>3 DEF RecordStep, LaunchTypeOK, Row, Fate
  <2>2. fates' = [fates EXCEPT ![l] = "live"]
    BY <1>2, <2>1, FateStep
  <2>3. chain[l] = LC!Effects
    BY <1>1, <1>3 DEF LC!Effects, Base
  <2>4. LC!Announce(l)
    BY <1>1, <2>2, <2>3 DEF LC!Announce, fates
  <2> QED
    BY <2>4 DEF LC!LCNext
<1>4. CASE launch[l].step # 5
  <2>1. Fate(l)' = "paid"
    BY <1>1, <1>4 DEF RecordStep, LaunchTypeOK, Row, Fate
  <2>2. fates' = [fates EXCEPT ![l] = "paid"]
    BY <1>2, <2>1, FateStep
  <2> QED
    BY <1>1, <2>2 DEF fates
<1> QED
  BY <1>3, <1>4

LEMMA FailRefines == ASSUME LaunchInv, NEW l \in Launches, CountFailure(l) \/ FailLaunch(l)
                     PROVE  LC!LCNext \/ UNCHANGED <<fates, chain>>
<1> USE DEF LaunchInv
<1>1. CASE CountFailure(l)
  <2>1. \A o \in Launches : Fate(o)' = Fate(o)
    BY <1>1 DEF CountFailure, LaunchTypeOK, Row, Fate
  <2> QED
    BY <1>1, <2>1, FateStays DEF CountFailure
<1>2. CASE FailLaunch(l)
  <2>1. Fate(l)' = "failed" /\ \A o \in Launches : o # l => launch'[o].status = launch[o].status
    BY <1>2 DEF FailLaunch, LaunchTypeOK, Row, Fate
  <2>2. fates' = [fates EXCEPT ![l] = "failed"]
    BY <2>1, FateStep
  <2>3. fates[l] = "paid" /\ chain' = chain
    BY <1>2 DEF FailLaunch, PollPaid, fates, Fate
  <2> QED
    BY <2>2, <2>3 DEF LC!LCNext, LC!GiveUp, fates
<1> QED
  BY <1>1, <1>2

LEMMA StepRefines == LaunchInv /\ [LaunchNext]_launchVars => LC!LCNext \/ UNCHANGED <<fates, chain>>
<1> SUFFICES ASSUME LaunchInv, [LaunchNext]_launchVars
             PROVE  LC!LCNext \/ UNCHANGED <<fates, chain>>
  OBVIOUS
<1>1. CASE StartTick \/ RestartLaunches \/ UNCHANGED launchVars
  BY <1>1, FateStays DEF StartTick, RestartLaunches, launchVars, Fate
<1>2. ASSUME NEW l \in Launches, Advance(l) PROVE LC!LCNext \/ UNCHANGED <<fates, chain>>
  <2>1. CASE TakeLaunch(l) \/ RecordThrows(l) \/ TickThrows(l)
    BY <2>1, FateStays DEF TakeLaunch, RecordThrows, TickThrows, Fate
  <2> QED
    BY <1>2, <2>1, CallRefines, CallLasts, RecordRefines, FailRefines
       DEF Advance, StepCreateTokenAccount, StepDeployAndInitToken, StepRevokeDeployKey,
           StepCreatePool, StepSeedLiquidity, StepLockPosition
<1> QED
  BY <1>1, <1>2, PaymentRefines DEF LaunchNext, PollNext

\* The pipeline, with its tries, faults and restarts, keeps what LaunchChain
\* promises: nothing is built unpaid, each effect once and in order, and a launch
\* is announced only when NEAR has all of it.
THEOREM PipelineImplementsLaunchChain == LaunchSpec => ImplementsLaunchChain
<1>1. LaunchInit => LC!LCInit
  <2>1. ASSUME LaunchInit PROVE \A l \in Launches : Fate(l) = "asked"
    BY <2>1 DEF LaunchInit, NoLaunchRow, Fate
  <2> QED
    BY <2>1 DEF LaunchInit, LC!LCInit
<1>2. LaunchInv /\ [LaunchNext]_launchVars
      => [LC!LCNext]_<<[l \in Launches |-> Fate(l)], chain>>
  BY StepRefines DEF fates
<1> QED
  BY <1>1, <1>2, LaunchInvariant, PTL DEF LaunchSpec, ImplementsLaunchChain, LC!LCSpec

-----------------------------------------------------------------------------
(* One payment for one launch.                                             *)

InFlight(q) == request[q].at \in {"verify", "mark"}

\* A request names a launch and a transaction exactly while it is in flight, and a
\* watched launch is pending.
RequestsNamed ==
  /\ \A q \in Requests :
       IF InFlight(q) THEN request[q].launch \in Launches /\ request[q].ref \in Refs
       ELSE request[q].launch = NoLaunch /\ request[q].ref = NoRef
  /\ \A l \in zecWatch : launch[l].status = "PENDING"

\* Without overlaps, what is in flight is for a launch that is still pending, with
\* a transaction that no other launch has, and no two name the same of either.
Apart ==
  /\ \A q \in Requests : InFlight(q) =>
       /\ launch[request[q].launch].status = "PENDING"
       /\ request[q].ref \notin ZecRefs => ~UsedElsewhere(request[q].launch, request[q].ref)
  /\ \A p, q \in Requests : p # q /\ InFlight(p) /\ InFlight(q) =>
       request[p].launch # request[q].launch /\ request[p].ref # request[q].ref

PaymentsApart == RequestsNamed /\ (~overlap => Apart) /\ OnePaymentOneLaunch

LEMMA PaymentsApartInit == LaunchInit => PaymentsApart
  BY RefsAssumption DEF LaunchInit, PaymentsApart, RequestsNamed, Apart, InFlight, Unsent, NoLaunchRow, OnePaymentOneLaunch

\* A step that adds no request and takes no launch out of PENDING, changes no
\* transaction, and keeps live what is live.
RequestsKept == \A q \in Requests :
  \/ request'[q] = request[q]
  \/ /\ request'[q].launch = NoLaunch /\ request'[q].ref = NoRef
     /\ request'[q].at \in {"unsent", "over"}
RowQuiet(l) ==
  /\ launch'[l].ref = launch[l].ref
  /\ launch[l].status = "PENDING" => launch'[l].status = "PENDING"
  /\ launch'[l].step = 6 => \/ launch'[l].status = "LIVE"
                            \/ launch[l].step = 6 /\ launch'[l].status = launch[l].status
Quiet == /\ RequestsKept /\ (\A l \in Launches : RowQuiet(l))
         /\ (\A l \in zecWatch' : launch'[l].status = "PENDING")
         /\ overlap' = overlap

LEMMA QuietStep == ASSUME LaunchTypeOK, PaymentsApart, Quiet PROVE PaymentsApart'
<1> USE DEF Quiet, RequestsKept, RowQuiet
<1>1. \A q \in Requests : InFlight(q)' => request'[q] = request[q] /\ InFlight(q)
  BY DEF InFlight
<1>2. RequestsNamed'
  BY <1>1 DEF PaymentsApart, RequestsNamed, InFlight
<1>3. (~overlap => Apart)'
  BY <1>1 DEF PaymentsApart, RequestsNamed, Apart, UsedElsewhere
<1>4. OnePaymentOneLaunch'
  BY DEF PaymentsApart, OnePaymentOneLaunch
<1> QED
  BY <1>2, <1>3, <1>4 DEF PaymentsApart

\* A new request, which the history variable compares with those in flight.
LEMMA NewRequest == ASSUME LaunchTypeOK, PaymentsApart, NEW q \in Requests, NEW l \in Launches,
                           NEW r \in Refs, NEW at \in {"verify", "mark"}, ~InFlight(q),
                           launch[l].status = "PENDING", r \notin ZecRefs => ~UsedElsewhere(l, r),
                           request' = [request EXCEPT ![q] = [launch |-> l, ref |-> r, at |-> at]],
                           overlap' = (overlap \/ Overlaps(l, r)), UNCHANGED <<launch, zecWatch>>
                    PROVE  PaymentsApart'
<1>1. /\ request'[q].launch = l /\ request'[q].ref = r /\ InFlight(q)'
      /\ \A p \in Requests : p # q => request'[p] = request[p] /\ (InFlight(p)' <=> InFlight(p))
  BY DEF LaunchTypeOK, InFlight
<1>2. RequestsNamed'
  BY <1>1 DEF PaymentsApart, RequestsNamed
<1>3. ASSUME ~overlap' PROVE Apart'
  <2>1. Apart /\ \A p \in Requests : request[p].launch # l /\ request[p].ref # r
    BY <1>3 DEF PaymentsApart, Overlaps
  <2> QED
    BY <1>1, <2>1 DEF Apart, UsedElsewhere
<1>4. OnePaymentOneLaunch'
  BY DEF PaymentsApart, OnePaymentOneLaunch
<1> QED
  BY <1>2, <1>3, <1>4 DEF PaymentsApart

LEMMA MarkApart == ASSUME LaunchInv, PaymentsApart, NEW q \in Requests, MarkPaid(q)
                   PROVE  PaymentsApart'
<1>1. PICK l \in Launches : request[q].launch = l /\ InFlight(q)
  BY DEF MarkPaid, PaymentsApart, RequestsNamed, InFlight
<1>2. PICK r \in Refs : request[q].ref = r
  BY <1>1 DEF PaymentsApart, RequestsNamed
<1>3. /\ launch'[l].status = "PAID" /\ launch'[l].ref = r /\ launch'[l].step = launch[l].step
      /\ \A o \in Launches : o # l => launch'[o] = launch[o]
  BY <1>1, <1>2 DEF MarkPaid, LaunchInv, LaunchTypeOK, Row
<1>4. /\ request'[q].launch = NoLaunch /\ request'[q].ref = NoRef /\ ~InFlight(q)'
      /\ \A p \in Requests : p # q => request'[p] = request[p] /\ (InFlight(p)' <=> InFlight(p))
  BY DEF MarkPaid, LaunchInv, LaunchTypeOK, InFlight, Over, Unsent
<1>5. zecWatch' = zecWatch \ {l} /\ zecWatch \subseteq Launches /\ overlap' = overlap
  BY <1>1 DEF MarkPaid, LaunchInv, LaunchTypeOK
<1>6. RequestsNamed'
  BY <1>3, <1>4, <1>5 DEF PaymentsApart, RequestsNamed
<1>7. ASSUME ~overlap PROVE Apart' /\ OnePaymentOneLaunch'
  <2>1. Apart /\ OnePaymentOneLaunch /\ RequestsNamed
    BY <1>7 DEF PaymentsApart
  <2>2. \A p \in Requests : InFlight(p)' =>
          request[p].launch \in Launches \ {l} /\ request[p].ref # r /\ InFlight(p) /\ p # q
    BY <1>1, <1>2, <1>4, <2>1 DEF Apart, RequestsNamed
  <2>3. Apart'
    BY <1>3, <1>4, <2>1, <2>2 DEF Apart, UsedElsewhere
  <2>4. launch[l].step # 6
    <3>1. launch[l].status = "PENDING"
      BY <1>1, <2>1 DEF Apart
    <3> QED
      BY <3>1 DEF LaunchInv, RecordFollowsChain, Base
  <2>5. r \notin ZecRefs => \A o \in Launches : o # l => launch[o].ref # r
    BY <1>1, <1>2, <2>1 DEF Apart, UsedElsewhere
  <2>6. OnePaymentOneLaunch'
    BY <1>3, <1>7, <2>1, <2>4, <2>5 DEF OnePaymentOneLaunch
  <2> QED
    BY <2>3, <2>6
<1> QED
  BY <1>5, <1>6, <1>7 DEF PaymentsApart, OnePaymentOneLaunch

LEMMA PaymentApart == ASSUME LaunchInv, PaymentsApart, PaymentNext PROVE PaymentsApart'
<1> USE DEF LaunchInv
<1>1. ASSUME NEW l \in Launches, CreateLaunch(l) \/ QuoteFails(l) PROVE PaymentsApart'
  <2>1. /\ UNCHANGED <<request, overlap>> /\ zecWatch' \subseteq zecWatch
        /\ \A o \in Launches :
             /\ launch'[o].ref = launch[o].ref /\ launch'[o].step = launch[o].step
             /\ \/ launch'[o].status = launch[o].status
                \/ launch[o].status = "NONE" /\ launch'[o].status = "PENDING"
    BY <1>1 DEF CreateLaunch, QuoteFails, payments, LaunchTypeOK, Row
  <2>2. \A o \in Launches : launch[o].status = "NONE" => launch[o].step # 6
    BY DEF RecordFollowsChain, Base
  <2> QED
    BY <2>1, <2>2, QuietStep
       DEF PaymentsApart, RequestsNamed, LaunchTypeOK, Quiet, RequestsKept, RowQuiet
<1>2. ASSUME NEW l \in Launches, NEW m \in {"zec", "submitted"}, Quote(l, m) PROVE PaymentsApart'
  <2>1. /\ UNCHANGED <<request, overlap>> /\ zecWatch' \subseteq zecWatch \cup {l}
        /\ launch[l].status = "PENDING"
        /\ \A o \in Launches : /\ launch'[o].ref = launch[o].ref /\ launch'[o].step = launch[o].step
                               /\ launch'[o].status = launch[o].status
    BY <1>2 DEF Quote, LaunchTypeOK, Row
  <2> QED
    BY <2>1, QuietStep
       DEF PaymentsApart, RequestsNamed, LaunchTypeOK, Quiet, RequestsKept, RowQuiet
<1>3. ASSUME NEW q \in Requests, NEW l \in Launches, NEW r \in Refs, SubmitProof(q, l, r)
      PROVE  PaymentsApart'
  <2>1. ~InFlight(q)
    BY <1>3 DEF SubmitProof, InFlight
  <2> QED
    BY <1>3, <2>1, NewRequest DEF SubmitProof
<1>4. ASSUME NEW q \in Requests, NEW l \in Launches, NEW r \in Refs, DetectZec(q, l, r)
      PROVE  PaymentsApart'
  <2>1. ~InFlight(q) /\ launch[l].status = "PENDING"
    BY <1>4 DEF DetectZec, InFlight, PaymentsApart, RequestsNamed
  <2> QED
    BY <1>4, <2>1, NewRequest DEF DetectZec
<1>5. ASSUME NEW q \in Requests, Verify(q) PROVE PaymentsApart'
  <2>1. PICK answer \in {[request[q] EXCEPT !.at = "mark"], Over} :
          request' = [request EXCEPT ![q] = answer]
    BY <1>5 DEF Verify
  <2>2. UNCHANGED <<launch, zecWatch, overlap>> /\ InFlight(q)
    BY <1>5 DEF Verify, InFlight
  <2>3. CASE answer = Over
    <3>1. RequestsKept
      BY <2>1, <2>3 DEF LaunchTypeOK, Over, Unsent, RequestsKept
    <3> QED
      BY <2>2, <3>1, QuietStep DEF PaymentsApart, RequestsNamed, Quiet, RowQuiet
  <2>4. CASE answer = [request[q] EXCEPT !.at = "mark"]
    <3>1. \A p \in Requests : /\ request'[p].launch = request[p].launch
                              /\ request'[p].ref = request[p].ref
                              /\ InFlight(p)' <=> InFlight(p)
      BY <2>1, <2>2, <2>4 DEF LaunchTypeOK, Request, InFlight
    <3>2. RequestsNamed'
      BY <2>2, <3>1 DEF PaymentsApart, RequestsNamed
    <3>3. (~overlap => Apart)'
      BY <2>2, <3>1 DEF PaymentsApart, Apart, UsedElsewhere
    <3>4. OnePaymentOneLaunch'
      BY <2>2 DEF PaymentsApart, OnePaymentOneLaunch
    <3> QED
      BY <3>2, <3>3, <3>4 DEF PaymentsApart
  <2> QED
    BY <2>1, <2>3, <2>4
<1>6. ASSUME NEW q \in Requests, MarkThrows(q) PROVE PaymentsApart'
  <2>1. RequestsKept
    BY <1>6 DEF MarkThrows, LaunchTypeOK, Over, Unsent, RequestsKept
  <2>2. UNCHANGED <<launch, zecWatch, overlap>>
    BY <1>6 DEF MarkThrows
  <2> QED
    BY <2>1, <2>2, QuietStep DEF PaymentsApart, RequestsNamed, Quiet, RowQuiet
<1> QED
  BY <1>1, <1>2, <1>3, <1>4, <1>5, <1>6, MarkApart DEF PaymentNext

\* The poll takes no pending launch, and what it settles is live only at its end.
LEMMA PollApart == ASSUME LaunchInv, PaymentsApart, NEW l \in Launches, StartTick \/ Advance(l)
                   PROVE  PaymentsApart'
<1> USE DEF LaunchInv
<1>1. UNCHANGED payments
  BY DEF StartTick, Advance, TakeLaunch, RecordStep, RecordThrows, CountFailure, FailLaunch,
         TickThrows, Call, StepCreateTokenAccount, StepDeployAndInitToken, StepRevokeDeployKey,
         StepCreatePool, StepSeedLiquidity, StepLockPosition
<1>2. CASE launch' = launch
  BY <1>1, <1>2, QuietStep
     DEF payments, PaymentsApart, RequestsNamed, Quiet, RequestsKept, RowQuiet
<1>3. CASE RecordStep(l) \/ CountFailure(l) \/ FailLaunch(l)
  <2>1. tick.cur = l /\ launch[l].step \in 0..5 /\ launch[l].status # "PENDING"
    BY <1>3, LaunchesAssumption
       DEF RecordStep, CountFailure, FailLaunch, PollInStep, PollPaid
  <2>2. \A o \in Launches : o # l => launch'[o] = launch[o]
    BY <1>3 DEF RecordStep, CountFailure, FailLaunch, LaunchTypeOK
  <2>3. RowQuiet(l)
    <3>1. CASE RecordStep(l)
      <4>1. /\ launch'[l].ref = launch[l].ref /\ launch'[l].step = launch[l].step + 1
            /\ launch'[l].step = 6 => launch'[l].status = "LIVE"
        BY <3>1 DEF RecordStep, LaunchTypeOK, Row
      <4> QED
        BY <2>1, <4>1 DEF RowQuiet
    <3>2. CASE CountFailure(l) \/ FailLaunch(l)
      <4>1. launch'[l].ref = launch[l].ref /\ launch'[l].step = launch[l].step
        BY <3>2 DEF CountFailure, FailLaunch, LaunchTypeOK, Row
      <4> QED
        BY <2>1, <4>1 DEF RowQuiet
    <3> QED
      BY <1>3, <3>1, <3>2
  <2>4. \A o \in Launches : RowQuiet(o)
    BY <2>2, <2>3 DEF RowQuiet
  <2>5. \A o \in zecWatch' : launch'[o].status = "PENDING"
    BY <1>1, <2>1, <2>2 DEF payments, PaymentsApart, RequestsNamed, LaunchTypeOK
  <2> QED
    BY <1>1, <2>4, <2>5, QuietStep DEF payments, Quiet, RequestsKept
<1> QED
  BY <1>2, <1>3
     DEF StartTick, Advance, TakeLaunch, RecordThrows, TickThrows, Call, StepCreateTokenAccount,
         StepDeployAndInitToken, StepRevokeDeployKey, StepCreatePool, StepSeedLiquidity,
         StepLockPosition

LEMMA PaymentsApartNext == LaunchInv /\ PaymentsApart /\ [LaunchNext]_launchVars => PaymentsApart'
<1> SUFFICES ASSUME LaunchInv, PaymentsApart, [LaunchNext]_launchVars PROVE PaymentsApart'
  OBVIOUS
<1> USE DEF LaunchInv
<1>1. CASE StartTick
  <2>1. PICK l \in Launches : launch[l].status \in {"PAID", "DEPLOYING"}
    BY <1>1 DEF StartTick, ToAdvance
  <2> QED
    BY <1>1, <2>1, PollApart
<1>2. CASE RestartLaunches
  <2>1. RequestsKept
    BY <1>2 DEF RestartLaunches, Over, Unsent, RequestsKept
  <2>2. UNCHANGED <<launch, overlap>> /\ \A l \in zecWatch' : launch'[l].status = "PENDING"
    BY <1>2 DEF RestartLaunches
  <2> QED
    BY <2>1, <2>2, QuietStep DEF Quiet, RowQuiet
<1>3. CASE UNCHANGED launchVars
  BY <1>3, QuietStep
     DEF launchVars, payments, PaymentsApart, RequestsNamed, Quiet, RequestsKept, RowQuiet
<1> QED
  BY <1>1, <1>2, <1>3, PaymentApart, PollApart DEF LaunchNext, PollNext

\* While no two payments of a launch, or of one transaction, were in flight at
\* once, one submitted transaction pays for one launch, and a live launch is
\* never reopened.
THEOREM OnePaymentAlways == LaunchSpec => []OnePaymentOneLaunch
<1>1. LaunchInit => LaunchInv /\ PaymentsApart
  BY LaunchInvInit, PaymentsApartInit
<1>2. LaunchInv /\ PaymentsApart /\ [LaunchNext]_launchVars => (LaunchInv /\ PaymentsApart)'
  BY LaunchInvNext, PaymentsApartNext
<1>3. LaunchInv /\ PaymentsApart => OnePaymentOneLaunch
  BY DEF PaymentsApart
<1> QED
  BY <1>1, <1>2, <1>3, PTL DEF LaunchSpec

-----------------------------------------------------------------------------
(* Types.                                                                  *)

\* A settlement in progress is of a creation.
SettlementsNamed == \A p \in Settlements : Active(p) => settling[p].creation \in Creations

CreationSafe == CreationTypeOK /\ SettlementsNamed

LEMMA CreationTypeInit == CreationInit => CreationSafe
  BY CreationsAssumption, SymbolsAssumption
     DEF CreationInit, CreationSafe, CreationTypeOK, SettlementsNamed, Active, Creation,
         Settlement, Token, NoToken, Unseen

LEMMA GoType == ASSUME CreationSafe, NEW p \in Settlements, Active(p),
                       NEW at \in {"create", "update", "firstBuy", "fail"},
                       Go(p, at)
                PROVE  /\ settling' \in [Settlements -> Settlement] /\ SettlementsNamed'
                       /\ \A o \in Settlements : o # p => settling'[o] = settling[o]
                       /\ settling'[p].at = at /\ settling'[p].creation = settling[p].creation
                       /\ settling'[p].admin = settling[p].admin
  BY DEF Go, CreationSafe, CreationTypeOK, Settlement, SettlementsNamed, Active

LEMMA FinishType == ASSUME CreationSafe, NEW p \in Settlements, Finish(p)
                    PROVE  /\ settling' \in [Settlements -> Settlement] /\ SettlementsNamed'
                           /\ \A o \in Settlements : o # p => settling'[o] = settling[o]
                           /\ settling'[p].at = "over"
  BY DEF Finish, Settled, Unseen, CreationSafe, CreationTypeOK, Settlement, SettlementsNamed, Active

LEMMA RowType == ASSUME CreationTypeOK, NEW c \in Creations,
                        NEW status \in {"CHECKED", "PENDING", "CREATED", "FAILED"},
                        creation' = [creation EXCEPT ![c].status = status]
                 PROVE  /\ creation' \in [Creations -> Creation]
                        /\ \A o \in Creations : o # c => creation'[o] = creation[o]
                        /\ creation'[c].status = status /\ creation'[c].address = creation[c].address
  BY DEF CreationTypeOK, Creation
LEMMA PageNext == ASSUME CreationSafe, NEW c \in Creations,
                         \/ \E s \in Symbols : CheckSymbol(c, s)
                         \/ Reserve(c) \/ Address(c) \/ NoAddress(c) \/ PollCreation(c)
                  PROVE  CreationSafe'
<1> USE DEF CreationSafe
<1>1. creation' \in [Creations -> Creation]
  BY DEF CheckSymbol, Reserve, Address, NoAddress, PollCreation, creationRows, CreationTypeOK, Creation
<1>2. page' \in [Creations -> {"form", "waiting", "created", "failed"}]
  BY DEF CheckSymbol, Reserve, Address, NoAddress, PollCreation, CreationTypeOK
<1>3. UNCHANGED <<token, firstBuys, settling, disturbed>>
  BY DEF CheckSymbol, Reserve, Address, NoAddress, PollCreation, creationRows
<1>4. creationFaults' \in Nat
  BY DEF CheckSymbol, Reserve, Address, NoAddress, PollCreation, NoFault, Fault, CreationTypeOK
<1>5. SettlementsNamed'
  BY <1>3 DEF SettlementsNamed, Active
<1> QED
  BY <1>1, <1>2, <1>3, <1>4, <1>5 DEF CreationTypeOK

LEMMA BeginNext == ASSUME CreationSafe, NEW p \in Settlements, NEW c \in Creations,
                          NEW admin \in BOOLEAN, Begin(p, c, admin)
                   PROVE  CreationSafe'
<1> USE DEF CreationSafe
<1>1. settling' \in [Settlements -> Settlement] /\ SettlementsNamed'
  BY DEF Begin, CreationTypeOK, Settlement, Settled, Unseen, SettlementsNamed, Active
<1>2. disturbed' \subseteq Creations
  BY DEF Begin, CreationTypeOK
<1>3. UNCHANGED <<creation, token, firstBuys, page, creationFaults>>
  BY DEF Begin, creationRows
<1> QED
  BY <1>1, <1>2, <1>3 DEF CreationTypeOK

Statement(p) ==
  \/ Complete(p) \/ CreateToken(p) \/ CreateTokenThrows(p)
  \/ MarkCreated(p) \/ MarkCreatedThrows(p) \/ FirstBuy(p) \/ FailCreation(p)

LEMMA StatementNext == ASSUME CreationSafe, NEW p \in Settlements, Statement(p)
                       PROVE  CreationSafe'
<1> USE DEF CreationSafe
<1>1. PICK c \in Creations : settling[p].creation = c /\ Active(p)
  BY DEF Statement, Complete, CreateToken, CreateTokenThrows, MarkCreated, MarkCreatedThrows,
         FirstBuy, FailCreation, SettlementsNamed, Active
<1>2. settling' \in [Settlements -> Settlement] /\ SettlementsNamed'
  BY <1>1, GoType, FinishType
     DEF Statement, Complete, CreateToken, CreateTokenThrows, MarkCreated, MarkCreatedThrows,
         FirstBuy, FailCreation, Thrown
<1>3. creation' \in [Creations -> Creation]
  <2>1. creation' = creation \/ \E status \in {"CREATED", "FAILED"} :
          creation' = [creation EXCEPT ![c].status = status]
    BY <1>1 DEF Statement, Complete, CreateToken, CreateTokenThrows, MarkCreated,
                MarkCreatedThrows, FirstBuy, FailCreation, creationRows
  <2> QED
    BY <2>1, RowType DEF CreationTypeOK
<1>4. token' \in [Symbols -> Token]
  <2>1. CASE CreateToken(p)
    <3>1. [of |-> c, genesis |-> p] \in Token
      BY DEF Token
    <3> QED
      BY <1>1, <2>1, <3>1 DEF CreateToken, CreationTypeOK
  <2>2. CASE ~CreateToken(p)
    BY <2>2 DEF Statement, Complete, CreateTokenThrows, MarkCreated, MarkCreatedThrows, FirstBuy,
                FailCreation, creationRows, CreationTypeOK
  <2> QED
    BY <2>1, <2>2
<1>5. firstBuys' \in [Creations -> Nat] /\ disturbed' \subseteq Creations /\ creationFaults' \in Nat
      /\ page' = page
  BY <1>1 DEF Statement, Complete, CreateToken, CreateTokenThrows, MarkCreated, MarkCreatedThrows,
              FirstBuy, FailCreation, creationRows, CreationTypeOK, Fault, NoFault
<1> QED
  BY <1>2, <1>3, <1>4, <1>5 DEF CreationTypeOK

LEMMA RestartNext == ASSUME CreationSafe, RestartCreations PROVE CreationSafe'
<1> USE DEF CreationSafe
<1>1. settling' \in [Settlements -> Settlement] /\ SettlementsNamed'
  BY DEF RestartCreations, CreationTypeOK, Settlement, Settled, Unseen, SettlementsNamed, Active
<1>2. creation' \in [Creations -> Creation]
  BY DEF RestartCreations, CreationTypeOK, Creation
<1>3. disturbed' \subseteq Creations
  BY DEF RestartCreations, CreationTypeOK
<1>4. creationFaults' \in Nat /\ UNCHANGED <<token, firstBuys, page>>
  <2>1. Fault /\ UNCHANGED <<token, firstBuys, page>>
    BY DEF RestartCreations
  <2> QED
    BY <2>1 DEF CreationTypeOK, Fault
<1> QED
  BY <1>1, <1>2, <1>3, <1>4 DEF CreationTypeOK

LEMMA CreationSafeNext == CreationSafe /\ [CreationNext]_creationVars => CreationSafe'
<1> SUFFICES ASSUME CreationSafe, [CreationNext]_creationVars PROVE CreationSafe'
  OBVIOUS
<1>1. CASE UNCHANGED creationVars
  BY <1>1 DEF creationVars, creationRows, CreationSafe, CreationTypeOK, SettlementsNamed, Active
<1> QED
  BY <1>1, PageNext, BeginNext, StatementNext, RestartNext
     DEF CreationNext, PaymentDetected, ForceComplete, Statement

\* Every reservation, token, settlement and page keeps its type.
THEOREM CreationTypeAlways == CreationSpec => []CreationTypeOK
<1>1. CreationSafe => CreationTypeOK
  BY DEF CreationSafe
<1> QED
  BY <1>1, CreationTypeInit, CreationSafeNext, PTL DEF CreationSpec

-----------------------------------------------------------------------------
(* A creation's first buys.                                                *)

Made(c) == {s \in Symbols : token[s].of = c}
\* The settlements that have made a token and may still buy it.
Buying(c) == {p \in Settlements : settling[p].creation = c /\ settling[p].at \in {"update", "firstBuy"}}
BuysCovered == \A c \in Creations :
  firstBuys[c] + Cardinality(Buying(c)) <= Cardinality(Made(c))

LEMMA Finite == \A c \in Creations : /\ IsFiniteSet(Buying(c)) /\ Cardinality(Buying(c)) \in Nat
                                     /\ IsFiniteSet(Made(c)) /\ Cardinality(Made(c)) \in Nat
<1> SUFFICES ASSUME NEW c \in Creations
             PROVE  /\ IsFiniteSet(Buying(c)) /\ Cardinality(Buying(c)) \in Nat
                    /\ IsFiniteSet(Made(c)) /\ Cardinality(Made(c)) \in Nat
  OBVIOUS
<1>1. Buying(c) \subseteq Settlements /\ Made(c) \subseteq Symbols
  BY DEF Buying, Made
<1> QED
  BY <1>1, SymbolsAssumption, FS_Subset, FS_CardinalityType

\* What adds neither a buyer nor a buy, and keeps the tokens, keeps the invariant.
LEMMA NoNewBuyer == ASSUME BuysCovered, CreationTypeOK, firstBuys' = firstBuys, token' = token,
                           \A p \in Settlements : settling'[p].at \in {"update", "firstBuy"} =>
                             /\ settling'[p].creation = settling[p].creation
                             /\ settling[p].at \in {"update", "firstBuy"}
                    PROVE  BuysCovered'
<1>1. ASSUME NEW c \in Creations
      PROVE  firstBuys'[c] + Cardinality(Buying(c)') <= Cardinality(Made(c)')
  <2>1. Buying(c)' \subseteq Buying(c) /\ Made(c)' = Made(c)
    BY DEF Buying, Made
  <2>2. IsFiniteSet(Buying(c)') /\ Cardinality(Buying(c)') <= Cardinality(Buying(c))
        /\ Cardinality(Buying(c)') \in Nat
    BY <2>1, Finite, FS_Subset, FS_CardinalityType
  <2>3. firstBuys[c] \in Nat
    BY DEF CreationTypeOK
  <2> QED
    BY <2>1, <2>2, <2>3, Finite DEF BuysCovered
<1> QED
  BY <1>1 DEF BuysCovered

\* A token that is made adds its settlement to the buyers.
LEMMA TokenMade == ASSUME CreationSafe, BuysCovered, NEW p \in Settlements, CreateToken(p)
                   PROVE  BuysCovered'
<1> USE DEF CreationSafe
<1>1. PICK c \in Creations : settling[p].creation = c /\ Active(p)
  BY DEF CreateToken, SettlementsNamed, Active
<1>2. settling[p].at = "create"
  BY DEF CreateToken
<1>3. PICK s \in Symbols : creation[c].symbol = s
  BY DEF CreationTypeOK, Creation
<1>4. CASE token[s] # NoToken
  <2>1. token' = token /\ firstBuys' = firstBuys /\ Thrown(p)
    BY <1>1, <1>3, <1>4 DEF CreateToken
  <2>2. \A o \in Settlements : settling'[o].at \in {"update", "firstBuy"} => settling'[o] = settling[o]
    BY <1>1, <2>1, GoType, FinishType DEF Thrown
  <2> QED
    BY <2>1, <2>2, NoNewBuyer
<1>5. CASE token[s] = NoToken
  <2>1. /\ token' = [token EXCEPT ![s] = [of |-> c, genesis |-> p]]
        /\ Go(p, "update") /\ firstBuys' = firstBuys
    BY <1>1, <1>3, <1>5 DEF CreateToken
  <2>2. /\ \A o \in Settlements : o # p => settling'[o] = settling[o]
        /\ settling'[p].at = "update" /\ settling'[p].creation = c
    BY <1>1, <2>1, GoType
  <2>3. /\ \A r \in Symbols : r # s => token'[r] = token[r]
        /\ token'[s].of = c /\ token[s].of = NoCreation
    BY <1>5, <2>1 DEF CreationTypeOK, NoToken
  <2>4. ASSUME NEW b \in Creations
        PROVE  firstBuys'[b] + Cardinality(Buying(b)') <= Cardinality(Made(b)')
    <3>1. CASE b = c
      <4>1. Buying(b)' = Buying(b) \cup {p} /\ p \notin Buying(b)
        BY <1>2, <2>2, <3>1 DEF Buying
      <4>2. Made(b)' = Made(b) \cup {s} /\ s \notin Made(b)
        BY <2>3, <3>1, CreationsAssumption DEF Made
      <4>3. /\ Cardinality(Buying(b)') = Cardinality(Buying(b)) + 1
            /\ Cardinality(Made(b)') = Cardinality(Made(b)) + 1
        BY <4>1, <4>2, Finite, FS_AddElement
      <4>4. firstBuys[b] \in Nat
        BY DEF CreationTypeOK
      <4> QED
        BY <2>1, <4>3, <4>4, Finite DEF BuysCovered
    <3>2. CASE b # c
      <4>1. Buying(b)' = Buying(b)
        BY <1>1, <2>2, <3>2 DEF Buying
      <4>2. Made(b)' = Made(b)
        BY <2>3, <3>2, CreationsAssumption DEF Made
      <4> QED
        BY <2>1, <4>1, <4>2 DEF BuysCovered
    <3> QED
      BY <3>1, <3>2
  <2> QED
    BY <2>4 DEF BuysCovered
<1> QED
  BY <1>4, <1>5

\* A buy takes its settlement out of the buyers.
LEMMA BuyMade == ASSUME CreationSafe, BuysCovered, NEW p \in Settlements, FirstBuy(p)
                 PROVE  BuysCovered'
<1> USE DEF CreationSafe
<1>1. PICK c \in Creations : settling[p].creation = c
  BY DEF FirstBuy, SettlementsNamed, Active
<1>2. PICK n \in {0, 1} : firstBuys' = [firstBuys EXCEPT ![c] = @ + n]
  BY <1>1 DEF FirstBuy
<1>3. settling[p].at = "firstBuy" /\ token' = token /\ Finish(p)
  BY DEF FirstBuy
<1>4. settling'[p].at = "over" /\ \A o \in Settlements : o # p => settling'[o] = settling[o]
  BY <1>3, FinishType
<1>5. ASSUME NEW b \in Creations
      PROVE  firstBuys'[b] + Cardinality(Buying(b)') <= Cardinality(Made(b)')
  <2>1. Made(b)' = Made(b) /\ firstBuys[b] \in Nat
    BY <1>3 DEF Made, CreationTypeOK
  <2>2. CASE b = c
    <3>1. Buying(b)' = Buying(b) \ {p} /\ p \in Buying(b)
      BY <1>1, <1>3, <1>4, <2>2 DEF Buying
    <3>2. Cardinality(Buying(b)') = Cardinality(Buying(b)) - 1
      BY <3>1, Finite, FS_RemoveElement
    <3>3. firstBuys'[b] = firstBuys[b] + n
      BY <1>2, <2>2 DEF CreationTypeOK
    <3> QED
      BY <2>1, <3>2, <3>3, Finite DEF BuysCovered
  <2>3. CASE b # c
    <3>1. Buying(b)' = Buying(b)
      BY <1>1, <1>4, <2>3 DEF Buying
    <3>2. firstBuys'[b] = firstBuys[b]
      BY <1>2, <2>3 DEF CreationTypeOK
    <3> QED
      BY <2>1, <3>1, <3>2 DEF BuysCovered
  <2> QED
    BY <2>2, <2>3
<1> QED
  BY <1>5 DEF BuysCovered

LEMMA BuysCoveredNext == CreationSafe /\ BuysCovered /\ [CreationNext]_creationVars => BuysCovered'
<1> SUFFICES ASSUME CreationSafe, BuysCovered, [CreationNext]_creationVars PROVE BuysCovered'
  OBVIOUS
<1> USE DEF CreationSafe
<1>1. ASSUME NEW c \in Creations,
             \/ \E s \in Symbols : CheckSymbol(c, s)
             \/ Reserve(c) \/ Address(c) \/ NoAddress(c) \/ PollCreation(c)
      PROVE  BuysCovered'
  <2>1. UNCHANGED <<token, firstBuys, settling>>
    BY <1>1 DEF CheckSymbol, Reserve, Address, NoAddress, PollCreation, creationRows
  <2> QED
    BY <2>1, NoNewBuyer
<1>2. ASSUME NEW p \in Settlements, NEW c \in Creations, NEW admin \in BOOLEAN, Begin(p, c, admin)
      PROVE  BuysCovered'
  <2>1. UNCHANGED <<token, firstBuys>>
    BY <1>2 DEF Begin, creationRows
  <2>2. settling'[p].at \in {"complete", "over"}
        /\ \A o \in Settlements : o # p => settling'[o] = settling[o]
    BY <1>2 DEF Begin, Settled, Unseen, CreationTypeOK
  <2> QED
    BY <2>1, <2>2, NoNewBuyer
<1>3. ASSUME NEW p \in Settlements,
             \/ Complete(p) \/ CreateTokenThrows(p) \/ MarkCreated(p)
             \/ MarkCreatedThrows(p) \/ FailCreation(p)
      PROVE  BuysCovered'
  <2>1. UNCHANGED <<token, firstBuys>> /\ Active(p)
    BY <1>3 DEF Complete, CreateTokenThrows, MarkCreated, MarkCreatedThrows, FailCreation,
                creationRows, Active
  <2>2. \/ Finish(p) \/ Go(p, "create") \/ Go(p, "fail")
        \/ settling[p].at = "update" /\ Go(p, "firstBuy")
    BY <1>3 DEF Complete, CreateTokenThrows, MarkCreated, MarkCreatedThrows, FailCreation, Thrown
  <2> QED
    BY <2>1, <2>2, GoType, FinishType, NoNewBuyer
<1>4. CASE RestartCreations
  <2>1. UNCHANGED <<token, firstBuys>>
        /\ \A p \in Settlements : settling'[p].at \in {"unseen", "over"}
    BY <1>4 DEF RestartCreations, Settled, Unseen
  <2> QED
    BY <2>1, NoNewBuyer
<1>5. CASE UNCHANGED creationVars
  BY <1>5, NoNewBuyer DEF creationVars, creationRows
<1> QED
  BY <1>1, <1>2, <1>3, <1>4, <1>5, TokenMade, BuyMade DEF CreationNext, PaymentDetected, ForceComplete

\* A reservation that was made keeps its symbol, and is the only one a settlement
\* is of and a token is made of.
Begun(c) == creation[c].status \notin {"NONE", "CHECKED"}
MadeOfOwn ==
  /\ \A p \in Settlements : Active(p) => Begun(settling[p].creation)
  /\ \A s \in Symbols : token[s].of \in Creations =>
       Begun(token[s].of) /\ creation[token[s].of].symbol = s

LEMMA BegunStays == ASSUME CreationSafe, [CreationNext]_creationVars, NEW c \in Creations, Begun(c)
                    PROVE  Begun(c)' /\ creation'[c].symbol = creation[c].symbol
<1> USE DEF CreationSafe
<1>1. ASSUME NEW o \in Creations,
             \/ \E s \in Symbols : CheckSymbol(o, s)
             \/ Reserve(o) \/ Address(o) \/ NoAddress(o) \/ PollCreation(o)
      PROVE  Begun(c)' /\ creation'[c].symbol = creation[c].symbol
  BY <1>1 DEF CheckSymbol, Reserve, Address, NoAddress, PollCreation, creationRows,
              CreationTypeOK, Creation, Begun
<1>2. ASSUME NEW p \in Settlements, Statement(p)
      PROVE  Begun(c)' /\ creation'[c].symbol = creation[c].symbol
  BY <1>2 DEF Statement, Complete, CreateToken, CreateTokenThrows, MarkCreated, MarkCreatedThrows,
              FirstBuy, FailCreation, creationRows, CreationTypeOK, Creation, Begun
<1>3. CASE RestartCreations
  <2>1. creation'[c] = [creation[c] EXCEPT !.status = IF @ = "CHECKED" THEN "NONE" ELSE @,
                                           !.address = IF @ = "asked" THEN "none" ELSE @]
    BY <1>3 DEF RestartCreations
  <2>2. creation[c] \in Creation
    BY DEF CreationTypeOK
  <2> QED
    BY <2>1, <2>2 DEF Creation, Begun
<1>4. CASE UNCHANGED creation
  BY <1>4 DEF Begun
<1> QED
  BY <1>1, <1>2, <1>3, <1>4
     DEF CreationNext, PaymentDetected, ForceComplete, Begin, Statement, creationVars, creationRows

LEMMA MadeOfOwnNext == CreationSafe /\ MadeOfOwn /\ [CreationNext]_creationVars => MadeOfOwn'
<1> SUFFICES ASSUME CreationSafe, MadeOfOwn, [CreationNext]_creationVars PROVE MadeOfOwn'
  OBVIOUS
<1>0. CreationSafe' /\ \A c \in Creations : Begun(c) =>
        Begun(c)' /\ creation'[c].symbol = creation[c].symbol
  BY CreationSafeNext, BegunStays
<1>1. ASSUME NEW p \in Settlements, Active(p)' PROVE Begun(settling[p].creation)'
  <2>1. settling'[p].creation \in Creations
    BY <1>0, <1>1 DEF CreationSafe, SettlementsNamed
  <2>2. Begun(settling'[p].creation)
    <3>1. CASE settling'[p] = settling[p]
      BY <1>1, <3>1 DEF MadeOfOwn, Active
    <3>2. ASSUME NEW o \in Settlements, NEW c \in Creations, NEW admin \in BOOLEAN, Begin(o, c, admin),
                 settling'[p] # settling[p]
          PROVE  Begun(settling'[p].creation)
      BY <1>1, <3>2 DEF Begin, Active, Settled, Unseen, CreationSafe, CreationTypeOK, Begun
    <3>3. ASSUME NEW o \in Settlements, Statement(o)
          PROVE  Active(p) /\ settling'[p].creation = settling[p].creation
      BY <1>1, <3>3
         DEF Statement, Complete, CreateToken, CreateTokenThrows, MarkCreated, MarkCreatedThrows,
             FirstBuy, FailCreation, Thrown, Go, Finish, Settled, Unseen, Active, CreationSafe,
             CreationTypeOK, Settlement
    <3>4. CASE RestartCreations
      BY <1>1, <3>4 DEF RestartCreations, Active, Settled, Unseen
    <3>5. CASE settling' = settling
      BY <3>1, <3>5
    <3> QED
      BY <3>1, <3>2, <3>3, <3>4, <3>5
         DEF CreationNext, CheckSymbol, Reserve, Address, NoAddress, PollCreation, PaymentDetected,
             ForceComplete, Statement, creationVars, MadeOfOwn
  <2> QED
    BY <1>0, <2>1, <2>2 DEF Begun
<1>2. ASSUME NEW s \in Symbols, token'[s].of \in Creations
      PROVE  Begun(token[s].of)' /\ creation'[token'[s].of].symbol = s
  <2>1. Begun(token'[s].of) /\ creation[token'[s].of].symbol = s
    <3>1. CASE token'[s] = token[s]
      BY <1>2, <3>1 DEF MadeOfOwn
    <3>2. ASSUME NEW p \in Settlements, CreateToken(p), token'[s] # token[s]
          PROVE  Begun(token'[s].of) /\ creation[token'[s].of].symbol = s
      <4>1. settling[p].creation \in Creations /\ Begun(settling[p].creation)
        BY <3>2 DEF CreateToken, CreationSafe, SettlementsNamed, MadeOfOwn, Active
      <4>2. token'[s].of = settling[p].creation /\ creation[settling[p].creation].symbol = s
        BY <3>2, <4>1 DEF CreateToken, CreationSafe, CreationTypeOK, Creation
      <4> QED
        BY <4>1, <4>2
    <3>3. token' = token \/ \E p \in Settlements : CreateToken(p)
      BY DEF CreationNext, CheckSymbol, Reserve, Address, NoAddress, PollCreation, PaymentDetected,
             ForceComplete, Begin, Complete, CreateTokenThrows, MarkCreated, MarkCreatedThrows,
             FirstBuy, FailCreation, RestartCreations, creationVars, creationRows
    <3> QED
      BY <3>1, <3>2, <3>3
  <2> QED
    BY <1>0, <1>2, <2>1 DEF Begun
<1> QED
  BY <1>1, <1>2 DEF MadeOfOwn

\* However often a creation is paid, recovered, retried or interrupted, its bundled
\* buy is executed at most once, and only if its token was made.
THEOREM FirstBuyOnceAlways == CreationSpec => []FirstBuyOnce
<1>1. CreationInit => CreationSafe /\ BuysCovered /\ MadeOfOwn
  <2> SUFFICES ASSUME CreationInit PROVE CreationSafe /\ BuysCovered /\ MadeOfOwn
    OBVIOUS
  <2>1. ASSUME NEW c \in Creations PROVE Buying(c) = {} /\ firstBuys[c] = 0
    BY DEF CreationInit, Buying, Unseen
  <2>2. MadeOfOwn
    BY CreationsAssumption DEF CreationInit, MadeOfOwn, Active, Unseen, NoToken
  <2> QED
    BY <2>1, <2>2, CreationTypeInit, Finite, FS_EmptySet DEF BuysCovered
<1>2. CreationSafe /\ BuysCovered /\ MadeOfOwn /\ [CreationNext]_creationVars
      => (CreationSafe /\ BuysCovered /\ MadeOfOwn)'
  BY CreationSafeNext, BuysCoveredNext, MadeOfOwnNext
<1>3. CreationSafe /\ BuysCovered /\ MadeOfOwn => FirstBuyOnce
  <2> SUFFICES ASSUME CreationSafe, BuysCovered, MadeOfOwn, NEW c \in Creations
               PROVE  firstBuys[c] <= IF Owns(c) THEN 1 ELSE 0
    BY DEF FirstBuyOnce
  <2>1. firstBuys[c] \in Nat /\ firstBuys[c] <= Cardinality(Made(c))
    BY Finite DEF BuysCovered, CreationSafe, CreationTypeOK
  <2>2. CASE Owns(c)
    <3>1. Made(c) \subseteq {creation[c].symbol}
      BY DEF Made, MadeOfOwn
    <3>2. Cardinality({creation[c].symbol}) = 1 /\ IsFiniteSet({creation[c].symbol})
      BY FS_Singleton
    <3>3. Cardinality(Made(c)) <= 1
      BY <3>1, <3>2, FS_Subset
    <3> QED
      BY <2>1, <2>2, <3>3, Finite
  <2>3. CASE ~Owns(c)
    <3>1. Made(c) = {}
      BY <2>3 DEF Made, Owns
    <3> QED
      BY <2>1, <2>3, <3>1, FS_EmptySet
  <2> QED
    BY <2>2, <2>3
<1> QED
  BY <1>1, <1>2, <1>3, PTL DEF CreationSpec

-----------------------------------------------------------------------------
(* What a reservation says.                                                *)

\* What is known of a creation whose settlement is the only one and was not broken
\* off: it has an address or never gets one; its token is there from the statement
\* before its row is CREATED; and its page shows a failure only of a failed row.
Told(c) ==
  /\ \A p \in Settlements : Active(p) /\ settling[p].creation = c =>
       /\ ~AwaitsAddress(c)
       /\ \A o \in Settlements : Active(o) /\ settling[o].creation = c => o = p
       /\ creation[c].status = IF settling[p].at = "firstBuy" THEN "CREATED" ELSE "PENDING"
  /\ Owns(c) <=> \/ creation[c].status = "CREATED"
                 \/ \E p \in Settlements : settling[p].creation = c /\ settling[p].at = "update"
  /\ AwaitsAddress(c) => creation[c].status = "PENDING"
  /\ page[c] = "failed" => creation[c].status = "FAILED"
SettledAlone == \A c \in Creations \ disturbed : Told(c)

LEMMA ToldKept == ASSUME NEW c \in Creations, Told(c), creation'[c] = creation[c],
                         Owns(c)' <=> Owns(c), page'[c] = page[c],
                         \A p \in Settlements :
                           \/ settling'[p] = settling[p]
                           \/ /\ ~Active(p)' \/ settling'[p].creation # c
                              /\ ~Active(p) \/ settling[p].creation # c \/ settling[p].at # "update"
                  PROVE  Told(c)'
  BY DEF Told, Active, AwaitsAddress, Owns
LEMMA ToldPage == ASSUME CreationSafe, NEW c \in Creations, NEW o \in Creations, Told(c),
                         \/ \E s \in Symbols : CheckSymbol(o, s)
                         \/ Reserve(o) \/ Address(o) \/ NoAddress(o) \/ PollCreation(o)
                  PROVE  Told(c)'
<1> USE DEF CreationSafe
<1>1. UNCHANGED <<token, settling>>
  BY DEF CheckSymbol, Reserve, Address, NoAddress, PollCreation, creationRows
<1>2. Owns(c)' <=> Owns(c)
  BY <1>1 DEF Owns
<1>3. CASE o # c
  <2>1. creation'[c] = creation[c] /\ page'[c] = page[c]
    BY <1>3 DEF CheckSymbol, Reserve, Address, NoAddress, PollCreation, creationRows, CreationTypeOK
  <2> QED
    BY <1>1, <1>2, <2>1, ToldKept
<1>4. CASE o = c
  <2>1. CASE PollCreation(o)
    <3>1. creation' = creation /\ (page'[c] = "failed" => creation[c].status = "FAILED")
      BY <1>4, <2>1 DEF PollCreation, creationRows, CreationTypeOK, Creation
    <3> QED
      BY <1>1, <1>2, <3>1 DEF Told, Active, AwaitsAddress
  <2>2. CASE ~PollCreation(o)
    <3>1. \A p \in Settlements : ~(Active(p) /\ settling[p].creation = c)
      BY <1>4, <2>2 DEF Told, CheckSymbol, Reserve, Address, NoAddress, AwaitsAddress
    <3>2. creation[c].status \in {"NONE", "CHECKED", "PENDING"} /\ page[c] # "failed"
      BY <1>4, <2>2 DEF Told, CheckSymbol, Reserve, Address, NoAddress, AwaitsAddress
    <3>3. /\ creation'[c].status \in {"CHECKED", "PENDING", "FAILED"}
          /\ AwaitsAddress(c)' => creation'[c].status = "PENDING"
          /\ page'[c] # "failed"
      BY <1>4, <2>2, <3>2 DEF CheckSymbol, Reserve, Address, NoAddress, AwaitsAddress, Told,
                              CreationTypeOK, Creation
    <3>4. ~Owns(c)
      BY <3>1, <3>2 DEF Told, Active
    <3> QED
      BY <1>1, <1>2, <3>1, <3>3, <3>4 DEF Told, Active
  <2> QED
    BY <2>1, <2>2
<1> QED
  BY <1>3, <1>4

LEMMA ToldBegin == ASSUME CreationSafe, NEW c \in Creations, Told(c), c \notin disturbed',
                          NEW p \in Settlements, NEW o \in Creations, NEW admin \in BOOLEAN,
                          Begin(p, o, admin)
                   PROVE  Told(c)'
<1> USE DEF CreationSafe
<1>1. /\ UNCHANGED <<creation, token, page>> /\ ~Active(p)
      /\ \A q \in Settlements : q # p => settling'[q] = settling[q]
  BY DEF Begin, creationRows, Active, CreationTypeOK
<1>2. Owns(c)' <=> Owns(c)
  BY <1>1 DEF Owns
<1>3. CASE o = c /\ creation[c].status = "PENDING"
  <2>1. settling'[p].creation = c /\ settling'[p].at = "complete"
    BY <1>3 DEF Begin, CreationTypeOK
  <2>2. ~AwaitsAddress(c) /\ \A q \in Settlements : ~(Active(q) /\ settling[q].creation = c)
    BY <1>3 DEF Begin, UnderWay
  <2>3. ~Owns(c)
    BY <1>3, <2>2 DEF Told, Active
  <2> QED
    BY <1>1, <1>2, <1>3, <2>1, <2>2, <2>3 DEF Told, Active, AwaitsAddress
<1>4. CASE ~(o = c /\ creation[c].status = "PENDING")
  <2>1. ~Active(p)' \/ settling'[p].creation # c
    BY <1>4 DEF Begin, Active, Settled, Unseen, CreationTypeOK
  <2> QED
    BY <1>1, <1>2, <2>1, ToldKept
<1> QED
  BY <1>3, <1>4

LEMMA ToldStatement == ASSUME CreationSafe, NEW c \in Creations, Told(c), c \notin disturbed',
                              NEW p \in Settlements, Statement(p)
                       PROVE  Told(c)'
<1> USE DEF CreationSafe
<1>1. PICK o \in Creations : settling[p].creation = o /\ Active(p)
  BY DEF Statement, Complete, CreateToken, CreateTokenThrows, MarkCreated, MarkCreatedThrows,
         FirstBuy, FailCreation, SettlementsNamed, Active
<1>2. PICK s \in Symbols : creation[o].symbol = s
  BY DEF CreationTypeOK, Creation
<1>3. /\ \/ Finish(p) /\ ~Active(p)'
         \/ /\ \E at \in {"create", "update", "firstBuy", "fail"} : Go(p, at) /\ settling'[p].at = at
            /\ settling'[p].creation = o
      /\ \A q \in Settlements : q # p => settling'[q] = settling[q]
      /\ page' = page
  BY <1>1, GoType, FinishType
     DEF Statement, Complete, CreateToken, CreateTokenThrows, MarkCreated, MarkCreatedThrows,
         FirstBuy, FailCreation, Thrown, creationRows, Active
<1>4. token' = token \/ (CreateToken(p) /\ token[s] = NoToken /\
                         token' = [token EXCEPT ![s] = [of |-> o, genesis |-> p]])
  BY <1>1, <1>2 DEF Statement, Complete, CreateToken, CreateTokenThrows, MarkCreated, MarkCreatedThrows,
         FirstBuy, FailCreation, creationRows
<1>5. CASE o # c
  <2>1. creation'[c] = creation[c]
    BY <1>1, <1>5 DEF Statement, Complete, CreateToken, CreateTokenThrows, MarkCreated,
         MarkCreatedThrows, FirstBuy, FailCreation, creationRows, CreationTypeOK
  <2>2. Owns(c)' <=> Owns(c)
    BY <1>4, <1>5, CreationsAssumption DEF Owns, NoToken, CreationTypeOK
  <2> QED
    BY <1>1, <1>3, <1>5, <2>1, <2>2, ToldKept DEF Active
<1>6. CASE o = c
  <2> DEFINE Alone == \A q \in Settlements : q # p => ~(Active(q) /\ settling[q].creation = c)
  <2>1. ~AwaitsAddress(c) /\ Alone
    BY <1>1, <1>6 DEF Told
  <2>2. /\ creation[c].status = IF settling[p].at = "firstBuy" THEN "CREATED" ELSE "PENDING"
        /\ Owns(c) <=> settling[p].at \in {"update", "firstBuy"}
    BY <1>1, <1>6, <2>1 DEF Told, Active
  <2>3. creation'[c].address = creation[c].address /\ page[c] # "failed"
    BY <1>1, <1>6, <2>2, RowType
       DEF Statement, Complete, CreateToken, CreateTokenThrows, MarkCreated, MarkCreatedThrows,
           FirstBuy, FailCreation, creationRows, Told
  <2>4. Alone'
    BY <1>3, <2>1 DEF Active
  <2>5. CASE Active(p)' /\ \/ settling'[p].at \in {"create", "fail"} /\ ~Owns(c)'
                           \/ settling'[p].at = "update" /\ Owns(c)'
        /\ creation'[c].status = "PENDING"
    BY <1>3, <1>6, <2>1, <2>3, <2>4, <2>5 DEF Told, AwaitsAddress, Active
  <2>6. CASE /\ \/ ~Active(p)'
                \/ settling'[p].at = "firstBuy" /\ settling'[p].creation = c
             /\ creation'[c].status = "CREATED" /\ Owns(c)'
    BY <1>3, <1>6, <2>1, <2>3, <2>4, <2>6 DEF Told, AwaitsAddress, Active
  <2>7. CASE ~Active(p)' /\ creation'[c].status \in {"PENDING", "FAILED"} /\ ~Owns(c)'
    BY <1>3, <1>6, <2>1, <2>3, <2>4, <2>7 DEF Told, AwaitsAddress, Active
  <2>8. CASE Complete(p) \/ CreateTokenThrows(p)
    <3>1. creation' = creation /\ (Owns(c)' <=> Owns(c)) /\ settling[p].at \in {"complete", "create"}
      BY <2>8 DEF Complete, CreateTokenThrows, creationRows, Owns
    <3>2. Finish(p) \/ Go(p, "create") \/ Go(p, "fail")
      BY <2>8 DEF Complete, CreateTokenThrows, Thrown
    <3> QED
      BY <1>1, <2>2, <2>5, <2>7, <3>1, <3>2, GoType, FinishType DEF Active
  <2>9. CASE CreateToken(p)
    <3>1. creation' = creation /\ settling[p].at = "create"
      BY <2>9 DEF CreateToken
    <3>2. CASE token[s] = NoToken
      <4>1. token'[s].of = c /\ Go(p, "update")
        BY <1>1, <1>2, <1>6, <2>9, <3>2 DEF CreateToken, CreationTypeOK
      <4> QED
        BY <1>1, <2>2, <2>5, <3>1, <4>1, GoType DEF Owns, Active
    <3>3. CASE token[s] # NoToken
      <4>1. token' = token /\ (Finish(p) \/ Go(p, "fail"))
        BY <1>1, <1>2, <2>9, <3>3 DEF CreateToken, Thrown
      <4> QED
        BY <1>1, <2>2, <2>5, <2>7, <3>1, <4>1, GoType, FinishType DEF Owns, Active
    <3> QED
      BY <3>2, <3>3
  <2>10. CASE MarkCreated(p)
    <3>1. creation'[c].status = "CREATED" /\ (Owns(c)' <=> Owns(c)) /\ settling[p].at = "update"
      BY <1>1, <1>6, <2>10, RowType DEF MarkCreated, Owns
    <3>2. Finish(p) \/ Go(p, "firstBuy")
      BY <2>10 DEF MarkCreated
    <3> QED
      BY <1>1, <1>6, <2>2, <2>6, <3>1, <3>2, GoType, FinishType DEF Active
  <2>11. CASE FirstBuy(p)
    <3>1. creation' = creation /\ (Owns(c)' <=> Owns(c)) /\ settling[p].at = "firstBuy" /\ Finish(p)
      BY <2>11 DEF FirstBuy, Owns
    <3> QED
      BY <1>3, <2>2, <2>6, <3>1, FinishType DEF Active
  <2>12. CASE FailCreation(p)
    <3>1. creation'[c].status \in {"PENDING", "FAILED"}
      BY <1>1, <1>6, <2>2, <2>12, RowType DEF FailCreation
    <3>2. (Owns(c)' <=> Owns(c)) /\ settling[p].at = "fail" /\ Finish(p)
      BY <2>12 DEF FailCreation, Owns
    <3> QED
      BY <2>2, <2>7, <3>1, <3>2, FinishType DEF Active
  <2>13. ~MarkCreatedThrows(p)
    BY <1>1, <1>6 DEF MarkCreatedThrows
  <2> QED
    BY <2>8, <2>9, <2>10, <2>11, <2>12, <2>13 DEF Statement
<1> QED
  BY <1>5, <1>6

LEMMA ToldRestart == ASSUME CreationSafe, NEW c \in Creations, Told(c), c \notin disturbed',
                            RestartCreations
                     PROVE  Told(c)'
<1>1. \A p \in Settlements : ~(Active(p) /\ settling[p].creation = c) /\ ~Active(p)'
  BY DEF RestartCreations, Active, Settled, Unseen
<1>2. UNCHANGED <<token, page>> /\ (Owns(c)' <=> Owns(c))
  BY DEF RestartCreations, Owns
<1>3. creation'[c] = [creation[c] EXCEPT !.status = IF @ = "CHECKED" THEN "NONE" ELSE @,
                                         !.address = IF @ = "asked" THEN "none" ELSE @]
  BY DEF RestartCreations
<1>4. /\ creation[c].status \in {"CREATED", "FAILED"} => creation'[c].status = creation[c].status
      /\ creation'[c].status = "CREATED" => creation[c].status = "CREATED"
      /\ ~AwaitsAddress(c)'
  BY <1>3 DEF CreationSafe, CreationTypeOK, Creation, AwaitsAddress
<1> QED
  BY <1>1, <1>2, <1>4 DEF Told, Active

LEMMA SettledAloneNext == CreationSafe /\ SettledAlone /\ [CreationNext]_creationVars => SettledAlone'
<1> SUFFICES ASSUME CreationSafe, SettledAlone, [CreationNext]_creationVars,
                    NEW c \in Creations, c \notin disturbed'
             PROVE  Told(c)'
  BY DEF SettledAlone
<1>1. Told(c)
  <2>1. disturbed \subseteq disturbed'
    BY DEF CreationNext, CheckSymbol, Reserve, Address, NoAddress, PollCreation, PaymentDetected,
           ForceComplete, Begin, Complete, CreateToken, CreateTokenThrows, MarkCreated,
           MarkCreatedThrows, FirstBuy, FailCreation, RestartCreations, creationVars
  <2> QED
    BY <2>1 DEF SettledAlone
<1>2. CASE UNCHANGED creationVars
  BY <1>1, <1>2 DEF creationVars, creationRows, Told, Active, AwaitsAddress, Owns
<1> QED
  BY <1>1, <1>2, ToldPage, ToldBegin, ToldStatement, ToldRestart
     DEF CreationNext, PaymentDetected, ForceComplete, Statement

\* What a reservation says is true, unless its settlement was broken off or ran
\* beside another: CREATED exactly when its token is there, and a page that shows
\* a failure has no token behind it.
THEOREM CreationToldAlways == CreationSpec => []CreationTold
<1>1. CreationInit => CreationSafe /\ SettledAlone
  <2>1. CreationInit => SettledAlone
    BY CreationsAssumption
       DEF CreationInit, SettledAlone, Told, Active, Unseen, AwaitsAddress, Owns, NoToken
  <2> QED
    BY <2>1, CreationTypeInit
<1>2. CreationSafe /\ SettledAlone /\ [CreationNext]_creationVars => (CreationSafe /\ SettledAlone)'
  BY CreationSafeNext, SettledAloneNext
<1>3. SettledAlone => CreationTold
  <2> SUFFICES ASSUME SettledAlone, NEW c \in Creations \ disturbed
               PROVE  /\ Owns(c) => \/ creation[c].status = "CREATED"
                                    \/ \E p \in Settlements : settling[p].creation = c /\ settling[p].at = "update"
                      /\ creation[c].status = "CREATED" => Owns(c)
                      /\ page[c] = "failed" => ~Owns(c)
    BY DEF CreationTold
  <2> QED
    BY DEF SettledAlone, Told, Active
<1> QED
  BY <1>1, <1>2, <1>3, PTL DEF CreationSpec

-----------------------------------------------------------------------------
(* The token contract.                                                     *)

\* Sums of balances, of any numbers: a transfer passes through sums that are not
\* typed as balances yet.
Held(b) == SumFunctionOnSet(b, Accounts)

\* The account of a goes to v.
LEMMA SetKeeps ==
  ASSUME NEW b \in [Accounts -> Int], NEW a \in Accounts, NEW v \in Int
  PROVE  Held([b EXCEPT ![a] = v]) = Held(b) - b[a] + v
<1> DEFINE d == [b EXCEPT ![a] = v]
<1>1. \A x \in Accounts : b[x] \in Int
  OBVIOUS
<1>2. d[a] = v /\ \A x \in Accounts \ {a} : d[x] = b[x]
  OBVIOUS
<1> HIDE DEF d
<1>3. Held(d) = Held(b) - b[a] + d[a]
  BY <1>1, <1>2, SumChange, TokenAccountsAssumption DEF Held
<1>4. QED
  BY <1>2, <1>3 DEF d

\* Tokens moved from one account to another stay what they were in all.
LEMMA MovedKeeps ==
  ASSUME NEW b \in [Accounts -> Int], NEW from \in Accounts, NEW to \in Accounts, NEW n \in Int,
         from # to \/ n = 0
  PROVE  /\ Moved(b, from, to, n) \in [Accounts -> Int]
         /\ Held(Moved(b, from, to, n)) = Held(b)
<1>1. CASE from = to
  <2>1. n = 0
    BY <1>1
  <2>2. Moved(b, from, to, n) = b
    BY <1>1, <2>1 DEF Moved
  <2>3. QED
    BY <2>2
<1>2. CASE from # to
  <2> DEFINE d == [b EXCEPT ![from] = b[from] - n]
             e == [d EXCEPT ![to] = b[to] + n]
  <2>1. Moved(b, from, to, n) = e
    BY <1>2 DEF Moved
  <2>2. d \in [Accounts -> Int] /\ e \in [Accounts -> Int] /\ d[to] = b[to]
    BY <1>2
  <2>3. b[from] \in Int /\ b[to] \in Int /\ b[from] - n \in Int /\ b[to] + n \in Int
    OBVIOUS
  <2>4. Held(d) = Held(b) - b[from] + (b[from] - n)
    BY <2>3, SetKeeps
  <2>5. Held(e) = Held(d) - d[to] + (b[to] + n)
    <3> HIDE DEF d
    <3>1. QED
      BY <2>2, <2>3, SetKeeps
  <2>6. Held(b) \in Int
    <3>1. \A a \in Accounts : b[a] \in Int
      OBVIOUS
    <3>2. QED
      BY <3>1, SumInt, TokenAccountsAssumption DEF Held
  <2> HIDE DEF d, e
  <2>7. QED
    BY <2>1, <2>2, <2>3, <2>4, <2>5, <2>6
<1>3. QED
  BY <1>1, <1>2

\* What a call on its way remembers: it went to somebody else, and its sender has
\* been there ever since unless somebody left.
CallsNamed ==
  \A c \in Calls : swap[c].at = "called" =>
    /\ swap[c].from # swap[c].to
    /\ ~left => swap[c].from \in registered

SupplyInv ==
  /\ TokenTypeOK /\ CallsNamed
  /\ Held(balance) = supply
  /\ ~left => supply = TotalSupply
  /\ \A a \in Accounts \ registered : balance[a] = 0

LEMMA SupplyInvInit == TokenInit => SupplyInv
<1> SUFFICES ASSUME TokenInit PROVE SupplyInv
  OBVIOUS
<1>1. TokenTypeOK
  BY TokenAccountsAssumption, TokenFeesAssumption DEF TokenInit, TokenTypeOK, Swap, UnsentSwap
<1>2. CallsNamed
  BY DEF TokenInit, CallsNamed, UnsentSwap
<1>3. Held(balance) = supply
  <2> DEFINE zero == [a \in Accounts |-> 0]
  <2>1. zero \in [Accounts -> Int] /\ Owner \in Accounts /\ TotalSupply \in Int /\ zero[Owner] = 0
    BY TokenAccountsAssumption, TokenFeesAssumption
  <2>2. balance = [zero EXCEPT ![Owner] = TotalSupply]
    BY DEF TokenInit
  <2>3. \A a \in Accounts : zero[a] = 0
    OBVIOUS
  <2> HIDE DEF zero
  <2>4. Held(zero) = 0
    BY <2>3, SumZero, TokenAccountsAssumption DEF Held
  <2>5. Held(balance) = 0 - 0 + TotalSupply
    BY <2>1, <2>2, <2>4, SetKeeps
  <2>6. QED
    BY <2>1, <2>5 DEF TokenInit
<1>4. QED
  BY <1>1, <1>2, <1>3, TokenAccountsAssumption DEF TokenInit, SupplyInv

\* The balance of each account after tokens were moved.
LEMMA MovedAt ==
  ASSUME NEW b \in [Accounts -> Int], NEW from \in Accounts, NEW to \in Accounts, NEW n \in Int,
         from # to
  PROVE  \A a \in Accounts :
           Moved(b, from, to, n)[a] =
             IF a = from THEN b[a] - n ELSE IF a = to THEN b[a] + n ELSE b[a]
BY DEF Moved

\* Balances that are not negative, and nothing with who is not registered.
LEMMA BalanceInv ==
  ASSUME SupplyInv, NEW b \in [Accounts -> Int], balance' = b, Held(b) = Held(balance),
         \A a \in Accounts : b[a] >= 0, \A a \in Accounts \ registered : b[a] = 0,
         UNCHANGED <<registered, supply, left>>, swap' \in [Calls -> Swap], CallsNamed'
  PROVE  SupplyInv'
<1>1. b \in [Accounts -> Nat]
  OBVIOUS
<1>2. TokenTypeOK'
  BY <1>1 DEF SupplyInv, TokenTypeOK
<1>3. QED
  BY <1>2 DEF SupplyInv

LEMMA TransferInv ==
  ASSUME SupplyInv, NEW from \in Accounts, NEW to \in Accounts, NEW n \in 1..TotalSupply,
         Transfer(from, to, n)
  PROVE  SupplyInv'
<1>1. /\ n \in Int /\ n > 0 /\ from # to /\ {from, to} \subseteq registered
      /\ n <= balance[from] /\ balance' = Moved(balance, from, to, n)
  BY TokenFeesAssumption DEF Transfer, CanMove
<1>2. /\ balance \in [Accounts -> Nat] /\ \A a \in Accounts \ registered : balance[a] = 0
      /\ swap \in [Calls -> Swap]
  BY DEF SupplyInv, TokenTypeOK
<1> DEFINE b == Moved(balance, from, to, n)
<1>3. b \in [Accounts -> Int] /\ Held(b) = Held(balance)
  BY <1>1, <1>2, MovedKeeps
<1>4. \A a \in Accounts : b[a] = IF a = from THEN balance[a] - n
                                 ELSE IF a = to THEN balance[a] + n ELSE balance[a]
  BY <1>1, <1>2, MovedAt
<1>5. CallsNamed'
  BY DEF SupplyInv, CallsNamed, Transfer
<1> HIDE DEF b
<1>6. (\A a \in Accounts : b[a] >= 0) /\ \A a \in Accounts \ registered : b[a] = 0
  BY <1>1, <1>2, <1>4
<1>7. swap' \in [Calls -> Swap] /\ UNCHANGED <<registered, supply, left>> /\ balance' = b
  BY <1>1, <1>2 DEF Transfer, b
<1>8. QED
  BY <1>3, <1>5, <1>6, <1>7, BalanceInv

LEMMA FeeIsNat == \A n \in Nat : Fee(n) \in Nat
<1> TAKE n \in Nat
<1> DEFINE p == n * FeeBps
<1>1. p \in Nat
  BY TokenFeesAssumption
<1>2. BpsDenominator \in Nat /\ BpsDenominator > 0
  BY TokenFeesAssumption
<1>3. Fee(n) = p \div BpsDenominator
  BY DEF Fee
<1> HIDE DEF p
<1>4. QED
  BY <1>1, <1>2, <1>3

LEMMA TransferCallInv ==
  ASSUME SupplyInv, NEW from \in Accounts, NEW to \in Accounts, NEW n \in 1..TotalSupply,
         NEW c \in Calls, TransferCall(c, from, to, n)
  PROVE  SupplyInv'
<1> DEFINE fee == IF from = Owner THEN 0 ELSE Fee(n)
           net == n - 2 * fee
           b1 == Moved(balance, from, PlatformAccount, fee)
           b2 == Moved(b1, from, FounderAccount, fee)
           b3 == Moved(b2, from, to, net)
<1>1. /\ fee \in Nat /\ n \in Int
  BY TokenFeesAssumption, FeeIsNat
<1>2. /\ n <= balance[from] /\ balance' = b3
      /\ fee > 0 => /\ {from, PlatformAccount, FounderAccount} \subseteq registered
                    /\ from # PlatformAccount /\ from # FounderAccount
      /\ {from, to} \subseteq registered /\ from # to /\ net > 0
      /\ swap' = [swap EXCEPT ![c] = [at |-> "called", from |-> from, to |-> to, amount |-> net]]
      /\ UNCHANGED <<registered, supply, left>>
  BY DEF TransferCall, CanMove
<1>3. /\ balance \in [Accounts -> Nat] /\ \A a \in Accounts \ registered : balance[a] = 0
      /\ swap \in [Calls -> Swap] /\ CallsNamed
  BY DEF SupplyInv, TokenTypeOK
<1>4. PlatformAccount \in Accounts /\ FounderAccount \in Accounts /\ net \in Nat /\ n = net + 2 * fee
  <2> HIDE DEF fee
  <2>1. net > 0
    BY <1>2
  <2>2. QED
    BY <1>1, <2>1, TokenAccountsAssumption
<1> HIDE DEF fee, net
<1>5. b1 \in [Accounts -> Int] /\ Held(b1) = Held(balance)
  <2>1. from # PlatformAccount \/ fee = 0
    BY <1>1, <1>2
  <2>2. QED
    BY <1>1, <1>3, <1>4, <2>1, MovedKeeps
<1>6. b2 \in [Accounts -> Int] /\ Held(b2) = Held(b1)
  <2>1. from # FounderAccount \/ fee = 0
    BY <1>1, <1>2
  <2> HIDE DEF b1
  <2>2. QED
    BY <1>1, <1>4, <1>5, <2>1, MovedKeeps
<1>7. b3 \in [Accounts -> Int] /\ Held(b3) = Held(b2)
  <2> HIDE DEF b2
  <2>2. QED
    BY <1>2, <1>4, <1>6, MovedKeeps
<1>8. \A a \in Accounts : b3[a] >= 0 /\ (a \notin registered => b3[a] = 0)
  <2>1. \A a \in Accounts : b3[a] = IF a = from THEN b2[a] - net
                                     ELSE IF a = to THEN b2[a] + net ELSE b2[a]
    <3> HIDE DEF b2
    <3>1. net \in Int /\ from # to
      BY <1>2, <1>4
    <3>2. QED
      BY <3>1, <1>6, MovedAt
  <2>2. CASE fee = 0
    <3>1. b1 = balance
      BY <2>2, <1>3, <1>4 DEF Moved
    <3>2. b2 = b1
      <4> HIDE DEF b1
      <4>1. QED
        BY <2>2, <1>4, <1>5 DEF Moved
    <3> HIDE DEF b1, b2, b3
    <3>3. QED
      BY <2>1, <2>2, <3>1, <3>2, <1>1, <1>2, <1>3, <1>4
  <2>3. CASE fee > 0
    <3>1. \A a \in Accounts : b1[a] = IF a = from THEN balance[a] - fee
                                       ELSE IF a = PlatformAccount THEN balance[a] + fee
                                       ELSE balance[a]
      <4>1. fee \in Int /\ from # PlatformAccount /\ balance \in [Accounts -> Int]
        BY <2>3, <1>1, <1>2, <1>3
      <4>2. QED
        BY <4>1, <1>4, MovedAt
    <3>2. \A a \in Accounts : b2[a] = IF a = from THEN b1[a] - fee
                                       ELSE IF a = FounderAccount THEN b1[a] + fee
                                       ELSE b1[a]
      <4> HIDE DEF b1
      <4>1. fee \in Int /\ from # FounderAccount
        BY <2>3, <1>1, <1>2
      <4>2. QED
        BY <4>1, <1>4, <1>5, MovedAt
    <3> HIDE DEF b1, b2, b3
    <3>3. QED
      BY <2>1, <2>3, <3>1, <3>2, <1>1, <1>2, <1>3, <1>4, <1>5, <1>6
  <2>4. QED
    BY <2>2, <2>3, <1>1
<1> HIDE DEF b1, b2, b3
<1> DEFINE s == [at |-> "called", from |-> from, to |-> to, amount |-> net]
<1>9. s \in Swap
  BY <1>4 DEF Swap
<1>10. s.at = "called" /\ s.from = from /\ s.to = to
  OBVIOUS
<1> HIDE DEF s
<1>11. swap' = [swap EXCEPT ![c] = s]
  BY <1>2 DEF s
<1>12. swap' \in [Calls -> Swap]
  BY <1>3, <1>9, <1>11
<1>13. CallsNamed'
  <2> SUFFICES ASSUME NEW d \in Calls, swap'[d].at = "called"
               PROVE  swap'[d].from # swap'[d].to /\ (~left' => swap'[d].from \in registered')
    BY DEF CallsNamed
  <2>1. CASE d = c
    BY <2>1, <1>2, <1>3, <1>10, <1>11
  <2>2. CASE d # c
    BY <2>2, <1>2, <1>3, <1>11 DEF CallsNamed
  <2>3. QED
    BY <2>1, <2>2
<1>14. balance' = b3 /\ Held(b3) = Held(balance)
  BY <1>2, <1>5, <1>6, <1>7
<1>15. QED
  BY <1>2, <1>7, <1>8, <1>12, <1>13, <1>14, BalanceInv

\* What is given back is no more than what was not used and what is still there.
LEMMA Refund ==
  ASSUME NEW u \in Nat, NEW b \in Nat
  PROVE  Min({u, b}) \in Nat /\ Min({u, b}) <= u /\ Min({u, b}) <= b
<1>1. \E x \in {u, b} : \A y \in {u, b} : x <= y
  OBVIOUS
<1>2. Min({u, b}) \in {u, b} /\ \A y \in {u, b} : Min({u, b}) <= y
  BY <1>1 DEF Min
<1>3. QED
  BY <1>2

LEMMA ResolveInv ==
  ASSUME SupplyInv, NEW c \in Calls, NEW unused \in 0..TotalSupply, ResolveTransfer(c, unused)
  PROVE  SupplyInv'
<1> DEFINE from == swap[c].from
           to == swap[c].to
           refund == Min({unused, balance[to]})
           done == [UnsentSwap EXCEPT !.at = "resolved"]
<1>1. /\ swap[c].at = "called"
      /\ balance' = IF from \in registered THEN Moved(balance, to, from, refund)
                    ELSE [balance EXCEPT ![to] = @ - refund]
      /\ supply' = IF from \in registered THEN supply ELSE supply - refund
      /\ swap' = [swap EXCEPT ![c] = done]
      /\ UNCHANGED <<registered, left>>
  BY DEF ResolveTransfer
<1>2. /\ balance \in [Accounts -> Nat] /\ \A a \in Accounts \ registered : balance[a] = 0
      /\ swap \in [Calls -> Swap] /\ CallsNamed /\ supply \in Nat /\ Held(balance) = supply
      /\ registered \subseteq Accounts /\ left \in BOOLEAN
  BY DEF SupplyInv, TokenTypeOK
<1>3. from \in Accounts /\ to \in Accounts /\ from # to /\ (~left => from \in registered)
  BY <1>1, <1>2 DEF Swap, CallsNamed
<1>4. refund \in Nat /\ refund <= balance[to]
  <2>1. unused \in Nat /\ balance[to] \in Nat
    BY <1>2, <1>3, TokenFeesAssumption
  <2>2. QED
    BY <2>1, Refund
<1>5. done \in Swap /\ done.at = "resolved"
  BY TokenAccountsAssumption DEF Swap, UnsentSwap
<1> HIDE DEF done
<1>6. swap' \in [Calls -> Swap]
  BY <1>1, <1>2, <1>5
<1>7. CallsNamed'
  <2> SUFFICES ASSUME NEW d \in Calls, swap'[d].at = "called"
               PROVE  swap'[d].from # swap'[d].to /\ (~left' => swap'[d].from \in registered')
    BY DEF CallsNamed
  <2>1. d # c
    BY <1>1, <1>2, <1>5
  <2>2. swap'[d] = swap[d]
    BY <2>1, <1>1, <1>2
  <2>3. QED
    BY <2>2, <1>1, <1>2 DEF CallsNamed
<1> HIDE DEF from, to, refund
<1>8. CASE from \in registered
  <2> DEFINE b == Moved(balance, to, from, refund)
  <2>1. balance' = b /\ supply' = supply /\ UNCHANGED <<registered, left>>
    BY <1>1, <1>8
  <2>2. b \in [Accounts -> Int] /\ Held(b) = Held(balance)
    BY <1>2, <1>3, <1>4, MovedKeeps
  <2>3. \A a \in Accounts : b[a] = IF a = to THEN balance[a] - refund
                                   ELSE IF a = from THEN balance[a] + refund ELSE balance[a]
    <3>1. refund \in Int /\ balance \in [Accounts -> Int] /\ to # from
      BY <1>2, <1>3, <1>4
    <3>2. QED
      BY <3>1, <1>3, MovedAt
  <2> HIDE DEF b
  <2>4. \A a \in Accounts : b[a] >= 0 /\ (a \notin registered => b[a] = 0)
    BY <2>3, <1>2, <1>3, <1>4, <1>8
  <2>5. QED
    BY <2>1, <2>2, <2>4, <1>6, <1>7, BalanceInv
<1>9. CASE from \notin registered
  <2> DEFINE v == balance[to] - refund
             b == [balance EXCEPT ![to] = v]
  <2>1. balance' = b /\ supply' = supply - refund /\ UNCHANGED <<registered, left>>
    BY <1>1, <1>9
  <2>2. v \in Nat /\ balance[to] \in Nat
    BY <1>2, <1>3, <1>4
  <2>3. b \in [Accounts -> Nat] /\ b[to] = v /\ \A a \in Accounts \ {to} : b[a] = balance[a]
    BY <1>2, <1>3, <2>2
  <2>4. Held(b) = Held(balance) - balance[to] + v
    <3>1. balance \in [Accounts -> Int] /\ v \in Int
      BY <1>2, <2>2
    <3> HIDE DEF v
    <3>2. QED
      BY <3>1, <1>3, SetKeeps
  <2>5. \A a \in Accounts \ registered : b[a] = 0
    BY <2>3, <1>2, <1>3, <1>4
  <2>6. Held(b) = supply - refund
    BY <2>4, <1>2, <1>4, <2>2
  <2>7. Held(b) \in Nat
    <3>1. \A a \in Accounts : b[a] \in Nat
      BY <2>3
    <3> HIDE DEF b
    <3>2. QED
      BY <3>1, SumNat, TokenAccountsAssumption DEF Held
  <2>8. left
    BY <1>3, <1>9
  <2> HIDE DEF b, v
  <2>9. TokenTypeOK'
    BY <2>1, <2>3, <2>6, <2>7, <1>2, <1>6 DEF TokenTypeOK
  <2>10. QED
    BY <2>1, <2>5, <2>6, <2>8, <2>9, <1>7 DEF SupplyInv
<1>10. QED
  BY <1>8, <1>9

LEMMA StorageInv ==
  ASSUME SupplyInv, NEW a \in Accounts, StorageDeposit(a) \/ StorageUnregister(a)
  PROVE  SupplyInv'
<1>1. /\ balance \in [Accounts -> Nat] /\ \A x \in Accounts \ registered : balance[x] = 0
      /\ swap \in [Calls -> Swap] /\ CallsNamed /\ supply \in Nat /\ Held(balance) = supply
      /\ registered \subseteq Accounts /\ left \in BOOLEAN
  BY DEF SupplyInv, TokenTypeOK
<1>2. CASE StorageDeposit(a)
  <2>1. TokenTypeOK' /\ CallsNamed'
    BY <1>1, <1>2 DEF StorageDeposit, TokenTypeOK, CallsNamed
  <2>2. QED
    BY <2>1, <1>2 DEF StorageDeposit, SupplyInv
<1>3. CASE StorageUnregister(a)
  <2>1. /\ registered' = registered \ {a}
        /\ balance' = [balance EXCEPT ![a] = 0] /\ supply' = supply - balance[a]
        /\ left' = (left \/ balance[a] > 0
                      \/ \E c \in Calls : swap[c].at = "called" /\ swap[c].from = a)
        /\ swap' = swap
    BY <1>3 DEF StorageUnregister
  <2>2. Held(balance') = supply'
    <3>1. Held([balance EXCEPT ![a] = 0]) = Held(balance) - balance[a] + 0
      <4> DEFINE none == 0
      <4>1. balance \in [Accounts -> Int] /\ none \in Int
        BY <1>1
      <4> HIDE DEF none
      <4>2. Held([balance EXCEPT ![a] = none]) = Held(balance) - balance[a] + none
        BY <4>1, SetKeeps
      <4>3. QED
        BY <4>2 DEF none
    <3>2. balance[a] \in Nat
      BY <1>1
    <3>3. QED
      BY <2>1, <3>1, <3>2, <1>1
  <2>3. balance' \in [Accounts -> Nat] /\ \A x \in Accounts \ registered' : balance'[x] = 0
    BY <1>1, <2>1
  <2>4. supply' \in Nat
    <3>1. \A x \in Accounts : balance'[x] \in Nat
      BY <2>3
    <3>2. Held(balance') \in Nat
      BY <3>1, SumNat, TokenAccountsAssumption DEF Held
    <3>3. QED
      BY <3>2, <2>2
  <2>5. TokenTypeOK'
    <3>1. left' \in BOOLEAN
      BY <2>1
    <3>2. QED
      BY <1>1, <2>1, <2>3, <2>4, <3>1 DEF TokenTypeOK
  <2>6. CallsNamed'
    BY <1>1, <2>1 DEF CallsNamed
  <2>7. ~left' => supply' = TotalSupply
    <3>1. balance[a] \in Nat
      BY <1>1
    <3>2. ~left' => ~left /\ ~(balance[a] > 0)
      BY <2>1
    <3>3. ~left => supply = TotalSupply
      BY DEF SupplyInv
    <3>4. QED
      BY <2>1, <3>1, <3>2, <3>3, <1>1
  <2>8. QED
    BY <2>2, <2>3, <2>5, <2>6, <2>7 DEF SupplyInv, Held
<1>4. QED
  BY <1>2, <1>3

LEMMA SupplyInvNext == SupplyInv /\ [TokenNext]_tokenVars => SupplyInv'
<1> SUFFICES ASSUME SupplyInv, [TokenNext]_tokenVars PROVE SupplyInv'
  OBVIOUS
<1>1. ASSUME NEW from \in Accounts, NEW to \in Accounts, NEW n \in 1..TotalSupply,
             Transfer(from, to, n) \/ \E c \in Calls : TransferCall(c, from, to, n)
      PROVE  SupplyInv'
  BY <1>1, TransferInv, TransferCallInv
<1>2. ASSUME NEW c \in Calls, NEW unused \in 0..TotalSupply, ResolveTransfer(c, unused)
      PROVE  SupplyInv'
  BY <1>2, ResolveInv
<1>3. ASSUME NEW a \in Accounts, StorageDeposit(a) \/ StorageUnregister(a) PROVE SupplyInv'
  BY <1>3, StorageInv
<1>4. CASE UNCHANGED tokenVars
  BY <1>4 DEF tokenVars, SupplyInv, TokenTypeOK, CallsNamed, Held
<1>5. QED
  BY <1>1, <1>2, <1>3, <1>4 DEF TokenNext

LEMMA SupplyInvKept == SupplyInv => SupplyKept
<1> SUFFICES ASSUME SupplyInv PROVE SupplyKept
  OBVIOUS
<1>1. DOMAIN balance = Accounts
  BY DEF SupplyInv, TokenTypeOK
<1>2. SumFunction(balance) = Held(balance)
  BY <1>1 DEF SumFunction, Held
<1>3. QED
  BY <1>2 DEF SupplyInv, SupplyKept

\* The accounts of a launched token always add up to its supply, whatever was
\* passed on or unregistered while calls were on their way, and tokens are burned
\* only with an account that left (ft_transfer_call, ft_resolve_transfer and
\* storage_unregister of near-zodd-launch-rust/token/src/lib.rs).
THEOREM SupplyKeptAlways == TokenSpec => []SupplyKept
<1>1. TokenInit => SupplyInv
  BY SupplyInvInit
<1>2. SupplyInv /\ [TokenNext]_tokenVars => SupplyInv'
  BY SupplyInvNext
<1>3. SupplyInv => SupplyKept
  BY SupplyInvKept
<1>4. QED
  BY <1>1, <1>2, <1>3, PTL DEF TokenSpec

-----------------------------------------------------------------------------
(* The instances together.                                                 *)

\* Each part of what waits for a payment keeps its types, whichever is explored.
THEOREM PendingTypeAlways == PendingSpec => []PendingTypeOK
<1> DEFINE Inv == LaunchInv /\ SupplyInv /\ CreationSafe
<1>1. PendingInit => Inv
  BY LaunchInvInit, SupplyInvInit, CreationTypeInit DEF PendingInit
<1>2. Inv /\ [PendingNext]_pendingVars => Inv'
  <2> SUFFICES ASSUME Inv, [PendingNext]_pendingVars PROVE Inv'
    OBVIOUS
  <2>1. [LaunchNext]_launchVars /\ [TokenNext]_tokenVars /\ [CreationNext]_creationVars
    BY DEF PendingNext, pendingVars
  <2>2. QED
    BY <2>1, LaunchInvNext, SupplyInvNext, CreationSafeNext
<1>3. Inv /\ part \in {"launch", "contract", "creation"} => PendingTypeOK
  BY DEF PendingTypeOK, LaunchInv, SupplyInv, CreationSafe
<1>4. PendingInit => part \in {"launch", "contract", "creation"}
  BY DEF PendingInit
<1>5. [PendingNext]_pendingVars => UNCHANGED part
  BY DEF PendingNext, pendingVars
<1> HIDE DEF Inv
<1>6. QED
  <2> DEFINE J == Inv /\ part \in {"launch", "contract", "creation"}
  <2>1. PendingInit => J
    BY <1>1, <1>4
  <2>2. J /\ [PendingNext]_pendingVars => J'
    BY <1>2, <1>5
  <2>3. J => PendingTypeOK
    BY <1>3
  <2> HIDE DEF J
  <2>4. QED
    BY <2>1, <2>2, <2>3, PTL DEF PendingSpec
=============================================================================
