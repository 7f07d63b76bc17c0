------------------------- MODULE PaymentWatch_proofs -------------------------
(***************************************************************************)
(* What PaymentWatch guarantees for any records, notes, amounts, durations *)
(* and bounds.                                                             *)
(***************************************************************************)
EXTENDS PaymentWatch, TLAPS

USE DEF Never, Missing, Time

(***************************************************************************)
(* A pass gives every watcher at most one of its candidates, and a note to *)
(* at most one watcher.                                                    *)
(***************************************************************************)
LEMMA PassFacts ==
  ASSUME NEW cand, NEW m \in Passes(cand)
  PROVE  /\ DOMAIN m \subseteq Records
         /\ \A r \in DOMAIN m : m[r] \in cand[r] /\ m[r] \in Notes
         /\ \A r, q \in DOMAIN m : m[r] = m[q] => r = q
         /\ Given(m) \subseteq Notes
  BY DEF Passes, Given

(***************************************************************************)
(* The callbacks of a pass: one per watcher that took a note.              *)
(***************************************************************************)
LEMMA CallbackFacts ==
  ASSUME NEW cand, NEW m \in Passes(cand), NEW before, NEW d \in Callbacks(m, before)
  PROVE  /\ d \in Delivery /\ d.step = "fired"
         /\ d.rec \in DOMAIN m /\ d.note = m[d.rec]
         /\ d.note \in cand[d.rec] /\ d.note \in Given(m)
  <1>1. PICK r \in DOMAIN m : d = [note |-> m[r], rec |-> r,
                                   repeat |-> r \in before, step |-> "fired"]
    BY DEF Callbacks
  <1>2. r \in Records /\ m[r] \in cand[r] /\ m[r] \in Notes
    BY PassFacts
  <1>3. (r \in before) \in BOOLEAN
    OBVIOUS
  <1> QED BY <1>1, <1>2, <1>3 DEF Delivery, Given

LEMMA CallbackOfNote ==
  ASSUME NEW cand, NEW m \in Passes(cand), NEW before,
         NEW d \in Callbacks(m, before), NEW e \in Callbacks(m, before),
         d.note = e.note
  PROVE  d = e
  BY PassFacts DEF Callbacks

(***************************************************************************)
(* A callback a poll adds carries a listed note out of one of the three    *)
(* passes, and its transaction was not used before.                        *)
(***************************************************************************)
LEMMA NewCallback ==
  ASSUME NEW list \in SUBSET Notes,
         NEW m0 \in Passes(ByDiversifier(Available(list))),
         NEW m1 \in Passes(ByMemo(Available(list) \ Given(m0))),
         NEW m2 \in Passes(ByAmount(Available(list) \ (Given(m0) \cup Given(m1)))),
         Attribute(m0, m1, m2),
         NEW d \in deliveries', d \notin deliveries
  PROVE  /\ d \in Delivery /\ d.step = "fired" /\ d.note \in list
         /\ TxOf[d.note] \notin consumed /\ TxOf[d.note] \in consumed'
         /\ \/ d.note \in ByDiversifier(list)[d.rec]
            \/ d.note \in ByMemo(list)[d.rec]
            \/ d.note \in ByAmount(list)[d.rec]
  <1> DEFINE before == {r \in Watched : watchers[r].matched # Never}
  <1>1. /\ consumed' = consumed \cup
             {TxOf[n] : n \in Given(m0) \cup Given(m1) \cup Given(m2)}
        /\ \/ d \in Callbacks(m0, before)
           \/ d \in Callbacks(m1, before \cup DOMAIN m0)
           \/ d \in Callbacks(m2, before \cup DOMAIN m0 \cup DOMAIN m1)
    BY DEF Attribute
  <1>2. Available(list) \subseteq list /\ \A n \in Available(list) : TxOf[n] \notin consumed
    BY DEF Available
  <1>3. CASE d \in Callbacks(m0, before)
    <2>1. /\ d \in Delivery /\ d.step = "fired" /\ d.note \in Given(m0)
          /\ d.note \in ByDiversifier(Available(list))[d.rec]
      BY <1>3, CallbackFacts
    <2>2. d.note \in Available(list) /\ d.note \in ByDiversifier(list)[d.rec]
      BY <2>1, <1>2 DEF ByDiversifier, Delivery
    <2> QED BY <1>1, <1>2, <2>1, <2>2
  <1>4. CASE d \in Callbacks(m1, before \cup DOMAIN m0)
    <2>1. /\ d \in Delivery /\ d.step = "fired" /\ d.note \in Given(m1)
          /\ d.note \in ByMemo(Available(list) \ Given(m0))[d.rec]
      BY <1>4, CallbackFacts
    <2>2. d.note \in Available(list) /\ d.note \in ByMemo(list)[d.rec]
      BY <2>1, <1>2 DEF ByMemo, Delivery
    <2> QED BY <1>1, <1>2, <2>1, <2>2
  <1>5. CASE d \in Callbacks(m2, before \cup DOMAIN m0 \cup DOMAIN m1)
    <2>1. /\ d \in Delivery /\ d.step = "fired" /\ d.note \in Given(m2)
          /\ d.note \in ByAmount(Available(list) \ (Given(m0) \cup Given(m1)))[d.rec]
      BY <1>5, CallbackFacts
    <2>2. d.note \in Available(list) /\ d.note \in ByAmount(list)[d.rec]
      BY <2>1, <1>2 DEF ByAmount, Delivery
    <2> QED BY <1>1, <1>2, <2>1, <2>2
  <1> QED BY <1>1, <1>3, <1>4, <1>5

(***************************************************************************)
(* Two callbacks a poll adds carry different notes: the passes share the   *)
(* notes out.                                                              *)
(***************************************************************************)
LEMMA NewCallbacksDiffer ==
  ASSUME NEW list \in SUBSET Notes,
         NEW m0 \in Passes(ByDiversifier(Available(list))),
         NEW m1 \in Passes(ByMemo(Available(list) \ Given(m0))),
         NEW m2 \in Passes(ByAmount(Available(list) \ (Given(m0) \cup Given(m1)))),
         Attribute(m0, m1, m2),
         NEW d \in deliveries', d \notin deliveries,
         NEW e \in deliveries', e \notin deliveries,
         d.note = e.note
  PROVE  d = e
  <1> DEFINE b0 == {r \in Watched : watchers[r].matched # Never}
             b1 == b0 \cup DOMAIN m0
             b2 == b0 \cup DOMAIN m0 \cup DOMAIN m1
             new == Callbacks(m0, b0) \cup Callbacks(m1, b1) \cup Callbacks(m2, b2)
  <1>1. d \in new /\ e \in new
    BY DEF Attribute
  <1>2. \A x \in Callbacks(m0, b0) : x.note \in Given(m0)
    BY CallbackFacts
  <1>3. \A x \in Callbacks(m1, b1) : x.note \in Given(m1) /\ x.note \notin Given(m0)
    <2> SUFFICES ASSUME NEW x \in Callbacks(m1, b1)
                 PROVE  x.note \in Given(m1) /\ x.note \notin Given(m0)
      OBVIOUS
    <2>1. /\ x \in Delivery /\ x.note \in Given(m1)
          /\ x.note \in ByMemo(Available(list) \ Given(m0))[x.rec]
      BY CallbackFacts
    <2> QED BY <2>1 DEF ByMemo, Delivery
  <1>4. \A x \in Callbacks(m2, b2) : x.note \notin Given(m0) /\ x.note \notin Given(m1)
    <2> SUFFICES ASSUME NEW x \in Callbacks(m2, b2)
                 PROVE  x.note \notin Given(m0) /\ x.note \notin Given(m1)
      OBVIOUS
    <2>1. /\ x \in Delivery
          /\ x.note \in ByAmount(Available(list) \ (Given(m0) \cup Given(m1)))[x.rec]
      BY CallbackFacts
    <2> QED BY <2>1 DEF ByAmount, Delivery
  <1>5. \/ d \in Callbacks(m0, b0) /\ e \in Callbacks(m0, b0)
        \/ d \in Callbacks(m1, b1) /\ e \in Callbacks(m1, b1)
        \/ d \in Callbacks(m2, b2) /\ e \in Callbacks(m2, b2)
    BY <1>1, <1>2, <1>3, <1>4
  <1> HIDE DEF b0, b1, b2
  <1> QED BY <1>5, CallbackOfNote

-----------------------------------------------------------------------------
(***************************************************************************)
(* Type correctness.                                                       *)
(***************************************************************************)
LEMMA InitType == Init => TypeOK
  <1> SUFFICES ASSUME Init PROVE TypeOK
    OBVIOUS
  <1>1. NoRow \in Row
    BY AmountsAssumption, BoundsAssumption DEF NoRow, Row
  <1>2. IdlePoll \in [phase : {"idle", "waiting"}, begun : 1..MaxTime, seen : SUBSET Notes]
    BY BoundsAssumption DEF IdlePoll
  <1> QED BY <1>1, <1>2, BoundsAssumption DEF Init, TypeOK

\* A settlement step only moves the callback it is about.
LEMMA AdvanceType ==
  ASSUME deliveries \subseteq Delivery, NEW d \in deliveries,
         NEW step \in {"checked", "credited", "recorded", "over"}, Advance(d, step)
  PROVE  deliveries' \subseteq Delivery
  BY DEF Advance, Delivery

LEMMA RowStatus ==
  ASSUME TypeOK, NEW r \in Records, NEW st \in {"PENDING", "FILLED", "FAILED"}
  PROVE  [rows EXCEPT ![r].status = st] \in [Records -> Row]
  <1>1. rows[r] \in Row
    BY DEF TypeOK
  <1>2. [rows[r] EXCEPT !.status = st] \in Row
    BY <1>1 DEF Row
  <1> QED BY <1>2 DEF TypeOK

LEMMA AttributeType ==
  ASSUME TypeOK, NEW list \in SUBSET Notes,
         NEW m0 \in Passes(ByDiversifier(Available(list))),
         NEW m1 \in Passes(ByMemo(Available(list) \ Given(m0))),
         NEW m2 \in Passes(ByAmount(Available(list) \ (Given(m0) \cup Given(m1)))),
         Attribute(m0, m1, m2)
  PROVE  /\ watchers' \in [Records -> Watcher \cup {NoWatch}]
         /\ consumed' \subseteq Txids
         /\ deliveries' \subseteq Delivery
  <1>1. deliveries' \subseteq Delivery
    BY NewCallback DEF TypeOK
  <1>2. consumed' \subseteq Txids
    <2>1. Given(m0) \cup Given(m1) \cup Given(m2) \subseteq Notes
      BY PassFacts
    <2> QED BY <2>1, TxOfAssumption DEF Attribute, TypeOK
  <1>3. ASSUME NEW r \in Records PROVE watchers'[r] \in Watcher \cup {NoWatch}
    <2> DEFINE before == {q \in Watched : watchers[q].matched # Never}
               hit == DOMAIN m0 \cup DOMAIN m1 \cup DOMAIN m2
    <2>1. watchers'[r] = IF r \in hit \ before
                         THEN [watchers[r] EXCEPT !.matched = now] ELSE watchers[r]
      BY <1>3 DEF Attribute
    <2>2. ASSUME r \in hit PROVE watchers[r] # NoWatch
      <3>1. CASE r \in DOMAIN m0
        <4>1. m0[r] \in ByDiversifier(Available(list))[r]
          BY <3>1, PassFacts
        <4> QED BY <4>1, <1>3 DEF ByDiversifier, Watched
      <3>2. CASE r \in DOMAIN m1
        <4>1. m1[r] \in ByMemo(Available(list) \ Given(m0))[r]
          BY <3>2, PassFacts
        <4> QED BY <4>1, <1>3 DEF ByMemo, Watched
      <3>3. CASE r \in DOMAIN m2
        <4>1. m2[r] \in ByAmount(Available(list) \ (Given(m0) \cup Given(m1)))[r]
          BY <3>3, PassFacts
        <4> QED BY <4>1, <1>3 DEF ByAmount, Watched
      <3> QED BY <2>2, <3>1, <3>2, <3>3
    <2>3. CASE r \in hit \ before
      <3>1. watchers[r] \in Watcher /\ now \in 1..MaxTime
        BY <2>2, <2>3, <1>3 DEF TypeOK
      <3>2. [watchers[r] EXCEPT !.matched = now] \in Watcher
        BY <3>1 DEF Watcher
      <3> QED BY <2>1, <2>3, <3>2
    <2>4. CASE r \notin hit \ before
      BY <2>1, <2>4, <1>3 DEF TypeOK
    <2> QED BY <2>3, <2>4
  <1>4. watchers' = [r \in Records |-> watchers'[r]]
    BY DEF Attribute
  <1>5. watchers' \in [Records -> Watcher \cup {NoWatch}]
    BY <1>3, <1>4
  <1> QED BY <1>1, <1>2, <1>5

LEMMA StepType == TypeOK /\ [Next]_vars => TypeOK'
  <1> SUFFICES ASSUME TypeOK, [Next]_vars PROVE TypeOK'
    OBVIOUS
  <1> USE DEF TypeOK
  <1>1. CASE Request
    <2>1. ASSUME NEW r \in Records, NEW a \in Amounts, CreateRecord(r, a) PROVE TypeOK'
      <3>1. [status |-> "PENDING", addr |-> NoAddr, amount |-> a, created |-> now] \in Row
        BY DEF Row
      <3>2. [addr |-> NoAddr, amount |-> a, created |-> now, original |-> now,
             matched |-> -1] \in Watcher
        BY DEF Watcher
      <3> QED BY <2>1, <3>1, <3>2 DEF CreateRecord, world, startup
    <2>2. ASSUME NEW r \in Records, NEW a \in Addresses, AddressReady(r, a) PROVE TypeOK'
      <3>1. [watchers[r] EXCEPT !.addr = a] \in Watcher
        BY <2>2 DEF AddressReady, Watcher
      <3> QED BY <2>2, <3>1 DEF AddressReady, persistent, world, startup
    <2>3. ASSUME NEW r \in Records, AddressFails(r) PROVE TypeOK'
      <3>1. [rows[r] EXCEPT !.status = "FAILED"] \in Row
        BY DEF Row
      <3> QED BY <2>3, <3>1 DEF AddressFails, world, startup
    <2>4. ASSUME NEW r \in Records, SetOrderAddress(r) PROVE TypeOK'
      <3>1. watchers[r].addr \in Addresses
        BY <2>4 DEF SetOrderAddress, Watcher
      <3>2. [rows[r] EXCEPT !.addr = watchers[r].addr] \in Row
        BY <3>1 DEF Row
      <3> QED BY <2>4, <3>2 DEF SetOrderAddress, memory, world, startup
    <2> QED BY <1>1, <2>1, <2>2, <2>3, <2>4 DEF Request
  <1>2. CASE Chain
    <2>1. ASSUME NEW n \in Notes, NEW r \in Records, NEW a \in Amounts,
                 NEW style \in Styles, Pay(n, r, a, style)
          PROVE  TypeOK'
      <3> DEFINE note == [payer |-> r, amount |-> a,
                          div |-> IF Patched THEN rows[r].addr ELSE NoAddr,
                          memo |-> IF style.memo THEN r ELSE NoRecord,
                          time |-> IF style.timed THEN now ELSE 0]
      <3>1. note \in Note
        BY DEF Row, Note
      <3> QED BY <2>1, <3>1 DEF Pay, Arrive, persistent, memory, startup
    <2>2. ASSUME NEW n \in Notes, SpendNote(n) PROVE TypeOK'
      BY <2>2 DEF SpendNote, persistent, memory, startup
    <2>3. CASE Tick
      BY <2>3, BoundsAssumption DEF Tick, persistent, memory, startup
    <2> QED BY <1>2, <2>1, <2>2, <2>3 DEF Chain
  <1>3. IdlePoll \in [phase : {"idle", "waiting"}, begun : 1..MaxTime, seen : SUBSET Notes]
    BY BoundsAssumption DEF IdlePoll
  <1>4. CASE Poll
    <2>1. CASE PollBegin
      BY <2>1 DEF PollBegin, Listed, persistent, world, startup
    <2>2. CASE PollFails
      BY <2>2, <1>3 DEF PollFails, persistent, world, startup
    <2>3. ASSUME NEW list \in SUBSET Notes, PollReply(list) PROVE TypeOK'
      <3>1. PICK m0 \in Passes(ByDiversifier(Available(list))) :
            \E m1 \in Passes(ByMemo(Available(list) \ Given(m0))) :
            \E m2 \in Passes(ByAmount(Available(list) \ (Given(m0) \cup Given(m1)))) :
              Attribute(m0, m1, m2)
        BY <2>3 DEF PollReply
      <3>2. PICK m1 \in Passes(ByMemo(Available(list) \ Given(m0))) :
            \E m2 \in Passes(ByAmount(Available(list) \ (Given(m0) \cup Given(m1)))) :
              Attribute(m0, m1, m2)
        BY <3>1
      <3>3. PICK m2 \in Passes(ByAmount(Available(list) \ (Given(m0) \cup Given(m1)))) :
              Attribute(m0, m1, m2)
        BY <3>2
      <3>4. /\ watchers' \in [Records -> Watcher \cup {NoWatch}]
            /\ consumed' \subseteq Txids
            /\ deliveries' \subseteq Delivery
        BY <3>3, AttributeType
      <3> QED BY <2>3, <3>4, <1>3 DEF PollReply, persistent, world, startup
    <2> QED BY <1>4, <2>1, <2>2, <2>3 DEF Poll, PollAnswered
  <1>5. ASSUME NEW d \in deliveries, Settle(d) PROVE TypeOK'
    <2>0. d \in Delivery
      OBVIOUS
    <2>1. CASE HandlerCheck(d)
      <3>1. PICK step \in {"checked", "credited", "recorded", "over"} : Advance(d, step)
        BY <2>1 DEF HandlerCheck
      <3> QED BY <2>1, <3>1, AdvanceType DEF HandlerCheck, persistent, world, startup
    <2>2. CASE HandlerCredit(d)
      <3>1. credits' \in [Notes -> [Records -> Nat]]
        BY <2>0, <2>2 DEF HandlerCredit, Delivery
      <3>2. deliveries' \subseteq Delivery
        BY <2>2, AdvanceType DEF HandlerCredit
      <3> QED BY <2>2, <3>1, <3>2 DEF HandlerCredit, world, startup
    <2>3. CASE HandlerRecord(d)
      <3>1. d.rec \in Records /\ [rows EXCEPT ![d.rec].status = "FILLED"] \in [Records -> Row]
        BY <2>0, RowStatus DEF Delivery
      <3>2. rows' \in [Records -> Row]
        BY <2>3, <3>1, <2>0 DEF HandlerRecord, Delivery
      <3>3. recorded' \subseteq Txids
        BY <2>3, <2>0, TxOfAssumption DEF HandlerRecord, Delivery
      <3>4. deliveries' \subseteq Delivery
        BY <2>3, AdvanceType DEF HandlerRecord
      <3> QED BY <2>3, <3>2, <3>3, <3>4 DEF HandlerRecord, world, startup
    <2>4. CASE HandlerMarkPaid(d)
      <3>1. d.rec \in Records /\ [rows EXCEPT ![d.rec].status = "FILLED"] \in [Records -> Row]
        BY <2>0, RowStatus DEF Delivery
      <3>2. credits' \in [Notes -> [Records -> Nat]] /\ rows' \in [Records -> Row]
        BY <2>4, <3>1, <2>0 DEF HandlerMarkPaid, Delivery
      <3>3. deliveries' \subseteq Delivery
        BY <2>4, AdvanceType DEF HandlerMarkPaid
      <3> QED BY <2>4, <3>2, <3>3 DEF HandlerMarkPaid, world, startup
    <2>5. CASE HandlerThrows(d)
      <3>1. d.rec \in Records /\ [rows EXCEPT ![d.rec].status = "FAILED"] \in [Records -> Row]
        BY <2>0, RowStatus DEF Delivery
      <3>2. rows' \in [Records -> Row]
        BY <2>5, <3>1, <2>0 DEF HandlerThrows, Delivery
      <3>3. deliveries' \subseteq Delivery
        BY <2>5, AdvanceType DEF HandlerThrows
      <3> QED BY <2>5, <3>2, <3>3 DEF HandlerThrows, world, startup
    <2> QED BY <1>5, <2>1, <2>2, <2>3, <2>4, <2>5 DEF Settle
  <1>6. CASE Boot
    <2>1. CASE BootResume
      <3>1. ASSUME NEW r \in Records PROVE Resumed(r) \in Watcher \cup {NoWatch}
        BY <3>1 DEF Resumed, Due, Row, Watcher
      <3> QED BY <2>1, <3>1 DEF BootResume, persistent, world
    <2>2. CASE BootResumeFails
      BY <2>2 DEF BootResumeFails, persistent, memory, world
    <2>3. CASE BootSeed
      BY <2>3 DEF BootSeed, persistent, world
    <2>4. CASE BootSeedFails
      BY <2>4 DEF BootSeedFails, persistent, memory, world
    <2> QED BY <1>6, <2>1, <2>2, <2>3, <2>4 DEF Boot
  <1>7. CASE Restart
    BY <1>7, <1>3, BoundsAssumption DEF Restart, persistent
  <1>8. CASE UNCHANGED vars
    BY <1>8 DEF vars, persistent, memory, world, startup
  <1> QED BY <1>1, <1>2, <1>4, <1>5, <1>6, <1>7, <1>8 DEF Next

(***************************************************************************)
(* Every variable keeps to its type.                                       *)
(***************************************************************************)
THEOREM TypeCorrect == Spec => []TypeOK
  BY InitType, StepType, PTL DEF Spec

-----------------------------------------------------------------------------
(***************************************************************************)
(* The inductive invariant, one lemma per part.  A note is handed over     *)
(* only while its transaction is unused, and that step uses it up; what    *)
(* settles is recorded out of what was handed over.                        *)
(***************************************************************************)
LEMMA InitInv == Init => IInv
  <1> SUFFICES ASSUME Init PROVE IInv
    OBVIOUS
  <1>1. TypeOK
    BY InitType
  <1> QED BY <1>1 DEF Init, IInv, NoteDeliveredOnce, SeededNotesExcluded,
            DeliveredConsumed, NotesAddressed, BlankRows, PollSeesChain, NoRow, IdlePoll

\* Every step leaves the callbacks alone, advances one, drops them all in a
\* crash, or is the answer to a poll.
LEMMA DeliveriesStep ==
  ASSUME TypeOK, [Next]_vars
  PROVE  \/ deliveries' = deliveries /\ consumed \subseteq consumed'
         \/ /\ consumed' = consumed
            /\ \E d \in deliveries, step \in {"checked", "credited", "recorded", "over"} :
                 Advance(d, step)
         \/ deliveries' = {} /\ Restart
         \/ \E list \in SUBSET Notes : PollReply(list)
  <1>1. CASE Request
    BY <1>1 DEF Request, CreateRecord, AddressReady, AddressFails, SetOrderAddress, memory
  <1>2. CASE Chain
    BY <1>2 DEF Chain, Pay, Arrive, SpendNote, Tick, memory
  <1>3. CASE Poll
    BY <1>3 DEF Poll, PollAnswered, PollBegin, PollFails
  <1>4. ASSUME NEW d \in deliveries, Settle(d)
        PROVE  /\ consumed' = consumed
               /\ \E step \in {"checked", "credited", "recorded", "over"} : Advance(d, step)
    BY <1>4 DEF Settle, HandlerCheck, HandlerCredit, HandlerRecord, HandlerMarkPaid,
                HandlerThrows
  <1>5. CASE Boot
    BY <1>5 DEF Boot, BootResume, BootResumeFails, BootSeed, BootSeedFails, memory
  <1>6. CASE Restart
    BY <1>6 DEF Restart
  <1>7. CASE UNCHANGED vars
    BY <1>7 DEF vars, memory
  <1> QED BY <1>1, <1>2, <1>3, <1>4, <1>5, <1>6, <1>7 DEF Next

LEMMA PollReplyPasses ==
  ASSUME NEW list \in SUBSET Notes, PollReply(list)
  PROVE  \E m0 \in Passes(ByDiversifier(Available(list))) :
         \E m1 \in Passes(ByMemo(Available(list) \ Given(m0))) :
         \E m2 \in Passes(ByAmount(Available(list) \ (Given(m0) \cup Given(m1)))) :
           Attribute(m0, m1, m2)
  BY DEF PollReply

LEMMA DeliveredConsumedStep ==
  ASSUME TypeOK, DeliveredConsumed, [Next]_vars
  PROVE  DeliveredConsumed'
  <1> USE DEF DeliveredConsumed
  <1>1. CASE deliveries' = deliveries /\ consumed \subseteq consumed'
    BY <1>1
  <1>2. ASSUME consumed' = consumed, NEW d \in deliveries,
               NEW step \in {"checked", "credited", "recorded", "over"}, Advance(d, step)
        PROVE  DeliveredConsumed'
    <2>1. [d EXCEPT !.step = step].note = d.note
      BY DEF TypeOK, Delivery
    <2> QED BY <1>2, <2>1 DEF Advance
  <1>3. CASE deliveries' = {}
    BY <1>3
  <1>4. ASSUME NEW list \in SUBSET Notes, PollReply(list) PROVE DeliveredConsumed'
    <2>1. PICK m0 \in Passes(ByDiversifier(Available(list))) :
          \E m1 \in Passes(ByMemo(Available(list) \ Given(m0))) :
          \E m2 \in Passes(ByAmount(Available(list) \ (Given(m0) \cup Given(m1)))) :
            Attribute(m0, m1, m2)
      BY <1>4, PollReplyPasses
    <2>2. PICK m1 \in Passes(ByMemo(Available(list) \ Given(m0))) :
          \E m2 \in Passes(ByAmount(Available(list) \ (Given(m0) \cup Given(m1)))) :
            Attribute(m0, m1, m2)
      BY <2>1
    <2>3. PICK m2 \in Passes(ByAmount(Available(list) \ (Given(m0) \cup Given(m1)))) :
            Attribute(m0, m1, m2)
      BY <2>2
    <2>4. \A d \in deliveries' : d \notin deliveries => TxOf[d.note] \in consumed'
      BY <2>3, NewCallback
    <2>5. consumed \subseteq consumed'
      BY <2>3 DEF Attribute
    <2> QED BY <2>4, <2>5
  <1> QED BY <1>1, <1>2, <1>3, <1>4, DeliveriesStep

LEMMA NoteDeliveredOnceStep ==
  ASSUME TypeOK, DeliveredConsumed, NoteDeliveredOnce, [Next]_vars
  PROVE  NoteDeliveredOnce'
  <1> USE DEF NoteDeliveredOnce
  <1>1. CASE deliveries' = deliveries
    BY <1>1
  <1>2. ASSUME NEW d \in deliveries,
               NEW step \in {"checked", "credited", "recorded", "over"}, Advance(d, step)
        PROVE  NoteDeliveredOnce'
    <2>1. [d EXCEPT !.step = step].note = d.note
      BY DEF TypeOK, Delivery
    <2> QED BY <1>2, <2>1 DEF Advance
  <1>3. CASE deliveries' = {}
    BY <1>3
  <1>4. ASSUME NEW list \in SUBSET Notes, PollReply(list) PROVE NoteDeliveredOnce'
    <2>1. PICK m0 \in Passes(ByDiversifier(Available(list))) :
          \E m1 \in Passes(ByMemo(Available(list) \ Given(m0))) :
          \E m2 \in Passes(ByAmount(Available(list) \ (Given(m0) \cup Given(m1)))) :
            Attribute(m0, m1, m2)
      BY <1>4, PollReplyPasses
    <2>2. PICK m1 \in Passes(ByMemo(Available(list) \ Given(m0))) :
          \E m2 \in Passes(ByAmount(Available(list) \ (Given(m0) \cup Given(m1)))) :
            Attribute(m0, m1, m2)
      BY <2>1
    <2>3. PICK m2 \in Passes(ByAmount(Available(list) \ (Given(m0) \cup Given(m1)))) :
            Attribute(m0, m1, m2)
      BY <2>2
    <2>4. ASSUME NEW d \in deliveries', d \notin deliveries,
                 NEW e \in deliveries', e \in deliveries
          PROVE  d.note # e.note
      <3>1. TxOf[d.note] \notin consumed
        BY <2>3, <2>4, NewCallback
      <3>2. TxOf[e.note] \in consumed
        BY <2>4 DEF DeliveredConsumed
      <3> QED BY <3>1, <3>2
    <2>5. ASSUME NEW d \in deliveries', d \notin deliveries,
                 NEW e \in deliveries', e \notin deliveries, d.note = e.note
          PROVE  d = e
      BY <2>3, <2>5, NewCallbacksDiffer
    <2> QED BY <2>4, <2>5
  <1> QED BY <1>1, <1>2, <1>3, <1>4, DeliveriesStep

LEMMA SeededStep ==
  ASSUME TypeOK, DeliveredConsumed, SeededNotesExcluded, [Next]_vars
  PROVE  SeededNotesExcluded'
  <1> USE DEF SeededNotesExcluded
  <1>1. CASE Request
    BY <1>1 DEF Request, CreateRecord, AddressReady, AddressFails, SetOrderAddress,
                memory, persistent, startup
  <1>2. CASE Chain
    BY <1>2 DEF Chain, Pay, Arrive, SpendNote, Tick, memory, persistent, startup
  <1>3. CASE Poll
    BY <1>3 DEF Poll, PollAnswered, PollBegin, PollFails, PollReply, Attribute,
                persistent, startup
  <1>4. ASSUME NEW d \in deliveries, Settle(d) PROVE SeededNotesExcluded'
    <2>1. TxOf[d.note] \in consumed
      BY DEF DeliveredConsumed
    <2> QED BY <1>4, <2>1 DEF Settle, HandlerCheck, HandlerCredit, HandlerRecord,
              HandlerMarkPaid, HandlerThrows, persistent, startup
  <1>5. CASE Boot
    BY <1>5 DEF Boot, BootResume, BootResumeFails, BootSeed, BootSeedFails, memory,
                persistent
  <1>6. CASE Restart
    BY <1>6 DEF Restart
  <1>7. CASE UNCHANGED vars
    BY <1>7 DEF vars, memory, persistent, startup
  <1> QED BY <1>1, <1>2, <1>3, <1>4, <1>5, <1>6, <1>7 DEF Next

\* A step that rewrites rows never takes an address back, and leaves the
\* amount and the chain's view of it alone.
LEMMA RowsKeepAddresses ==
  ASSUME TypeOK, BlankRows, [Next]_vars, NEW r \in Records, rows[r].addr # NoAddr
  PROVE  rows'[r].addr = rows[r].addr
  <1> USE DEF TypeOK, Row
  <1>1. CASE Request
    <2>1. ASSUME NEW q \in Records, NEW a \in Amounts, CreateRecord(q, a)
          PROVE  rows'[r].addr = rows[r].addr
      BY <2>1 DEF CreateRecord, BlankRows
    <2>2. ASSUME NEW q \in Records, SetOrderAddress(q) PROVE rows'[r].addr = rows[r].addr
      BY <2>2 DEF SetOrderAddress
    <2>3. ASSUME NEW q \in Records, AddressFails(q) PROVE rows'[r].addr = rows[r].addr
      BY <2>3 DEF AddressFails
    <2> QED BY <1>1, <2>1, <2>2, <2>3 DEF Request, AddressReady, persistent
  <1>2. CASE Chain
    BY <1>2 DEF Chain, Pay, Arrive, SpendNote, Tick, persistent
  <1>3. CASE Poll
    BY <1>3 DEF Poll, PollAnswered, PollBegin, PollFails, PollReply, persistent
  <1>4. ASSUME NEW d \in deliveries, Settle(d) PROVE rows'[r].addr = rows[r].addr
    <2>1. d.rec \in Records
      BY DEF Delivery
    <2> QED BY <1>4, <2>1 DEF Settle, HandlerCheck, HandlerCredit, HandlerRecord,
              HandlerMarkPaid, HandlerThrows, persistent
  <1>5. CASE Boot
    BY <1>5 DEF Boot, BootResume, BootResumeFails, BootSeed, BootSeedFails, persistent
  <1>6. CASE Restart
    BY <1>6 DEF Restart, persistent
  <1>7. CASE UNCHANGED vars
    BY <1>7 DEF vars, persistent
  <1> QED BY <1>1, <1>2, <1>3, <1>4, <1>5, <1>6, <1>7 DEF Next

\* The chain grows by one payment to an address shown, or stays as it is.
LEMMA ChainStep ==
  ASSUME TypeOK, [Next]_vars
  PROVE  \/ chain' = chain
         \/ \E n \in Notes, r \in Records, a \in Amounts, style \in Styles :
              Pay(n, r, a, style)
  <1>1. CASE Request
    BY <1>1 DEF Request, CreateRecord, AddressReady, AddressFails, SetOrderAddress, world
  <1>2. CASE Chain
    BY <1>2 DEF Chain, SpendNote, Tick
  <1>3. CASE Poll
    BY <1>3 DEF Poll, PollAnswered, PollBegin, PollFails, PollReply, world
  <1>4. ASSUME NEW d \in deliveries, Settle(d) PROVE chain' = chain
    BY <1>4 DEF Settle, HandlerCheck, HandlerCredit, HandlerRecord, HandlerMarkPaid,
                HandlerThrows, world
  <1>5. CASE Boot
    BY <1>5 DEF Boot, BootResume, BootResumeFails, BootSeed, BootSeedFails, world
  <1>6. CASE Restart
    BY <1>6 DEF Restart
  <1>7. CASE UNCHANGED vars
    BY <1>7 DEF vars, world
  <1> QED BY <1>1, <1>2, <1>3, <1>4, <1>5, <1>6, <1>7 DEF Next

LEMMA NotesAddressedStep ==
  ASSUME TypeOK, BlankRows, NotesAddressed, [Next]_vars
  PROVE  NotesAddressed'
  <1> SUFFICES ASSUME NEW n \in Notes, chain'[n] # NoNote
               PROVE  /\ rows'[chain'[n].payer].addr # NoAddr
                      /\ Patched => chain'[n].div = rows'[chain'[n].payer].addr
                      /\ chain'[n].memo \in {chain'[n].payer, NoRecord}
    BY DEF NotesAddressed
  <1>1. CASE chain' = chain
    <2>1. chain[n].payer \in Records
      BY <1>1 DEF TypeOK, Note
    <2>2. rows[chain[n].payer].addr # NoAddr
      BY <1>1 DEF NotesAddressed
    <2> QED BY <1>1, <2>1, <2>2, RowsKeepAddresses DEF NotesAddressed
  <1>2. ASSUME NEW k \in Notes, NEW r \in Records, NEW a \in Amounts,
               NEW style \in Styles, Pay(k, r, a, style)
        PROVE  /\ rows'[chain'[n].payer].addr # NoAddr
               /\ Patched => chain'[n].div = rows'[chain'[n].payer].addr
               /\ chain'[n].memo \in {chain'[n].payer, NoRecord}
    <2>1. rows' = rows
      BY <1>2 DEF Pay, Arrive, persistent
    <2>2. CASE n = k
      <3>1. /\ chain'[n].payer = r
            /\ chain'[n].div = IF Patched THEN rows[r].addr ELSE NoAddr
            /\ chain'[n].memo = IF style.memo THEN r ELSE NoRecord
            /\ rows[r].addr # NoAddr
        BY <1>2, <2>2 DEF Pay, Arrive, TypeOK
      <3> QED BY <2>1, <3>1
    <2>3. CASE n # k
      <3>1. chain'[n] = chain[n]
        BY <1>2, <2>3 DEF Pay, Arrive, TypeOK
      <3> QED BY <2>1, <3>1 DEF NotesAddressed
    <2> QED BY <2>2, <2>3
  <1> QED BY <1>1, <1>2, ChainStep

\* Only a watched record takes a note, so an answer watches nothing new.
LEMMA AttributeWatches ==
  ASSUME NEW list \in SUBSET Notes, PollReply(list), NEW r \in Records,
         watchers[r] = NoWatch
  PROVE  watchers'[r] = NoWatch
  <1>1. PICK m0 \in Passes(ByDiversifier(Available(list))) :
        \E m1 \in Passes(ByMemo(Available(list) \ Given(m0))) :
        \E m2 \in Passes(ByAmount(Available(list) \ (Given(m0) \cup Given(m1)))) :
          Attribute(m0, m1, m2)
    BY PollReplyPasses
  <1>2. PICK m1 \in Passes(ByMemo(Available(list) \ Given(m0))) :
        \E m2 \in Passes(ByAmount(Available(list) \ (Given(m0) \cup Given(m1)))) :
          Attribute(m0, m1, m2)
    BY <1>1
  <1>3. PICK m2 \in Passes(ByAmount(Available(list) \ (Given(m0) \cup Given(m1)))) :
          Attribute(m0, m1, m2)
    BY <1>2
  <1>4. r \notin Watched
    BY DEF Watched
  <1>5. r \notin DOMAIN m0
    BY <1>4, PassFacts DEF ByDiversifier
  <1>6. r \notin DOMAIN m1
    BY <1>4, PassFacts DEF ByMemo
  <1>7. r \notin DOMAIN m2
    BY <1>4, PassFacts DEF ByAmount
  <1> QED BY <1>3, <1>5, <1>6, <1>7 DEF Attribute

LEMMA BlankRowsStep ==
  ASSUME TypeOK, BlankRows, [Next]_vars
  PROVE  BlankRows'
  <1> SUFFICES ASSUME NEW r \in Records, rows'[r].status = "NONE"
               PROVE  rows'[r].addr = NoAddr /\ watchers'[r] = NoWatch
    BY DEF BlankRows
  <1> USE DEF TypeOK, Row
  <1>1. CASE Request
    <2>1. ASSUME NEW q \in Records, NEW a \in Amounts, CreateRecord(q, a)
          PROVE  rows'[r].addr = NoAddr /\ watchers'[r] = NoWatch
      BY <2>1 DEF CreateRecord, BlankRows
    <2>2. ASSUME NEW q \in Records, NEW a \in Addresses, AddressReady(q, a)
          PROVE  rows'[r].addr = NoAddr /\ watchers'[r] = NoWatch
      BY <2>2 DEF AddressReady, BlankRows, persistent
    <2>3. ASSUME NEW q \in Records, AddressFails(q)
          PROVE  rows'[r].addr = NoAddr /\ watchers'[r] = NoWatch
      BY <2>3 DEF AddressFails, BlankRows
    <2>4. ASSUME NEW q \in Records, SetOrderAddress(q)
          PROVE  rows'[r].addr = NoAddr /\ watchers'[r] = NoWatch
      BY <2>4 DEF SetOrderAddress, BlankRows, memory
    <2> QED BY <1>1, <2>1, <2>2, <2>3, <2>4 DEF Request
  <1>2. CASE Chain
    BY <1>2 DEF Chain, Pay, Arrive, SpendNote, Tick, persistent, memory, BlankRows
  <1>3. CASE Poll
    <2>1. CASE PollBegin
      BY <2>1 DEF PollBegin, persistent, BlankRows
    <2>2. CASE PollFails
      BY <2>2 DEF PollFails, persistent, BlankRows
    <2>3. ASSUME NEW list \in SUBSET Notes, PollReply(list)
          PROVE  rows'[r].addr = NoAddr /\ watchers'[r] = NoWatch
      <3>1. rows' = rows
        BY <2>3 DEF PollReply, persistent
      <3> QED BY <2>3, <3>1, AttributeWatches DEF BlankRows
    <2> QED BY <1>3, <2>1, <2>2, <2>3 DEF Poll, PollAnswered
  <1>4. ASSUME NEW d \in deliveries, Settle(d)
        PROVE  rows'[r].addr = NoAddr /\ watchers'[r] = NoWatch
    <2>1. d.rec \in Records
      BY DEF Delivery
    <2>2. watchers' = watchers
      BY <1>4 DEF Settle, HandlerCheck, HandlerCredit, HandlerRecord, HandlerMarkPaid,
                  HandlerThrows
    <2>3. rows'[r] = rows[r]
      BY <1>4, <2>1 DEF Settle, HandlerCheck, HandlerCredit, HandlerRecord,
                        HandlerMarkPaid, HandlerThrows, persistent
    <2> QED BY <2>2, <2>3 DEF BlankRows
  <1>5. CASE Boot
    BY <1>5 DEF Boot, BootResume, Resumed, Due, BootResumeFails, BootSeed, BootSeedFails,
                persistent, memory, BlankRows
  <1>6. CASE Restart
    BY <1>6 DEF Restart, persistent, BlankRows
  <1>7. CASE UNCHANGED vars
    BY <1>7 DEF vars, persistent, memory, BlankRows
  <1> QED BY <1>1, <1>2, <1>3, <1>4, <1>5, <1>6, <1>7 DEF Next

LEMMA PollSeesChainStep ==
  ASSUME TypeOK, PollSeesChain, [Next]_vars
  PROVE  PollSeesChain'
  <1>1. \A n \in Notes : chain[n] # NoNote => chain'[n] # NoNote
    <2>1. CASE chain' = chain
      BY <2>1
    <2>2. ASSUME NEW k \in Notes, NEW r \in Records, NEW a \in Amounts,
                 NEW style \in Styles, Pay(k, r, a, style)
          PROVE  \A n \in Notes : chain[n] # NoNote => chain'[n] # NoNote
      BY <2>2 DEF Pay, Arrive, TypeOK
    <2> QED BY <2>1, <2>2, ChainStep
  <1>2. poll'.seen \subseteq poll.seen \cup Listed
    <2>1. CASE Request
      BY <2>1 DEF Request, CreateRecord, AddressReady, AddressFails, SetOrderAddress, memory
    <2>2. CASE Chain
      BY <2>2 DEF Chain, Pay, Arrive, SpendNote, Tick, memory
    <2>3. CASE Poll
      BY <2>3 DEF Poll, PollAnswered, PollBegin, PollFails, PollReply, IdlePoll
    <2>4. ASSUME NEW d \in deliveries, Settle(d) PROVE poll' = poll
      BY <2>4 DEF Settle, HandlerCheck, HandlerCredit, HandlerRecord, HandlerMarkPaid,
                  HandlerThrows
    <2>5. CASE Boot
      BY <2>5 DEF Boot, BootResume, BootResumeFails, BootSeed, BootSeedFails, memory
    <2>6. CASE Restart
      BY <2>6 DEF Restart, IdlePoll
    <2>7. CASE UNCHANGED vars
      BY <2>7 DEF vars, memory
    <2> QED BY <2>1, <2>2, <2>3, <2>4, <2>5, <2>6, <2>7 DEF Next
  <1> QED BY <1>1, <1>2 DEF PollSeesChain, Listed, TypeOK

LEMMA StepInv == IInv /\ [Next]_vars => IInv'
  BY StepType, DeliveredConsumedStep, NoteDeliveredOnceStep, SeededStep,
     NotesAddressedStep, BlankRowsStep, PollSeesChainStep DEF IInv

THEOREM InductiveInvariant == Spec => []IInv
  BY InitInv, StepInv, PTL DEF Spec

-----------------------------------------------------------------------------
(***************************************************************************)
(* A note is handed to one record in the life of a process.                *)
(***************************************************************************)
THEOREM DeliveredOnce == Spec => []NoteDeliveredOnce
  <1>1. IInv => NoteDeliveredOnce
    BY DEF IInv
  <1> QED BY <1>1, InductiveInvariant, PTL

(***************************************************************************)
(* After a boot that seeded consumedTxids, what the database knows as paid *)
(* stays excluded.                                                         *)
(***************************************************************************)
THEOREM RecordedExcluded == Spec => []SeededNotesExcluded
  <1>1. IInv => SeededNotesExcluded
    BY DEF IInv
  <1> QED BY <1>1, InductiveInvariant, PTL

(***************************************************************************)
(* No pass gives an exact payment to somebody else's record: the address   *)
(* is its own, the memo names the payer, and the amount pass refuses the   *)
(* ambiguity.                                                              *)
(***************************************************************************)
LEMMA NotCrossedStep ==
  ASSUME IInv, [Next]_vars, NEW d \in NewDeliveries,
         chain[d.note].payer \in Watched,
         Patched => OwnAddress(chain[d.note].payer),
         chain[d.note].amount = watchers[chain[d.note].payer].amount
  PROVE  d.rec = chain[d.note].payer
  <1> DEFINE p == chain[d.note].payer
  <1>1. d \in deliveries' /\ d \notin deliveries /\ d.step = "fired"
    BY DEF NewDeliveries
  <1>2. PICK list \in SUBSET Notes : PollReply(list)
    <2>1. ASSUME NEW e \in deliveries, NEW step \in {"checked", "credited", "recorded", "over"},
                 Advance(e, step)
          PROVE  FALSE
      <3>1. [e EXCEPT !.step = step].step = step
        BY DEF IInv, TypeOK, Delivery
      <3> QED BY <1>1, <2>1, <3>1 DEF Advance
    <2> QED BY <1>1, <2>1, DeliveriesStep DEF IInv
  <1>3. PICK m0 \in Passes(ByDiversifier(Available(list))) :
        \E m1 \in Passes(ByMemo(Available(list) \ Given(m0))) :
        \E m2 \in Passes(ByAmount(Available(list) \ (Given(m0) \cup Given(m1)))) :
          Attribute(m0, m1, m2)
    BY <1>2, PollReplyPasses
  <1>4. PICK m1 \in Passes(ByMemo(Available(list) \ Given(m0))) :
        \E m2 \in Passes(ByAmount(Available(list) \ (Given(m0) \cup Given(m1)))) :
          Attribute(m0, m1, m2)
    BY <1>3
  <1>5. PICK m2 \in Passes(ByAmount(Available(list) \ (Given(m0) \cup Given(m1)))) :
          Attribute(m0, m1, m2)
    BY <1>4
  <1>6. /\ d \in Delivery /\ d.note \in list
        /\ \/ d.note \in ByDiversifier(list)[d.rec]
           \/ d.note \in ByMemo(list)[d.rec]
           \/ d.note \in ByAmount(list)[d.rec]
    BY <1>1, <1>5, NewCallback
  <1>7. d.rec \in Records /\ d.note \in Notes
    BY <1>6 DEF Delivery
  <1>8. chain[d.note] # NoNote
    BY <1>2, <1>6, <1>7 DEF PollReply, Listed, IInv, PollSeesChain
  <1>9. /\ Patched => chain[d.note].div = rows[p].addr
        /\ chain[d.note].memo \in {p, NoRecord}
    BY <1>7, <1>8 DEF IInv, NotesAddressed
  <1>10. CASE d.note \in ByDiversifier(list)[d.rec]
    <2>1. d.rec \in Watched /\ Patched /\ watchers[d.rec].addr = rows[p].addr
      BY <1>7, <1>9, <1>10 DEF ByDiversifier
    <2> QED BY <1>7, <2>1 DEF OwnAddress, Watched
  <1>11. CASE d.note \in ByMemo(list)[d.rec]
    BY <1>7, <1>9, <1>11, RecordsAssumption DEF ByMemo
  <1>12. CASE d.note \in ByAmount(list)[d.rec]
    <2>1. Unambiguous(d.rec) /\ chain[d.note].amount = watchers[d.rec].amount
      BY <1>7, <1>12 DEF ByAmount
    <2> QED BY <2>1 DEF Unambiguous
  <1> QED BY <1>6, <1>10, <1>11, <1>12

THEOREM PaymentNotCrossed == Spec => ExactPaymentNotCrossed
  <1>1. IInv /\ [Next]_vars =>
          [\A d \in NewDeliveries :
             LET p == chain[d.note].payer IN
               /\ p \in Watched /\ (Patched => OwnAddress(p))
               /\ chain[d.note].amount = watchers[p].amount
               => d.rec = p]_vars
    BY NotCrossedStep
  <1> QED BY <1>1, InductiveInvariant, PTL DEF Spec, ExactPaymentNotCrossed

-----------------------------------------------------------------------------
(***************************************************************************)
(* The life of a record's watch.  What makes HardLifetime,                 *)
(* NotAbandonedEarly and OneOriginalPayment inductive: a watcher keeps the *)
(* creation time of its row and counts its soft window from the creation   *)
(* or the boot; a poll begins with watchers short of the hard cap; and the *)
(* watchers that have matched are those whose record was handed a payment, *)
(* also when the record was created, and paid, before boot resumes.        *)
(***************************************************************************)
WatchersTrue == \A r \in Watched :
  /\ watchers[r].original = rows[r].created
  /\ watchers[r].addr = NoAddr => rows[r].addr = NoAddr
  /\ watchers[r].created >= rows[r].created /\ watchers[r].created >= resumedAt
  /\ boot = "resume" => watchers[r].created = now

ClockAhead ==
  /\ poll.begun <= now /\ resumedAt <= now
  /\ \A r \in Records : rows[r].created <= now

PollYoung == poll.phase = "waiting" =>
  \A r \in Watched : watchers[r].matched = Never =>
    poll.begun - watchers[r].original <= HardMax

MatchedHanded == \A r \in Watched : watchers[r].matched # Never =>
  \E d \in deliveries : d.rec = r

HandedMatched == \A d \in deliveries :
  /\ rows[d.rec].status # "NONE"
  /\ d.rec \in Watched => watchers[d.rec].matched # Never
  /\ boot = "resume" => IF d.rec \in Watched THEN watchers[d.rec].matched = now
                        ELSE rows[d.rec].addr = NoAddr

WatchInv ==
  /\ TypeOK /\ BlankRows
  /\ WatchersTrue /\ ClockAhead /\ PollYoung
  /\ MatchedHanded /\ HandedMatched
  /\ OneOriginalPayment /\ NotAbandonedEarly

LEMMA InitWatch == Init => WatchInv
  <1> SUFFICES ASSUME Init PROVE WatchInv
    OBVIOUS
  <1>1. TypeOK /\ BlankRows
    BY InitInv DEF IInv
  <1>2. Watched = {} /\ deliveries = {} /\ poll = IdlePoll /\ resumedAt = 1 /\ now = 1
        /\ \A r \in Records : rows[r] = NoRow
    BY DEF Init, Watched
  <1>3. \A r \in Records : rows[r].status = "NONE" /\ rows[r].created = 1
    <2>1. NoRow.status = "NONE" /\ NoRow.created = 1
      BY DEF NoRow
    <2> QED BY <1>2, <2>1
  <1>4. poll.phase = "idle" /\ poll.begun = 1
    BY <1>2 DEF IdlePoll
  <1>5. ClockAhead /\ PollYoung /\ NotAbandonedEarly
    BY <1>2, <1>3, <1>4 DEF ClockAhead, PollYoung, NotAbandonedEarly
  <1>6. WatchersTrue /\ MatchedHanded /\ HandedMatched /\ OneOriginalPayment
    BY <1>2 DEF WatchersTrue, MatchedHanded, HandedMatched, OneOriginalPayment
  <1> QED BY <1>1, <1>5, <1>6 DEF WatchInv

\* Only a watched record takes a note.
LEMMA HitsWatched ==
  ASSUME NEW list \in SUBSET Notes,
         NEW m0 \in Passes(ByDiversifier(Available(list))),
         NEW m1 \in Passes(ByMemo(Available(list) \ Given(m0))),
         NEW m2 \in Passes(ByAmount(Available(list) \ (Given(m0) \cup Given(m1))))
  PROVE  DOMAIN m0 \subseteq Watched /\ DOMAIN m1 \subseteq Watched /\ DOMAIN m2 \subseteq Watched
  <1>1. ASSUME NEW r \in DOMAIN m0 PROVE r \in Watched
    BY <1>1, PassFacts DEF ByDiversifier
  <1>2. ASSUME NEW r \in DOMAIN m1 PROVE r \in Watched
    BY <1>2, PassFacts DEF ByMemo
  <1>3. ASSUME NEW r \in DOMAIN m2 PROVE r \in Watched
    BY <1>3, PassFacts DEF ByAmount
  <1> QED BY <1>1, <1>2, <1>3

\* An answer to the poll: a watcher is left alone or gets its first match, with a
\* callback that is no repeat; a callback that is new and no repeat is its watcher's
\* first, and the only one.
AnswerKeeps(r) ==
  \/ watchers'[r] = watchers[r]
  \/ /\ r \in Watched /\ watchers[r].matched = Never
     /\ watchers'[r] = [watchers[r] EXCEPT !.matched = now]
     /\ \E d \in deliveries' : d.rec = r /\ ~d.repeat
NewOf(d) ==
  /\ d \in Delivery /\ d.step = "fired" /\ d.rec \in Watched
  /\ IF watchers[d.rec].matched = Never
     THEN watchers'[d.rec] = [watchers[d.rec] EXCEPT !.matched = now]
     ELSE d.repeat

LEMMA AnswerFacts ==
  ASSUME NEW list \in SUBSET Notes, PollReply(list)
  PROVE  /\ deliveries \subseteq deliveries'
         /\ \A r \in Records : AnswerKeeps(r)
         /\ \A d \in deliveries' \ deliveries : NewOf(d)
         /\ \A d, e \in deliveries' \ deliveries :
              d.rec = e.rec /\ ~d.repeat /\ ~e.repeat => d = e
  <1>1. PICK m0 \in Passes(ByDiversifier(Available(list))) :
        \E m1 \in Passes(ByMemo(Available(list) \ Given(m0))) :
        \E m2 \in Passes(ByAmount(Available(list) \ (Given(m0) \cup Given(m1)))) :
          Attribute(m0, m1, m2)
    BY PollReplyPasses
  <1>2. PICK m1 \in Passes(ByMemo(Available(list) \ Given(m0))) :
        \E m2 \in Passes(ByAmount(Available(list) \ (Given(m0) \cup Given(m1)))) :
          Attribute(m0, m1, m2)
    BY <1>1
  <1>3. PICK m2 \in Passes(ByAmount(Available(list) \ (Given(m0) \cup Given(m1)))) :
          Attribute(m0, m1, m2)
    BY <1>2
  <1> DEFINE b0 == {r \in Watched : watchers[r].matched # Never}
             b1 == b0 \cup DOMAIN m0
             b2 == b0 \cup DOMAIN m0 \cup DOMAIN m1
             hit == DOMAIN m0 \cup DOMAIN m1 \cup DOMAIN m2
  <1>4. hit \subseteq Watched
    BY HitsWatched
  <1>5. /\ watchers' = [r \in Records |-> IF r \in hit \ b0
                                          THEN [watchers[r] EXCEPT !.matched = now]
                                          ELSE watchers[r]]
        /\ deliveries' = deliveries \cup Callbacks(m0, b0) \cup Callbacks(m1, b1)
                                    \cup Callbacks(m2, b2)
    BY <1>3 DEF Attribute
  <1>6. ASSUME NEW d \in deliveries', d \notin deliveries
        PROVE  \/ d.rec \in DOMAIN m0 /\ d.note = m0[d.rec] /\ d.repeat = (d.rec \in b0)
                  /\ d \in Callbacks(m0, b0)
               \/ d.rec \in DOMAIN m1 /\ d.note = m1[d.rec] /\ d.repeat = (d.rec \in b1)
                  /\ d \in Callbacks(m1, b1)
               \/ d.rec \in DOMAIN m2 /\ d.note = m2[d.rec] /\ d.repeat = (d.rec \in b2)
                  /\ d \in Callbacks(m2, b2)
    BY <1>5, <1>6 DEF Callbacks
  <1>7. ASSUME NEW d \in deliveries', d \notin deliveries PROVE NewOf(d)
    <2>1. d \in Delivery /\ d.step = "fired"
      BY <1>3, <1>7, NewCallback
    <2>2. d.rec \in hit /\ d.rec \in Watched /\ d.rec \in Records
      BY <1>4, <1>6, <1>7 DEF Watched
    <2>3. d.rec \in b0 => d.repeat
      BY <1>6, <1>7
    <2> QED BY <1>5, <2>1, <2>2, <2>3 DEF NewOf
  <1>8. ASSUME NEW r \in Records PROVE AnswerKeeps(r)
    <2>1. CASE r \in hit \ b0
      <3>1. r \in Watched /\ watchers[r].matched = Never
        BY <1>4, <2>1
      <3>2. ASSUME NEW m, NEW b, r \in DOMAIN m, r \notin b
            PROVE  \E d \in Callbacks(m, b) : d.rec = r /\ ~d.repeat
        <4> DEFINE c == [note |-> m[r], rec |-> r, repeat |-> r \in b, step |-> "fired"]
        <4>1. c \in Callbacks(m, b)
          BY <3>2 DEF Callbacks
        <4>2. c.rec = r /\ c.repeat = (r \in b)
          OBVIOUS
        <4> HIDE DEF c
        <4> QED BY <3>2, <4>1, <4>2
      <3>3. \E d \in deliveries' : d.rec = r /\ ~d.repeat
        <4>1. \/ r \in DOMAIN m0 /\ r \notin b0
              \/ r \in DOMAIN m1 /\ r \notin b1
              \/ r \in DOMAIN m2 /\ r \notin b2
          BY <2>1
        <4> HIDE DEF b0, b1, b2
        <4> QED BY <1>5, <3>2, <4>1
      <3> QED BY <1>5, <2>1, <3>1, <3>3 DEF AnswerKeeps
    <2>2. CASE r \notin hit \ b0
      BY <1>5, <2>2 DEF AnswerKeeps
    <2> QED BY <2>1, <2>2
  <1>9. ASSUME NEW d \in deliveries', d \notin deliveries,
               NEW e \in deliveries', e \notin deliveries,
               d.rec = e.rec, ~d.repeat, ~e.repeat
        PROVE  d = e
    <2>1. \/ d \in Callbacks(m0, b0) /\ e \in Callbacks(m0, b0) /\ d.note = e.note
          \/ d \in Callbacks(m1, b1) /\ e \in Callbacks(m1, b1) /\ d.note = e.note
          \/ d \in Callbacks(m2, b2) /\ e \in Callbacks(m2, b2) /\ d.note = e.note
      BY <1>6, <1>9
    <2> HIDE DEF b0, b1, b2
    <2> QED BY <2>1, CallbackOfNote
  <1> QED BY <1>5, <1>7, <1>8, <1>9

\* Steps that leave rows, watchers and callbacks alone.
LEMMA QuietStep ==
  ASSUME WatchInv, TypeOK', BlankRows', UNCHANGED <<rows, watchers, deliveries>>,
         now <= now', boot' = "resume" => boot = "resume" /\ now' = now,
         resumedAt' \in {resumedAt, Never}, poll' \in {poll, IdlePoll}
  PROVE  WatchInv'
  <1> USE DEF WatchInv, Watched
  <1>0. now \in Int /\ now' \in Int /\ now >= 1
    BY DEF TypeOK
  <1>1. WatchersTrue'
    <2> SUFFICES ASSUME NEW r \in Watched
                 PROVE  /\ watchers[r].created >= resumedAt'
                        /\ boot' = "resume" => watchers[r].created = now'
      BY DEF WatchersTrue
    <2>1. watchers[r].created \in Time /\ resumedAt \in Time \cup {Never}
      BY DEF TypeOK, Watcher
    <2> QED BY <2>1 DEF WatchersTrue
  <1>2. ClockAhead'
    <2>1. /\ poll.begun \in Time /\ resumedAt \in Time \cup {Never}
          /\ \A r \in Records : rows[r].created \in Time
      BY DEF TypeOK, Row
    <2>2. poll'.begun \in {poll.begun, 1}
      BY DEF IdlePoll
    <2> QED BY <1>0, <2>1, <2>2 DEF ClockAhead
  <1>3. PollYoung'
    BY DEF PollYoung, IdlePoll
  <1>4. MatchedHanded' /\ OneOriginalPayment'
    BY DEF MatchedHanded, OneOriginalPayment
  <1>5. HandedMatched'
    BY DEF HandedMatched
  <1>6. NotAbandonedEarly'
    <2> SUFFICES ASSUME NEW r \in Records,
                        rows[r].status = "PENDING", rows[r].addr # NoAddr, resumedAt' # Never,
                        now' - Later(resumedAt', rows[r].created) <= OrderExpiry,
                        now' - rows[r].created <= HardMax
                 PROVE  r \in Watched \/ \E d \in deliveries : d.rec = r
      BY DEF NotAbandonedEarly
    <2>1. rows[r].created \in Time /\ resumedAt' = resumedAt /\ resumedAt \in Time
      BY DEF TypeOK, Row
    <2>2. Later(resumedAt, rows[r].created) \in Time
      BY <2>1 DEF Later
    <2>3. OrderExpiry \in Nat /\ HardMax \in Nat
      BY DurationsAssumption
    <2>4. /\ now - Later(resumedAt, rows[r].created) <= OrderExpiry
          /\ now - rows[r].created <= HardMax
      BY <1>0, <2>1, <2>2, <2>3
    <2> QED BY <2>1, <2>4 DEF NotAbandonedEarly
  <1> QED BY <1>1, <1>2, <1>3, <1>4, <1>5, <1>6

\* A settlement advances: callbacks keep their records, rows their times and
\* addresses, and no row is pending again.
LEMMA SettleKeepsWatch ==
  ASSUME WatchInv, TypeOK', BlankRows', NEW d \in deliveries, Settle(d)
  PROVE  WatchInv'
  <1> USE DEF WatchInv, Watched
  <1>0. d \in Delivery /\ d.rec \in Records /\ rows[d.rec].status # "NONE"
    BY DEF TypeOK, Delivery, HandedMatched
  <1>1. UNCHANGED <<watchers, poll, now, boot, resumedAt>>
    BY DEF Settle, HandlerCheck, HandlerCredit, HandlerRecord, HandlerMarkPaid, HandlerThrows,
           world, startup
  <1>2. PICK step \in {"checked", "credited", "recorded", "over"} : Advance(d, step)
    BY DEF Settle, HandlerCheck, HandlerCredit, HandlerRecord, HandlerMarkPaid, HandlerThrows
  <1>3. PICK st \in {"FILLED", "FAILED"} : rows' \in {rows, [rows EXCEPT ![d.rec].status = st]}
    BY DEF Settle, HandlerCheck, HandlerCredit, HandlerRecord, HandlerMarkPaid, HandlerThrows,
           persistent
  <1>4. \A r \in Records : /\ rows'[r].created = rows[r].created /\ rows'[r].addr = rows[r].addr
                           /\ rows'[r].status \in {rows[r].status, "FILLED", "FAILED"}
    BY <1>0, <1>3 DEF TypeOK, Row
  <1> DEFINE d1 == [d EXCEPT !.step = step]
  <1>5. d1.rec = d.rec /\ d1.repeat = d.repeat /\ deliveries' = (deliveries \ {d}) \cup {d1}
    BY <1>0, <1>2 DEF Delivery, Advance
  <1> HIDE DEF d1
  <1>6. \A e \in deliveries' : \E f \in deliveries : f.rec = e.rec
    BY <1>5
  <1>7. \A e \in deliveries : \E f \in deliveries' : f.rec = e.rec
    BY <1>5
  <1>8. \A e \in deliveries : e.rec \in Records
    BY DEF TypeOK, Delivery
  <1>9. WatchersTrue' /\ ClockAhead' /\ PollYoung'
    BY <1>1, <1>4 DEF WatchersTrue, ClockAhead, PollYoung
  <1>10. MatchedHanded'
    BY <1>1, <1>7 DEF MatchedHanded
  <1>11. HandedMatched'
    BY <1>1, <1>4, <1>6, <1>8 DEF HandedMatched
  <1>12. OneOriginalPayment'
    BY <1>5 DEF OneOriginalPayment
  <1>13. NotAbandonedEarly'
    BY <1>1, <1>4, <1>7 DEF NotAbandonedEarly
  <1> QED BY <1>9, <1>10, <1>11, <1>12, <1>13

\* A poll begins: what is left watched is short of both expiries.
LEMMA BeginKeepsWatch ==
  ASSUME WatchInv, TypeOK', BlankRows', PollBegin
  PROVE  WatchInv'
  <1> USE DEF WatchInv, Watched
  <1>0. /\ UNCHANGED <<rows, deliveries, now, boot, resumedAt>>
        /\ poll' = poll \/ poll'.begun = now
        /\ poll.phase = "idle"
    BY DEF PollBegin, persistent, world, startup
  <1>1. \A r \in Records :
          \/ watchers'[r] = watchers[r] /\ (r \in Watched => ~Expired(watchers[r]))
          \/ watchers'[r] = NoWatch /\ r \in Watched /\ Expired(watchers[r])
    BY DEF PollBegin
  <1>2. \A r \in Watched : /\ watchers[r].created \in Time /\ watchers[r].original \in Time
                           /\ watchers[r].matched \in Time \cup {Never}
    BY DEF TypeOK, Watcher
  <1>3. now \in Time /\ {RepeatWindow, OrderExpiry, HardMax} \subseteq Nat
    BY DurationsAssumption DEF TypeOK
  <1>4. WatchersTrue'
    BY <1>0, <1>1 DEF WatchersTrue
  <1>5. ClockAhead'
    BY <1>0, <1>3 DEF ClockAhead
  <1>6. PollYoung'
    <2> SUFFICES ASSUME NEW r \in Watched, watchers'[r] = watchers[r], ~Expired(watchers[r]),
                        watchers[r].matched = Never, poll'.begun = now
                 PROVE  now - watchers[r].original <= HardMax
      BY <1>0, <1>1 DEF PollYoung
    <2> QED BY <1>2, <1>3 DEF Expired
  <1>7. MatchedHanded' /\ OneOriginalPayment'
    BY <1>0, <1>1 DEF MatchedHanded, OneOriginalPayment
  <1>8. HandedMatched'
    <2> SUFFICES ASSUME NEW d \in deliveries
                 PROVE  /\ rows[d.rec].status # "NONE"
                        /\ watchers'[d.rec] # NoWatch => watchers'[d.rec].matched # Never
                        /\ boot = "resume" => IF watchers'[d.rec] # NoWatch
                                              THEN watchers'[d.rec].matched = now
                                              ELSE rows[d.rec].addr = NoAddr
      BY <1>0 DEF HandedMatched, TypeOK, Delivery
    <2>1. d.rec \in Records
      BY DEF TypeOK, Delivery
    <2>2. boot = "resume" /\ d.rec \in Watched => ~Expired(watchers[d.rec])
      BY <1>2, <1>3, <2>1 DEF HandedMatched, Expired
    <2> QED BY <1>1, <2>1, <2>2 DEF HandedMatched
  <1>9. NotAbandonedEarly'
    <2> SUFFICES ASSUME NEW r \in Records,
                        rows[r].status = "PENDING", rows[r].addr # NoAddr, resumedAt # Never,
                        now - Later(resumedAt, rows[r].created) <= OrderExpiry,
                        now - rows[r].created <= HardMax,
                        ~ \E d \in deliveries : d.rec = r
                 PROVE  watchers'[r] # NoWatch
      BY <1>0 DEF NotAbandonedEarly
    <2>1. r \in Watched /\ watchers[r].matched = Never
      BY DEF NotAbandonedEarly, MatchedHanded
    <2>2. rows[r].created \in Time /\ resumedAt \in Time
      BY DEF TypeOK, Row
    <2>3. /\ watchers[r].created >= Later(resumedAt, rows[r].created)
          /\ watchers[r].original = rows[r].created
      BY <2>1 DEF WatchersTrue, Later
    <2>4. Later(resumedAt, rows[r].created) \in Time
      BY <2>2 DEF Later
    <2>5. ~Expired(watchers[r])
      BY <1>2, <1>3, <2>1, <2>2, <2>3, <2>4 DEF Expired
    <2> QED BY <1>1, <2>1, <2>5
  <1> QED BY <1>4, <1>5, <1>6, <1>7, <1>8, <1>9

\* The answer.
LEMMA AnswerKeepsWatch ==
  ASSUME WatchInv, TypeOK', BlankRows', NEW list \in SUBSET Notes, PollReply(list)
  PROVE  WatchInv'
  <1> USE DEF WatchInv
  <1>0. /\ UNCHANGED <<rows, now, boot, resumedAt>> /\ poll' = IdlePoll
    BY DEF PollReply, persistent, world, startup
  <1>1. /\ deliveries \subseteq deliveries'
        /\ \A r \in Records : AnswerKeeps(r)
        /\ \A d \in deliveries' \ deliveries : NewOf(d)
        /\ \A d, e \in deliveries' \ deliveries :
             d.rec = e.rec /\ ~d.repeat /\ ~e.repeat => d = e
    BY AnswerFacts
  <1>2. \A r \in Watched : watchers[r] \in Watcher
    BY DEF TypeOK, Watched
  <1>3. ASSUME NEW r \in Records
        PROVE  /\ r \in Watched' <=> r \in Watched
               /\ r \in Watched => /\ watchers'[r].original = watchers[r].original
                                   /\ watchers'[r].addr = watchers[r].addr
                                   /\ watchers'[r].created = watchers[r].created
                                   /\ \/ watchers'[r].matched = watchers[r].matched
                                      \/ /\ watchers[r].matched = Never
                                         /\ watchers'[r].matched = now
                                         /\ \E d \in deliveries' : d.rec = r
    <2>1. CASE watchers'[r] = watchers[r]
      BY <2>1 DEF Watched
    <2>2. CASE /\ r \in Watched /\ watchers[r].matched = Never
               /\ watchers'[r] = [watchers[r] EXCEPT !.matched = now]
               /\ \E d \in deliveries' : d.rec = r
      <3>1. watchers[r] \in Watcher /\ now \in Time
        BY <1>2, <2>2 DEF TypeOK
      <3>2. watchers'[r] \in Watcher
        BY <2>2, <3>1 DEF Watcher
      <3>3. watchers'[r] # NoWatch
        BY <3>2, NoWatchAssumption
      <3> QED BY <2>2, <3>1, <3>3 DEF Watched, Watcher
    <2> QED BY <1>1, <2>1, <2>2 DEF AnswerKeeps
  <1>4. Watched' = Watched /\ Watched \subseteq Records
    BY <1>3 DEF Watched
  <1>5. now \in Time /\ Never \notin Time
    BY DEF TypeOK
  <1>6. WatchersTrue'
    BY <1>0, <1>3, <1>4 DEF WatchersTrue
  <1>7. ClockAhead' /\ PollYoung'
    BY <1>0, <1>5 DEF ClockAhead, PollYoung, IdlePoll
  <1>8. MatchedHanded'
    BY <1>1, <1>3, <1>4 DEF MatchedHanded
  <1>9. HandedMatched'
    <2> SUFFICES ASSUME NEW d \in deliveries'
                 PROVE  /\ rows[d.rec].status # "NONE"
                        /\ d.rec \in Watched => watchers'[d.rec].matched # Never
                        /\ boot = "resume" => IF d.rec \in Watched
                                              THEN watchers'[d.rec].matched = now
                                              ELSE rows[d.rec].addr = NoAddr
      BY <1>0, <1>4 DEF HandedMatched
    <2>1. CASE d \in deliveries
      <3>1. d.rec \in Records
        BY <2>1 DEF TypeOK, Delivery
      <3> QED BY <1>3, <1>5, <2>1, <3>1 DEF HandedMatched
    <2>2. CASE d \notin deliveries
      <3>1. NewOf(d) /\ d.rec \in Records /\ d.rec \in Watched
        BY <1>1, <2>2 DEF NewOf, Delivery
      <3>2. rows[d.rec].status # "NONE"
        BY <3>1 DEF BlankRows, Watched
      <3>3. CASE watchers[d.rec].matched = Never
        <4>1. watchers'[d.rec].matched = now
          BY <1>2, <3>1, <3>3 DEF NewOf, Watcher
        <4> QED BY <1>5, <3>1, <3>2, <4>1
      <3>4. CASE watchers[d.rec].matched # Never
        <4>1. watchers'[d.rec].matched = watchers[d.rec].matched
          BY <1>3, <3>1, <3>4
        <4>2. PICK e \in deliveries : e.rec = d.rec
          BY <3>1, <3>4 DEF MatchedHanded
        <4>3. boot = "resume" => watchers[d.rec].matched = now
          BY <3>1, <4>2 DEF HandedMatched
        <4> QED BY <3>1, <3>2, <3>4, <4>1, <4>3
      <3> QED BY <3>3, <3>4
    <2> QED BY <2>1, <2>2
  <1>10. OneOriginalPayment'
    <2> SUFFICES ASSUME NEW d \in deliveries', NEW e \in deliveries',
                        d.rec = e.rec, ~d.repeat, ~e.repeat
                 PROVE  d = e
      BY DEF OneOriginalPayment
    <2>1. ASSUME NEW f \in deliveries, NEW g \in deliveries', g \notin deliveries,
                 f.rec = g.rec, ~g.repeat
          PROVE  FALSE
      <3>1. g.rec \in Watched /\ watchers[g.rec].matched = Never
        BY <1>1, <2>1 DEF NewOf
      <3> QED BY <2>1, <3>1 DEF HandedMatched
    <2> QED BY <1>1, <2>1 DEF OneOriginalPayment
  <1>11. NotAbandonedEarly'
    BY <1>0, <1>1, <1>4 DEF NotAbandonedEarly
  <1> QED BY <1>6, <1>7, <1>8, <1>9, <1>10, <1>11

\* A request: the row and its watcher are new, get an address or are given up.
LEMMA RequestKeepsWatch ==
  ASSUME WatchInv, TypeOK', BlankRows', Request
  PROVE  WatchInv'
  <1> USE DEF WatchInv, Watched
  <1>0. /\ UNCHANGED <<deliveries, poll, now, boot, resumedAt>>
        /\ now \in Time /\ HardMax \in Nat /\ poll.begun \in Time
        /\ resumedAt \in Time \cup {Never}
    BY DurationsAssumption DEF Request, CreateRecord, AddressReady, AddressFails, SetOrderAddress,
       memory, world, startup, TypeOK
  <1>1. \A d \in deliveries : d.rec \in Records
    BY DEF TypeOK, Delivery
  <1>2. ASSUME NEW r \in Records, NEW a \in Amounts, CreateRecord(r, a) PROVE WatchInv'
    <2>1. /\ rows[r].status = "NONE" /\ watchers[r] = NoWatch
          /\ \A d \in deliveries : d.rec # r
      BY <1>2 DEF CreateRecord, BlankRows, HandedMatched
    <2>2. /\ rows'[r].status = "PENDING" /\ rows'[r].addr = NoAddr /\ rows'[r].created = now
          /\ watchers'[r].addr = NoAddr /\ watchers'[r].created = now
          /\ watchers'[r].original = now /\ watchers'[r].matched = Never
          /\ \A q \in Records : q # r => rows'[q] = rows[q] /\ watchers'[q] = watchers[q]
      BY <1>2 DEF CreateRecord, TypeOK
    <2>3. WatchersTrue'
      BY <1>0, <2>2 DEF WatchersTrue, ClockAhead
    <2>4. ClockAhead'
      BY <1>0, <2>2 DEF ClockAhead
    <2>5. PollYoung'
      BY <1>0, <2>2 DEF PollYoung, ClockAhead
    <2>6. MatchedHanded'
      BY <1>0, <2>2 DEF MatchedHanded
    <2>7. HandedMatched'
      BY <1>0, <1>1, <2>1, <2>2 DEF HandedMatched
    <2>8. OneOriginalPayment'
      BY <1>0 DEF OneOriginalPayment
    <2>9. NotAbandonedEarly'
      BY <1>0, <2>2 DEF NotAbandonedEarly
    <2> QED BY <2>3, <2>4, <2>5, <2>6, <2>7, <2>8, <2>9
  <1>3. ASSUME NEW r \in Records, NEW a \in Addresses, AddressReady(r, a) PROVE WatchInv'
    <2>1. watchers[r] # NoWatch /\ watchers[r].addr = NoAddr /\ rows[r].addr = NoAddr
      BY <1>3 DEF AddressReady, WatchersTrue
    <2>2. watchers[r] \in Watcher
      BY <2>1 DEF TypeOK
    <2>3. /\ watchers'[r].addr = a /\ watchers'[r].created = watchers[r].created
          /\ watchers'[r].original = watchers[r].original
          /\ watchers'[r].matched = watchers[r].matched
          /\ watchers'[r] \in Watcher
          /\ \A q \in Records : q # r => watchers'[q] = watchers[q]
          /\ rows' = rows
      BY <1>3, <2>2 DEF AddressReady, TypeOK, Watcher, persistent
    <2>4. watchers'[r] # NoWatch
      BY <2>3, NoWatchAssumption
    <2>5. WatchersTrue' /\ ClockAhead' /\ PollYoung'
      BY <1>0, <2>1, <2>3, <2>4 DEF WatchersTrue, ClockAhead, PollYoung
    <2>6. MatchedHanded'
      BY <1>0, <2>1, <2>3, <2>4 DEF MatchedHanded
    <2>7. HandedMatched'
      BY <1>0, <1>1, <2>1, <2>3, <2>4 DEF HandedMatched
    <2>8. OneOriginalPayment' /\ NotAbandonedEarly'
      BY <1>0, <2>1, <2>3 DEF OneOriginalPayment, NotAbandonedEarly
    <2> QED BY <2>5, <2>6, <2>7, <2>8
  <1>4. ASSUME NEW r \in Records, AddressFails(r) PROVE WatchInv'
    <2>1. watchers[r] # NoWatch /\ rows[r].addr = NoAddr
      BY <1>4 DEF AddressFails, WatchersTrue
    <2>2. rows[r].status # "NONE"
      BY <2>1 DEF BlankRows
    <2>3. /\ watchers'[r] = NoWatch
          /\ \A q \in Records : q # r => watchers'[q] = watchers[q]
          /\ \A q \in Records : /\ rows'[q].addr = rows[q].addr /\ rows'[q].created = rows[q].created
                                /\ rows'[q].status \in {rows[q].status, "FAILED"}
      BY <1>4 DEF AddressFails, TypeOK, Row
    <2>4. WatchersTrue' /\ ClockAhead' /\ PollYoung'
      BY <1>0, <2>3 DEF WatchersTrue, ClockAhead, PollYoung
    <2>5. MatchedHanded'
      BY <1>0, <2>3 DEF MatchedHanded
    <2>6. HandedMatched'
      BY <1>0, <1>1, <2>1, <2>2, <2>3 DEF HandedMatched
    <2>7. OneOriginalPayment' /\ NotAbandonedEarly'
      BY <1>0, <2>1, <2>3 DEF OneOriginalPayment, NotAbandonedEarly
    <2> QED BY <2>4, <2>5, <2>6, <2>7
  <1>5. ASSUME NEW r \in Records, SetOrderAddress(r) PROVE WatchInv'
    <2>1. /\ watchers' = watchers /\ watchers[r] # NoWatch /\ watchers[r].addr # NoAddr
          /\ \A q \in Records : q # r => rows'[q] = rows[q]
          /\ rows'[r].created = rows[r].created /\ rows'[r].status = rows[r].status
      BY <1>5 DEF SetOrderAddress, TypeOK, Row, memory
    <2>2. WatchersTrue' /\ ClockAhead' /\ PollYoung'
      BY <1>0, <2>1 DEF WatchersTrue, ClockAhead, PollYoung
    <2>3. MatchedHanded'
      BY <1>0, <2>1 DEF MatchedHanded
    <2>4. HandedMatched'
      BY <1>0, <1>1, <2>1 DEF HandedMatched
    <2>5. OneOriginalPayment' /\ NotAbandonedEarly'
      BY <1>0, <2>1 DEF OneOriginalPayment, NotAbandonedEarly
    <2> QED BY <2>2, <2>3, <2>4, <2>5
  <1> QED BY <1>2, <1>3, <1>4, <1>5 DEF Request

\* Boot watches again what is due, from now on.
LEMMA ResumeKeepsWatch ==
  ASSUME WatchInv, TypeOK', BlankRows', BootResume
  PROVE  WatchInv'
  <1> USE DEF WatchInv, Watched
  <1>0. /\ UNCHANGED <<deliveries, poll, now, rows>> /\ resumedAt' = now
        /\ boot = "resume" /\ boot' = "seed"
        /\ now \in Time /\ HardMax \in Nat /\ poll.begun \in Time
        /\ \A r \in Records : rows[r].created \in Time
    BY DurationsAssumption DEF BootResume, persistent, world, TypeOK, Row
  <1>1. \A d \in deliveries : d.rec \in Records
    BY DEF TypeOK, Delivery
  <1>2. ASSUME NEW r \in Records
        PROVE  \/ /\ Due(r)
                  /\ watchers'[r].addr = rows[r].addr /\ watchers'[r].created = now
                  /\ watchers'[r].original = rows[r].created /\ watchers'[r].matched = Never
                  /\ watchers'[r] # NoWatch
               \/ ~Due(r) /\ watchers'[r] = watchers[r]
    <2>1. watchers'[r] = Resumed(r)
      BY DEF BootResume
    <2>2. CASE Due(r)
      <3>1. watchers'[r] = [addr |-> rows[r].addr, amount |-> rows[r].amount, created |-> now,
                            original |-> rows[r].created, matched |-> Never]
        BY <2>1, <2>2 DEF Resumed
      <3>2. watchers'[r] \in Watcher
        BY <1>0, <3>1 DEF TypeOK, Row, Watcher
      <3> QED BY <2>2, <3>1, <3>2, NoWatchAssumption
    <2>3. CASE ~Due(r)
      BY <2>1, <2>3 DEF Resumed
    <2> QED BY <2>2, <2>3
  <1>3. WatchersTrue'
    <2> SUFFICES ASSUME NEW r \in Records, watchers'[r] # NoWatch
                 PROVE  /\ watchers'[r].original = rows[r].created
                        /\ watchers'[r].addr = NoAddr => rows[r].addr = NoAddr
                        /\ watchers'[r].created >= rows[r].created /\ watchers'[r].created >= now
      BY <1>0 DEF WatchersTrue
    <2> QED BY <1>0, <1>2 DEF WatchersTrue, ClockAhead
  <1>4. ClockAhead'
    BY <1>0 DEF ClockAhead
  <1>5. PollYoung'
    BY <1>0, <1>2 DEF PollYoung, ClockAhead, Due
  <1>6. MatchedHanded'
    BY <1>0, <1>2 DEF MatchedHanded
  <1>7. HandedMatched'
    BY <1>0, <1>1, <1>2 DEF HandedMatched, Due
  <1>8. OneOriginalPayment'
    BY <1>0 DEF OneOriginalPayment
  <1>9. NotAbandonedEarly'
    BY <1>0, <1>2 DEF NotAbandonedEarly, Due
  <1> QED BY <1>3, <1>4, <1>5, <1>6, <1>7, <1>8, <1>9

LEMMA RestartKeepsWatch ==
  ASSUME WatchInv, TypeOK', BlankRows', Restart
  PROVE  WatchInv'
  <1> USE DEF WatchInv
  <1>0. /\ \A r \in Records : watchers'[r] = NoWatch
        /\ deliveries' = {} /\ poll' = IdlePoll /\ resumedAt' = Never
        /\ UNCHANGED <<rows, now>> /\ now \in Time
    BY DEF Restart, persistent, TypeOK
  <1>1. Watched' = {}
    BY <1>0 DEF Watched
  <1>2. ClockAhead' /\ PollYoung'
    BY <1>0, <1>1 DEF ClockAhead, PollYoung, IdlePoll
  <1>3. WatchersTrue' /\ MatchedHanded' /\ HandedMatched' /\ OneOriginalPayment'
    BY <1>0, <1>1 DEF WatchersTrue, MatchedHanded, HandedMatched, OneOriginalPayment
  <1>4. NotAbandonedEarly'
    BY <1>0 DEF NotAbandonedEarly
  <1> QED BY <1>2, <1>3, <1>4

LEMMA StepWatch == WatchInv /\ [Next]_vars => WatchInv'
  <1> SUFFICES ASSUME WatchInv, [Next]_vars PROVE WatchInv'
    OBVIOUS
  <1>1. TypeOK' /\ BlankRows'
    BY StepType, BlankRowsStep DEF WatchInv
  <1>2. now \in Int
    BY DEF WatchInv, TypeOK
  <1>3. CASE Request
    BY <1>1, <1>3, RequestKeepsWatch
  <1>4. CASE Chain
    BY <1>1, <1>2, <1>4, QuietStep DEF Chain, Pay, Arrive, SpendNote, Tick, persistent, memory,
                                       startup
  <1>5. CASE Poll
    <2>1. CASE PollFails
      BY <1>1, <1>2, <2>1, QuietStep DEF PollFails, persistent, world, startup
    <2> QED BY <1>1, <1>5, <2>1, BeginKeepsWatch, AnswerKeepsWatch DEF Poll, PollAnswered
  <1>6. ASSUME NEW d \in deliveries, Settle(d) PROVE WatchInv'
    BY <1>1, <1>6, SettleKeepsWatch
  <1>7. CASE Boot
    <2>1. CASE BootResume
      BY <1>1, <2>1, ResumeKeepsWatch
    <2>2. CASE BootResumeFails \/ BootSeed \/ BootSeedFails
      BY <1>1, <1>2, <2>2, QuietStep DEF BootResumeFails, BootSeed, BootSeedFails, persistent,
                                         memory, world
    <2> QED BY <1>7, <2>1, <2>2 DEF Boot
  <1>8. CASE Restart
    BY <1>1, <1>8, RestartKeepsWatch
  <1>9. CASE UNCHANGED vars
    BY <1>1, <1>2, <1>9, QuietStep DEF vars, persistent, memory, world, startup
  <1> QED BY <1>3, <1>4, <1>5, <1>6, <1>7, <1>8, <1>9 DEF Next

THEOREM WatchInvariant == Spec => []WatchInv
  BY InitWatch, StepWatch, PTL DEF Spec

(***************************************************************************)
(* A record has one payment that is not a repeat, in the life of a         *)
(* process, whichever passes, ticks and boots find its payments.           *)
(***************************************************************************)
THEOREM OriginalOnce == Spec => []OneOriginalPayment
  <1>1. WatchInv => OneOriginalPayment
    BY DEF WatchInv
  <1> QED BY <1>1, WatchInvariant, PTL

-----------------------------------------------------------------------------
(***************************************************************************)
(* What the settlement finds.  A watcher that has not matched is of a      *)
(* pending row; one that has matched has an original, and so has every     *)
(* repeat; an original in hand is of a pending row, a recorded one of a    *)
(* filled row, unless the address was lost, after which nobody watches.    *)
(***************************************************************************)
InHand == {"fired", "checked", "credited"}

UnmatchedPending == \A r \in Watched :
  watchers[r].matched = Never => rows[r].status = "PENDING"

HasOriginal(r) == \E e \in deliveries : e.rec = r /\ ~e.repeat

Followed ==
  /\ \A r \in Watched : watchers[r].matched # Never => HasOriginal(r)
  /\ \A d \in deliveries : d.repeat => HasOriginal(d.rec)

Lost(r) == AddressLost(r) /\ watchers[r] = NoWatch

FoundAsLeft(d) ==
  \/ Lost(d.rec)
  \/ /\ d.step \in InHand => rows[d.rec].status = "PENDING"
     /\ d.step = "recorded" => rows[d.rec].status = "FILLED"
OriginalsFound == \A d \in deliveries :
  ~d.repeat /\ d.rec \notin NearLaunches => FoundAsLeft(d)

TakenInv == WatchInv /\ UnmatchedPending /\ Followed /\ OriginalsFound

LEMMA TakenIsTaken == TakenInv => PaymentsTaken
  <1> SUFFICES ASSUME TakenInv, NEW d \in deliveries, d.step = "fired",
                      d.rec \notin NearLaunches, ~AddressLost(d.rec)
               PROVE  \/ Accepts(d)
                      \/ d.repeat /\ \E e \in deliveries :
                           e.rec = d.rec /\ ~e.repeat /\ e.step # "recorded"
    BY DEF TakenInv, WatchInv, PaymentsTaken
  <1>1. CASE d.repeat
    <2>1. PICK e \in deliveries : e.rec = d.rec /\ ~e.repeat
      BY <1>1 DEF TakenInv, Followed, HasOriginal
    <2>2. e.step = "recorded" => rows[d.rec].status = "FILLED"
      BY <2>1 DEF TakenInv, OriginalsFound, FoundAsLeft, Lost
    <2> QED BY <1>1, <2>1, <2>2 DEF Accepts
  <1>2. CASE ~d.repeat
    BY <1>2 DEF TakenInv, OriginalsFound, FoundAsLeft, Lost, InHand, Accepts
  <1> QED BY <1>1, <1>2

LEMMA InitTaken == Init => TakenInv
  BY InitWatch DEF Init, Watched, TakenInv, UnmatchedPending, Followed, OriginalsFound

\* Steps that leave the rows and the callbacks alone, and watch nobody else as if
\* matched or without a pending row.
LEMMA TakenQuiet ==
  ASSUME TakenInv, WatchInv', UNCHANGED <<rows, deliveries>>,
         \A r \in Records :
           \/ watchers'[r] = watchers[r]
           \/ watchers'[r] = NoWatch
           \/ rows[r].status = "PENDING" /\ watchers'[r].matched = Never
  PROVE  TakenInv'
  <1> USE DEF TakenInv, Watched
  <1>1. UnmatchedPending'
    BY DEF UnmatchedPending
  <1>2. Followed'
    BY DEF Followed, HasOriginal
  <1>3. OriginalsFound'
    <2> SUFFICES ASSUME NEW d \in deliveries, ~d.repeat, d.rec \notin NearLaunches
                 PROVE  FoundAsLeft(d)'
      BY DEF OriginalsFound
    <2>1. FoundAsLeft(d) /\ d.rec \in Records
      BY DEF OriginalsFound, WatchInv, TypeOK, Delivery
    <2>2. Lost(d.rec) => Lost(d.rec)'
      BY <2>1 DEF Lost, AddressLost
    <2> QED BY <2>1, <2>2 DEF FoundAsLeft
  <1> QED BY <1>1, <1>2, <1>3

LEMMA TakenRequest ==
  ASSUME TakenInv, WatchInv', Request
  PROVE  TakenInv'
  <1> USE DEF TakenInv, Watched
  <1>0. /\ deliveries' = deliveries
        /\ \A d \in deliveries : d.rec \in Records /\ rows[d.rec].status # "NONE"
    BY DEF Request, CreateRecord, AddressReady, AddressFails, SetOrderAddress, memory,
           WatchInv, TypeOK, Delivery, HandedMatched
  \* One record changes; its rows and watchers decide.
  <1>r. ASSUME NEW r \in Records,
               \A q \in Records : q # r => rows'[q] = rows[q] /\ watchers'[q] = watchers[q],
               watchers'[r] # NoWatch => /\ watchers'[r].matched = Never
                                           => rows'[r].status = "PENDING"
                                         /\ watchers'[r].matched # Never
                                           => r \in Watched /\ watchers[r].matched # Never,
               \/ rows[r].status = "NONE"
               \/ Lost(r)'
               \/ rows'[r].status = rows[r].status /\ ~Lost(r)
        PROVE  TakenInv'
    <2>1. UnmatchedPending'
      BY <1>r DEF UnmatchedPending
    <2>2. Followed'
      BY <1>0, <1>r DEF Followed, HasOriginal
    <2>3. OriginalsFound'
      <3> SUFFICES ASSUME NEW d \in deliveries, ~d.repeat, d.rec \notin NearLaunches
                   PROVE  FoundAsLeft(d)'
        BY <1>0 DEF OriginalsFound
      <3>1. FoundAsLeft(d) /\ d.rec \in Records /\ rows[d.rec].status # "NONE"
        BY <1>0 DEF OriginalsFound
      <3>2. CASE d.rec # r
        BY <1>r, <3>1, <3>2 DEF FoundAsLeft, Lost, AddressLost
      <3>3. CASE d.rec = r
        BY <1>r, <3>1, <3>3 DEF FoundAsLeft
      <3> QED BY <3>2, <3>3
    <2> QED BY <2>1, <2>2, <2>3
  <1>1. ASSUME NEW r \in Records, NEW a \in Amounts, CreateRecord(r, a) PROVE TakenInv'
    <2>1. /\ rows[r].status = "NONE" /\ rows'[r].status = "PENDING"
          /\ watchers'[r].matched = Never
          /\ \A q \in Records : q # r => rows'[q] = rows[q] /\ watchers'[q] = watchers[q]
      BY <1>1 DEF CreateRecord, WatchInv, TypeOK
    <2> QED BY <1>r, <2>1
  <1>2. ASSUME NEW r \in Records, NEW a \in Addresses, AddressReady(r, a) PROVE TakenInv'
    <2>1. /\ r \in Watched /\ rows' = rows /\ watchers[r] \in Watcher
          /\ \A q \in Records : q # r => watchers'[q] = watchers[q]
      BY <1>2 DEF AddressReady, persistent, WatchInv, TypeOK
    <2>2. watchers'[r].matched = watchers[r].matched
      BY <1>2, <2>1 DEF AddressReady, WatchInv, TypeOK, Watcher
    <2> QED BY <1>r, <2>1, <2>2 DEF UnmatchedPending, Lost
  <1>3. ASSUME NEW r \in Records, AddressFails(r) PROVE TakenInv'
    <2>1. /\ r \in Watched /\ watchers'[r] = NoWatch /\ rows[r].addr = NoAddr
          /\ \A q \in Records : q # r => rows'[q] = rows[q] /\ watchers'[q] = watchers[q]
          /\ \/ rows'[r] = rows[r]
             \/ rows'[r].status = "FAILED" /\ rows'[r].addr = NoAddr
      BY <1>3 DEF AddressFails, WatchInv, TypeOK, Row, WatchersTrue
    <2> QED BY <1>r, <2>1 DEF Lost, AddressLost
  <1>4. ASSUME NEW r \in Records, SetOrderAddress(r) PROVE TakenInv'
    <2>1. /\ r \in Watched /\ watchers' = watchers /\ rows'[r].status = rows[r].status
          /\ \A q \in Records : q # r => rows'[q] = rows[q]
      BY <1>4 DEF SetOrderAddress, memory, WatchInv, TypeOK, Row
    <2> QED BY <1>r, <2>1 DEF UnmatchedPending, Lost
  <1> QED BY <1>1, <1>2, <1>3, <1>4 DEF Request

\* An answer hands over originals of pending rows, and repeats behind originals.
LEMMA TakenAnswer ==
  ASSUME TakenInv, WatchInv', NEW list \in SUBSET Notes, PollReply(list)
  PROVE  TakenInv'
  <1> USE DEF TakenInv
  <1>0. rows' = rows
    BY DEF PollReply, persistent
  <1>1. /\ deliveries \subseteq deliveries'
        /\ \A r \in Records : AnswerKeeps(r)
        /\ \A d \in deliveries' \ deliveries : NewOf(d)
    BY AnswerFacts
  <1>2. now # Never /\ \A r \in Watched : r \in Records /\ watchers[r] \in Watcher
    BY DEF WatchInv, TypeOK, Watched, Time, Never
  <1>3. \A r \in Watched : [watchers[r] EXCEPT !.matched = now].matched = now
    BY <1>2 DEF Watcher
  <1>4. \A r \in Records : r \in Watched' /\ watchers'[r] = watchers[r] => r \in Watched
    BY DEF Watched
  <1>5. Watched' \subseteq Records
    BY DEF Watched
  <1>6. UnmatchedPending'
    <2> SUFFICES ASSUME NEW r \in Watched', watchers'[r].matched = Never
                 PROVE  rows[r].status = "PENDING"
      BY <1>0 DEF UnmatchedPending
    <2>1. watchers'[r] = watchers[r]
      <3>1. AnswerKeeps(r)
        BY <1>1, <1>5
      <3>2. CASE r \in Watched /\ watchers'[r] = [watchers[r] EXCEPT !.matched = now]
        <4>1. watchers'[r].matched = now
          BY <1>3, <3>2
        <4> QED BY <1>2, <4>1
      <3> QED BY <3>1, <3>2 DEF AnswerKeeps
    <2> QED BY <1>4, <1>5, <2>1 DEF UnmatchedPending
  <1>7. \A r : HasOriginal(r) => HasOriginal(r)'
    BY <1>1 DEF HasOriginal
  <1>8. ASSUME NEW r \in Watched', watchers'[r].matched # Never PROVE HasOriginal(r)'
    <2>1. CASE watchers'[r] = watchers[r]
      BY <1>4, <1>5, <1>7, <1>8, <2>1 DEF Followed
    <2>2. CASE \E d \in deliveries' : d.rec = r /\ ~d.repeat
      BY <2>2 DEF HasOriginal
    <2> QED BY <1>1, <1>5, <2>1, <2>2 DEF AnswerKeeps
  <1>9. ASSUME NEW d \in deliveries', d.repeat PROVE HasOriginal(d.rec)'
    <2>1. CASE d \in deliveries
      BY <1>7, <1>9, <2>1 DEF Followed
    <2>2. CASE d \notin deliveries
      <3>1. NewOf(d) /\ d.rec \in Watched
        BY <1>1, <2>2 DEF NewOf
      <3>2. CASE watchers[d.rec].matched # Never
        BY <1>7, <3>1, <3>2 DEF Followed
      <3>3. CASE watchers[d.rec].matched = Never
        <4>1. watchers'[d.rec] # watchers[d.rec]
          BY <1>2, <1>3, <3>1, <3>3 DEF NewOf
        <4>2. AnswerKeeps(d.rec)
          BY <1>1, <1>2, <3>1
        <4> QED BY <4>1, <4>2 DEF AnswerKeeps, HasOriginal
      <3> QED BY <3>2, <3>3
    <2> QED BY <2>1, <2>2
  <1>10. OriginalsFound'
    <2> SUFFICES ASSUME NEW d \in deliveries', ~d.repeat, d.rec \notin NearLaunches
                 PROVE  FoundAsLeft(d)'
      BY DEF OriginalsFound
    <2>1. CASE d \in deliveries
      <3>1. FoundAsLeft(d) /\ d.rec \in Records
        BY <2>1 DEF OriginalsFound, WatchInv, TypeOK, Delivery
      <3>2. watchers[d.rec] = NoWatch => watchers'[d.rec] = NoWatch
        BY <1>1, <3>1 DEF AnswerKeeps, Watched
      <3> QED BY <1>0, <3>1, <3>2 DEF FoundAsLeft, Lost, AddressLost
    <2>2. CASE d \notin deliveries
      <3>1. NewOf(d)
        BY <1>1, <2>2
      <3>2. d.rec \in Watched /\ watchers[d.rec].matched = Never /\ d.step = "fired"
        BY <3>1 DEF NewOf
      <3> QED BY <1>0, <3>2 DEF UnmatchedPending, FoundAsLeft
    <2> QED BY <2>1, <2>2
  <1> QED BY <1>6, <1>8, <1>9, <1>10 DEF Followed

\* A settlement writes the row of its own record; only an original of an order does,
\* and its watcher has matched.
LEMMA TakenSettle ==
  ASSUME TakenInv, WatchInv', NEW d \in deliveries, Settle(d)
  PROVE  TakenInv'
  <1> USE DEF TakenInv
  <1>0. d \in Delivery /\ d.rec \in Records
    BY DEF WatchInv, TypeOK, Delivery
  <1>1. watchers' = watchers /\ Watched' = Watched
    BY DEF Settle, HandlerCheck, HandlerCredit, HandlerRecord, HandlerMarkPaid, HandlerThrows,
           Watched
  <1>2. PICK step \in {"checked", "credited", "recorded", "over"} :
          /\ Advance(d, step) /\ d.step \in InHand
          /\ \/ rows' = rows
             \/ \E st \in {"FILLED", "FAILED"} : rows' = [rows EXCEPT ![d.rec].status = st]
          /\ rows' = rows \/ ~d.repeat \/ d.rec \in NearLaunches
          /\ d.rec \notin NearLaunches /\ ~d.repeat =>
               /\ step \in InHand => rows' = rows
               /\ step = "recorded" => rows' = [rows EXCEPT ![d.rec].status = "FILLED"]
    <2>1. CASE HandlerCheck(d)
      BY <2>1 DEF HandlerCheck, persistent, InHand
    <2>2. CASE HandlerCredit(d)
      BY <2>2 DEF HandlerCredit, InHand
    <2>3. CASE HandlerRecord(d)
      BY <2>3 DEF HandlerRecord, InHand
    <2>4. CASE HandlerMarkPaid(d)
      BY <2>4 DEF HandlerMarkPaid, InHand
    <2>5. CASE HandlerThrows(d)
      BY <2>5 DEF HandlerThrows, InHand
    <2> QED BY <2>1, <2>2, <2>3, <2>4, <2>5 DEF Settle
  <1> DEFINE d1 == [d EXCEPT !.step = step]
  <1>3. /\ d1.rec = d.rec /\ d1.repeat = d.repeat /\ d1.step = step
        /\ deliveries' = (deliveries \ {d}) \cup {d1}
    BY <1>0, <1>2 DEF Delivery, Advance
  <1> HIDE DEF d1
  <1>4. \A r \in Records : r # d.rec => rows'[r] = rows[r]
    BY <1>0, <1>2 DEF WatchInv, TypeOK
  <1>5. rows'[d.rec].addr = rows[d.rec].addr
    <2>1. rows \in [Records -> Row]
      BY DEF WatchInv, TypeOK
    <2>2. ASSUME NEW st, rows' = [rows EXCEPT ![d.rec].status = st]
          PROVE  rows'[d.rec].addr = rows[d.rec].addr
      BY <1>0, <2>1, <2>2 DEF Row
    <2> QED BY <1>2, <2>2
  <1>6. \A r : HasOriginal(r) => HasOriginal(r)'
    BY <1>3 DEF HasOriginal
  <1>7. Followed'
    BY <1>1, <1>3, <1>6 DEF Followed
  <1>8. UnmatchedPending'
    <2> SUFFICES ASSUME NEW r \in Watched, watchers[r].matched = Never
                 PROVE  rows'[r].status = "PENDING"
      BY <1>1 DEF UnmatchedPending
    <2>1. r # d.rec /\ r \in Records
      BY DEF WatchInv, HandedMatched, Watched
    <2> QED BY <1>4, <2>1 DEF UnmatchedPending
  <1>9. OriginalsFound'
    <2> SUFFICES ASSUME NEW e \in deliveries', ~e.repeat, e.rec \notin NearLaunches
                 PROVE  FoundAsLeft(e)'
      BY DEF OriginalsFound
    <2>1. CASE e = d1
      <3>1. ~d.repeat /\ d.rec \notin NearLaunches /\ FoundAsLeft(d)
        BY <1>3, <2>1 DEF OriginalsFound
      <3>2. CASE step \in InHand
        <4>1. rows' = rows
          BY <1>2, <3>1, <3>2
        <4> QED BY <1>1, <1>2, <1>3, <2>1, <3>1, <3>2, <4>1
                DEF FoundAsLeft, Lost, AddressLost, InHand
      <3>3. CASE step = "recorded"
        <4>1. rows'[d.rec].status = "FILLED"
          BY <1>0, <1>2, <3>1, <3>3 DEF WatchInv, TypeOK, Row
        <4> QED BY <1>3, <2>1, <3>3, <4>1 DEF FoundAsLeft, InHand
      <3>4. CASE step = "over"
        BY <1>3, <2>1, <3>4 DEF FoundAsLeft, InHand
      <3> QED BY <1>2, <3>2, <3>3, <3>4 DEF InHand
    <2>2. CASE e # d1
      <3>1. e \in deliveries /\ e # d /\ e.rec \in Records
        BY <1>3, <2>2 DEF WatchInv, TypeOK, Delivery
      <3>2. FoundAsLeft(e)
        BY <3>1 DEF OriginalsFound
      <3>3. rows'[e.rec] = rows[e.rec]
        <4>1. CASE e.rec # d.rec
          BY <1>4, <3>1, <4>1
        <4>2. CASE e.rec = d.rec
          <5>1. d.repeat
            BY <3>1, <4>2 DEF WatchInv, OneOriginalPayment
          <5> QED BY <1>2, <4>2, <5>1
        <4> QED BY <4>1, <4>2
      <3> QED BY <1>1, <3>2, <3>3 DEF FoundAsLeft, Lost, AddressLost
    <2> QED BY <2>1, <2>2
  <1> QED BY <1>7, <1>8, <1>9

LEMMA StepTaken == TakenInv /\ [Next]_vars => TakenInv'
  <1> SUFFICES ASSUME TakenInv, [Next]_vars PROVE TakenInv'
    OBVIOUS
  <1>1. WatchInv /\ WatchInv'
    BY StepWatch DEF TakenInv
  <1>2. CASE Request
    BY <1>1, <1>2, TakenRequest
  <1>3. CASE Chain
    BY <1>1, <1>3, TakenQuiet DEF Chain, Pay, Arrive, SpendNote, Tick, persistent, memory
  <1>4. CASE Poll
    <2>1. CASE PollBegin
      <3>1. \A r \in Records : watchers'[r] \in {watchers[r], NoWatch}
        BY <2>1 DEF PollBegin
      <3> QED BY <1>1, <2>1, <3>1, TakenQuiet DEF PollBegin, persistent
    <2>2. CASE PollFails
      BY <1>1, <2>2, TakenQuiet DEF PollFails, persistent
    <2> QED BY <1>1, <1>4, <2>1, <2>2, TakenAnswer DEF Poll, PollAnswered
  <1>5. ASSUME NEW d \in deliveries, Settle(d) PROVE TakenInv'
    BY <1>1, <1>5, TakenSettle
  <1>6. CASE Boot
    <2>1. CASE BootResume
      <3>1. \A r \in Records :
              \/ watchers'[r] = watchers[r]
              \/ rows[r].status = "PENDING" /\ watchers'[r].matched = Never
        BY <2>1 DEF BootResume, Resumed, Due
      <3> QED BY <1>1, <2>1, <3>1, TakenQuiet DEF BootResume, persistent
    <2>2. CASE BootResumeFails \/ BootSeed \/ BootSeedFails
      BY <1>1, <2>2, TakenQuiet DEF BootResumeFails, BootSeed, BootSeedFails, persistent, memory
    <2> QED BY <1>6, <2>1, <2>2 DEF Boot
  <1>7. CASE Restart
    <2>1. deliveries' = {} /\ Watched' = {}
      BY <1>7 DEF Restart, Watched
    <2> QED BY <1>1, <2>1 DEF TakenInv, UnmatchedPending, Followed, OriginalsFound
  <1>8. CASE UNCHANGED vars
    BY <1>1, <1>8, TakenQuiet DEF vars, persistent, memory
  <1> QED BY <1>2, <1>3, <1>4, <1>5, <1>6, <1>7, <1>8 DEF Next

(***************************************************************************)
(* Of the payments handed over for an order only two kinds are dropped: of *)
(* an order that lost its address, and repeats whose original is not       *)
(* recorded, with its transaction used up (server.ts 868-877).             *)
(***************************************************************************)
THEOREM PaymentsAlwaysTaken == Spec => []PaymentsTaken
  <1> QED BY InitTaken, StepTaken, TakenIsTaken, PTL DEF Spec

(***************************************************************************)
(* A pending record whose payer has its address is watched for the whole   *)
(* soft window, from its creation or the last boot that resumed it.        *)
(***************************************************************************)
THEOREM WatchedLongEnough == Spec => []NotAbandonedEarly
  <1>1. WatchInv => NotAbandonedEarly
    BY DEF WatchInv
  <1> QED BY <1>1, WatchInvariant, PTL

(***************************************************************************)
(* A poll begun past the hard cap of a record makes no first match for it, *)
(* however often the backend was redeployed.                               *)
(***************************************************************************)
LEMMA HardLifetimeStep ==
  ASSUME WatchInv, [Next]_vars, NEW d \in NewDeliveries, ~d.repeat
  PROVE  poll.begun - rows[d.rec].created <= HardMax
  <1>1. d \in deliveries' /\ d \notin deliveries /\ d.step = "fired"
    BY DEF NewDeliveries
  <1>2. PICK list \in SUBSET Notes : PollReply(list)
    <2>1. ASSUME NEW e \in deliveries, NEW step \in {"checked", "credited", "recorded", "over"},
                 Advance(e, step)
          PROVE  FALSE
      <3>1. [e EXCEPT !.step = step].step = step
        BY DEF WatchInv, TypeOK, Delivery
      <3> QED BY <1>1, <2>1, <3>1 DEF Advance
    <2> QED BY <1>1, <2>1, DeliveriesStep DEF WatchInv
  <1>3. NewOf(d)
    BY <1>1, <1>2, AnswerFacts
  <1>4. d.rec \in Watched /\ watchers[d.rec].matched = Never /\ poll.phase = "waiting"
    BY <1>2, <1>3 DEF NewOf, PollReply
  <1> QED BY <1>4 DEF WatchInv, PollYoung, WatchersTrue

THEOREM LifetimeIsHard == Spec => HardLifetime
  <1>1. WatchInv /\ [Next]_vars =>
          [\A d \in NewDeliveries :
             ~d.repeat => poll.begun - rows[d.rec].created <= HardMax]_vars
    BY HardLifetimeStep
  <1> QED BY <1>1, WatchInvariant, PTL DEF Spec, HardLifetime
=============================================================================
