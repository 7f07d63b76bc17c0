----------------------------- MODULE AddressPool -----------------------------
(***************************************************************************)
(* Receiving addresses: backend/src/lib/zcashReal.ts hands an order one    *)
(* from a pool in the database, or has one made on demand, and tops the    *)
(* pool up in batches spread over the address workers.                     *)
(*                                                                         *)
(* The workers share one seed, so that an address is an index, and each    *)
(* counts its indices in a wallet of its own, which a heal or a            *)
(* ZCASH_FORCE_REWALLET takes back to the start.                           *)
(***************************************************************************)
EXTENDS Integers, FiniteSets

CONSTANTS
  PoolOrders,     \* orders, purchases, mints, creations that ask for an address
  AddressWorkerUrls,  \* how many ADDRESS_WORKER_URLS there are
  PoolTarget,     \* ADDRESS_POOL_TARGET
  TopUpSize,      \* addresses one top-up may add
  TopUpAttempts,  \* addresses one top-up may ask for
  MaxIndex,       \* bound: indices a worker counts to
  MaxPoolFaults   \* bound: calls that fail, workers reset, restarts

ASSUME PoolSizesAssumption ==
  AddressWorkerUrls \in Nat /\ {PoolTarget, TopUpSize, TopUpAttempts} \subseteq Nat \ {0}
ASSUME PoolBoundsAssumption == MaxIndex \in Nat /\ MaxPoolFaults \in Nat

VARIABLES
  poolRow,     \* database: each address absent, free, or claimed
  nextIndex,   \* the workers' wallets
  turn,        \* memory: nextAddressWorker
  asking,      \* memory: the orders' requests
  topUp,       \* memory: the top-up in flight
  poolFaults

poolVars == <<poolRow, nextIndex, turn, asking, topUp, poolFaults>>

Indices == 0..(MaxIndex + TopUpSize)
\* Without address workers the wallet service makes the addresses.
NumWorkers == IF AddressWorkerUrls = 0 THEN 1 ELSE AddressWorkerUrls
Workers == 0..(NumWorkers - 1)
NoAddress == -1
IdleTopUp == [at |-> "idle", count |-> 0, generated |-> 0, attempts |-> 0, batch |-> {}]

PoolTypeOK ==
  /\ poolRow \in [Indices -> {"absent", "free", "claimed"}]
  /\ nextIndex \in [Workers -> Indices] /\ turn \in Workers
  /\ asking \in [PoolOrders -> [at : {"idle", "claim", "demand", "given", "failed"},
                                address : Indices \cup {NoAddress}, pooled : BOOLEAN,
                                worker : Workers]]
  /\ topUp \in [at : {"idle", "count", "batch", "insert"}, count : Nat, generated : Nat,
                attempts : Nat, batch : SUBSET (Indices \X Nat)]
  /\ poolFaults \in Nat

PoolInit ==
  /\ poolRow = [i \in Indices |-> "absent"]
  /\ nextIndex = [w \in Workers |-> 0] /\ turn = 0
  /\ asking = [o \in PoolOrders |->
       [at |-> "idle", address |-> NoAddress, pooled |-> FALSE, worker |-> 0]]
  /\ topUp = IdleTopUp /\ poolFaults = 0

PoolFault == poolFaults < MaxPoolFaults /\ poolFaults' = poolFaults + 1
FreeRows == {i \in Indices : poolRow[i] = "free"}

-----------------------------------------------------------------------------
(* generateOrderAddress                                                    *)

AskAddress(o) ==
  /\ asking[o].at = "idle"
  /\ asking' = [asking EXCEPT ![o].at = "claim"]
  /\ UNCHANGED <<poolRow, nextIndex, turn, topUp, poolFaults>>

\* maybeTopUpAddressPool: one at a time.  An order that has its address nudges it.
NudgeTopUp == topUp' = IF topUp = IdleTopUp THEN [IdleTopUp EXCEPT !.at = "count"] ELSE topUp

\* claimPregeneratedZcashAddress: one statement that claims a row nobody has.
ClaimAddress(o, i) ==
  /\ asking[o].at = "claim" /\ i \in FreeRows
  /\ poolRow' = [poolRow EXCEPT ![i] = "claimed"]
  /\ asking' = [asking EXCEPT ![o].at = "given", ![o].address = i, ![o].pooled = TRUE]
  /\ NudgeTopUp
  /\ UNCHANGED <<nextIndex, turn, poolFaults>>

\* Mutant: the next worker is not taken modulo their number.
DemandAddressBeyond(o) ==
  /\ asking[o].at = "claim"
  /\ \/ FreeRows = {} /\ UNCHANGED <<poolRow, poolFaults>>
     \/ PoolFault /\ poolRow' \in {poolRow} \cup {[poolRow EXCEPT ![i] = "claimed"] : i \in FreeRows}
  /\ asking' = [asking EXCEPT ![o].at = "demand", ![o].worker = turn]
  /\ turn' = turn + 1
  /\ UNCHANGED <<nextIndex, topUp>>

\* The pool is empty, or the claim throws, made or not: callAddressWorker.
DemandAddress(o) ==
  /\ asking[o].at = "claim"
  /\ \/ FreeRows = {} /\ UNCHANGED <<poolRow, poolFaults>>
     \/ PoolFault /\ poolRow' \in {poolRow} \cup {[poolRow EXCEPT ![i] = "claimed"] : i \in FreeRows}
  /\ asking' = [asking EXCEPT ![o].at = "demand", ![o].worker = turn]
  /\ turn' = (turn + 1) % NumWorkers
  /\ UNCHANGED <<nextIndex, topUp>>

\* An address made on demand goes to its order without a look at the pool.
DemandAnswered(o) ==
  LET w == asking[o].worker IN
  /\ asking[o].at = "demand" /\ nextIndex[w] < MaxIndex
  /\ asking' = [asking EXCEPT ![o].at = "given", ![o].address = nextIndex[w]]
  /\ nextIndex' = [nextIndex EXCEPT ![w] = @ + 1]
  /\ NudgeTopUp
  /\ UNCHANGED <<poolRow, turn, poolFaults>>

DemandFails(o) ==
  /\ asking[o].at = "demand" /\ PoolFault
  /\ asking' = [asking EXCEPT ![o].at = "failed"]
  /\ UNCHANGED <<poolRow, nextIndex, turn, topUp>>

-----------------------------------------------------------------------------
(* maybeTopUpAddressPool                                                   *)

\* countUnclaimedPregeneratedZcashAddresses, read once: what is claimed from then
\* on is made up for by the next one.
CountPool ==
  /\ topUp.at = "count"
  /\ topUp' = [topUp EXCEPT !.at = "batch", !.count = Cardinality(FreeRows)]
  /\ UNCHANGED <<poolRow, nextIndex, turn, asking, poolFaults>>

Smallest(S) == CHOOSE n \in S : \A m \in S : n <= m
BatchSize == Smallest({1 + AddressWorkerUrls, PoolTarget - topUp.count,
                       TopUpSize - topUp.generated, TopUpAttempts - topUp.attempts})

\* A batch of calls, in turn over the workers; each call's answer is an index and
\* its place in the batch.
CallWorker(k) == (turn + k - 1) % NumWorkers
CallsTo(w, k) == {j \in 1..k : CallWorker(j) = w}
BatchAnswered ==
  LET n == BatchSize IN
  /\ topUp.at = "batch" /\ n > 0 /\ \A w \in Workers : nextIndex[w] < MaxIndex
  /\ nextIndex' = [w \in Workers |-> nextIndex[w] + Cardinality(CallsTo(w, n))]
  /\ topUp' = [topUp EXCEPT !.at = "insert", !.attempts = @ + n,
       !.batch = {<<nextIndex[CallWorker(k)] + Cardinality(CallsTo(CallWorker(k), k)) - 1, k>>
                    : k \in 1..n}]
  /\ turn' = (turn + n) % NumWorkers
  /\ UNCHANGED <<poolRow, asking, poolFaults>>

\* One call fails: the others' addresses are lost with it, and the top-up ends.
BatchFails ==
  /\ topUp.at = "batch" /\ BatchSize > 0 /\ \A w \in Workers : nextIndex[w] < MaxIndex
  /\ PoolFault
  /\ \E failed \in 1..BatchSize : nextIndex' = [w \in Workers |->
       nextIndex[w] + Cardinality(CallsTo(w, BatchSize) \ {failed})]
  /\ turn' = (turn + BatchSize) % NumWorkers
  /\ topUp' = IdleTopUp
  /\ UNCHANGED <<poolRow, asking>>

First(next) == \A other \in topUp.batch : next[2] <= other[2]

\* Mutant: an address that is in the pool already is put back.
InsertAddressAgain ==
  /\ topUp.at = "insert"
  /\ \E next \in topUp.batch :
       /\ First(next)
       /\ poolRow' = [poolRow EXCEPT ![next[1]] = "free"]
       /\ topUp' = [topUp EXCEPT !.batch = @ \ {next}, !.generated = @ + 1, !.count = @ + 1]
  /\ UNCHANGED <<nextIndex, turn, asking, poolFaults>>

\* addPregeneratedZcashAddress: the address is unique; a duplicate is skipped.
InsertAddress ==
  /\ topUp.at = "insert"
  /\ \E next \in topUp.batch :
       LET rest == [topUp EXCEPT !.batch = @ \ {next}] IN
       /\ First(next)
       /\ IF poolRow[next[1]] = "absent"
          THEN /\ poolRow' = [poolRow EXCEPT ![next[1]] = "free"]
               /\ topUp' = [rest EXCEPT !.generated = @ + 1, !.count = @ + 1]
          ELSE poolRow' = poolRow /\ topUp' = rest
  /\ UNCHANGED <<nextIndex, turn, asking, poolFaults>>

\* The loop's condition.
NextBatch ==
  /\ topUp.at = "insert" /\ topUp.batch = {}
  /\ topUp' = [topUp EXCEPT !.at = "batch"]
  /\ UNCHANGED <<poolRow, nextIndex, turn, asking, poolFaults>>
EndTopUp ==
  /\ topUp.at = "batch" /\ BatchSize <= 0
  /\ topUp' = IdleTopUp
  /\ UNCHANGED <<poolRow, nextIndex, turn, asking, poolFaults>>

\* A statement throws: the top-up ends, with the rest of its batch.
TopUpThrows ==
  /\ topUp.at = "count" \/ (topUp.at = "insert" /\ topUp.batch # {})
  /\ PoolFault /\ topUp' = IdleTopUp
  /\ UNCHANGED <<poolRow, nextIndex, turn, asking>>

\* The poll's timer tops the pool up too.
TopUpTimer ==
  /\ topUp = IdleTopUp /\ NudgeTopUp
  /\ UNCHANGED <<poolRow, nextIndex, turn, asking, poolFaults>>

-----------------------------------------------------------------------------
ResetWorker(w) ==
  /\ PoolFault
  /\ nextIndex' = [nextIndex EXCEPT ![w] = 0]
  /\ UNCHANGED <<poolRow, turn, asking, topUp>>

\* The backend stops and boots.
RestartPool ==
  /\ PoolFault
  /\ turn' = 0 /\ topUp' = IdleTopUp
  /\ asking' = [o \in PoolOrders |->
       [asking[o] EXCEPT !.at = IF @ \in {"claim", "demand"} THEN "failed" ELSE @]]
  /\ UNCHANGED <<poolRow, nextIndex>>

PoolNext ==
  \/ \E o \in PoolOrders : \/ AskAddress(o) \/ DemandAddress(o)
                           \/ DemandAnswered(o) \/ DemandFails(o)
                           \/ \E i \in Indices : ClaimAddress(o, i)
  \/ CountPool \/ BatchAnswered \/ BatchFails \/ InsertAddress \/ NextBatch
  \/ EndTopUp \/ TopUpThrows \/ TopUpTimer
  \/ \E w \in Workers : ResetWorker(w)
  \/ RestartPool

PoolSpec == PoolInit /\ [][PoolNext]_poolVars

-----------------------------------------------------------------------------
(* Property.                                                               *)

\* However the workers collide, start over or fail, two orders have the same
\* address only if one of them had it made on demand (such an address never meets
\* the unique constraint of the pool); and the pool is never stocked beyond its
\* target, though the stock is counted once per top-up and claimed from meanwhile.
PoolAddressesDistinct ==
  /\ \A o, q \in PoolOrders :
       o # q /\ asking[o].at = "given" /\ asking[q].at = "given"
             /\ asking[o].address = asking[q].address
         => ~asking[o].pooled \/ ~asking[q].pooled
  /\ Cardinality(FreeRows) <= PoolTarget
=============================================================================
