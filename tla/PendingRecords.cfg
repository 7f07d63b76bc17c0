SPECIFICATION PendingSpec
CONSTANTS
  Launches = {l1, l2}
  Refs = {e1, z1}
  ZecRefs = {z1}
  Requests = {q1, q2}
  Linked = {l1}
  MaxStepAttempts = 2
  MaxLaunchFaults = 1
  NoLaunch = NoLaunch
  NoRef = NoRef
  Creations = {c1, c2}
  Symbols = {s1}
  Settlements = {p1, p2, p3}
  MaxCreationFaults = 1
  NoCreation = NoCreation
  NoSettlement = NoSettlement
  Accounts = {owner, founder, pool, trader}
  Owner = owner
  PlatformAccount = founder
  FounderAccount = founder
  TotalSupply = 3
  FeeBps = 1
  BpsDenominator = 3
  Calls = {k1}
INVARIANTS PendingTypeOK RecordFollowsChain OnePaymentOneLaunch CreationTold FirstBuyOnce SupplyKept
PROPERTIES StrandedStays ImplementsLaunchChain LaunchSettles
\* What waits for a payment may never get one, and what is settled stays so.
CHECK_DEADLOCK FALSE
