\* Attribution by address and its fairness: patched wallet, payouts that spend
\* notes; no symmetry, as the property is a liveness one.
SPECIFICATION FairSpec
CONSTANTS
  Records = {r1, r2}
  NearLaunches = {}
  Notes = {n1, n2}
  Txids = {n1, n2}
  TxOf <- MCOwnTx
  Addresses = {a1, a2}
  Amounts = {1}
  Patched = TRUE
  WorkersRepeat = FALSE
  Styles <- MCTimed
  Grace = 0
  RepeatWindow = 0
  OrderExpiry = 1
  HardMax = 2
  MaxTime = 2
  MaxSpent = 1
  MaxRestarts = 0
  NoAddr = NoAddr
  NoRecord = NoRecord
  NoWatch = NoWatch
  NoNote = NoNote
PROPERTIES
  PaymentDetected
