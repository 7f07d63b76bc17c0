\* A note that paid a NEAR launch, after a restart.
SPECIFICATION Spec
CONSTANTS
  Records = {r1, r2}
  NearLaunches = {r1}
  Notes = {n1}
  Txids = {n1}
  TxOf <- MCOwnTx
  Addresses = {a1}
  Amounts = {1}
  Patched = FALSE
  WorkersRepeat = TRUE
  Styles <- MCBare
  Grace = 0
  RepeatWindow = 0
  OrderExpiry = 1
  HardMax = 2
  MaxTime = 3
  MaxSpent = 0
  MaxRestarts = 1
  NoAddr = NoAddr
  NoRecord = NoRecord
  NoWatch = NoWatch
  NoNote = NoNote
INVARIANTS
  NoSecondRecordCredited
