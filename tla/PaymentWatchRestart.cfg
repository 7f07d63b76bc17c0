\* One crash at any point and notes without a usable time.
SPECIFICATION Spec
CONSTANTS
  Records = {r1, r2}
  NearLaunches = {}
  Notes = {n1, n2}
  Txids = {n1, n2}
  TxOf <- MCOwnTx
  Addresses = {a1}
  Amounts = {1}
  Patched = FALSE
  WorkersRepeat = TRUE
  Styles <- MCBare
  Grace = 0
  RepeatWindow = 0
  OrderExpiry = 1
  HardMax = 2
  MaxTime = 4
  MaxSpent = 0
  MaxRestarts = 1
  NoAddr = NoAddr
  NoRecord = NoRecord
  NoWatch = NoWatch
  NoNote = NoNote
SYMMETRY MCSymmetry
INVARIANTS
  SeededNotesExcluded
  NotAbandonedEarly
PROPERTIES
  HardLifetime
