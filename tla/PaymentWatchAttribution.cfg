\* Attribution by memo and amount, without crashes: unpatched wallet, where an
\* address tells nothing, two amounts, notes with and without a memo, an order
\* and a NEAR launch.
SPECIFICATION Spec
CONSTANTS
  Records = {r1, r2}
  NearLaunches = {r2}
  Notes = {n1, n2}
  Txids = {n1, n2}
  TxOf <- MCOwnTx
  Addresses = {a1}
  Amounts = {1, 2}
  Patched = FALSE
  WorkersRepeat = TRUE
  Styles <- MCMemoOrNot
  Grace = 0
  RepeatWindow = 0
  OrderExpiry = 1
  HardMax = 2
  MaxTime = 2
  MaxSpent = 0
  MaxRestarts = 0
  NoAddr = NoAddr
  NoRecord = NoRecord
  NoWatch = NoWatch
  NoNote = NoNote
SYMMETRY MCNoteSymmetry
INVARIANTS
  PaymentsTaken
  NoteDeliveredOnce
PROPERTIES
  ExactPaymentNotCrossed
