SPECIFICATION ServicesSpec
CONSTANTS
  Minters = {w1, w2}
  Approved = {w1}
  Owners = {w2}
  Mints = {m1, m2}
  MintNotes = {n1, n2}
  Quantities = {2}
  Supply = 4
  WalletLimit = 2
  FreeLimit = 1
  MaxMintFaults = 1
  NoMint = NoMint
  Addresses = {u1, u2}
  Handles = {zed, odd}
  Holders = {w1}
  Applications = {r1, r2, r3}
  Sends = {s1, s2}
  Reads = {h1}
  MaxTries = 2
  MaxWalletFaults = 1
  FeeTokens = {t1}
  Platform = platform
  Payers = {p1, p2}
  CreatorFee = 1
  PlatformFee = 1
  MinPayout = 1
  MaxPayout = 1
  MaxTrades = 2
  PoolOrders = {a1, a2, a3}
  AddressWorkerUrls = 2
  PoolTarget = 3
  TopUpSize = 3
  TopUpAttempts = 4
  MaxIndex = 3
  MaxPoolFaults = 1
  Extensions = {x1, x2}
  Phrases = {ph1}
  Challenges = {ch1, ch2, ch3}
  Logins = {lg1, lg2, lg3}
  Kinds = {"buy", "sell", "create", "launch", "mint", "item"}
  Again = {"buy", "sell", "create"}
  Records = {o1, o2}
  NoRecord = NoRecord
  MaxSends = 3
  MaxQuotes = 2
  Pieces = {b1, b2}
  Filters = {"listed", "all"}
  MaxPurchases = 2
  MaxFetches = 1
  MaxCrafts = 2
  Attempts = {k1, k2}
  XAccounts = {c1, c2}
  NoAttempt = NoAttempt
  NoAccount = NoAccount
  PendingTtl = 1
  VerifiedTtl = 1
  MaxXTime = 2
  MaxReads = 2
INVARIANTS
  ServicesTypeOK MintedAsPaid MintLimitsKept WhitelistTold
  FeesAccounted NothingPaidTwice ReadyOnSeedWallet PoolAddressesDistinct LoginsAgree
  PageTellsTruth PaidOnceUnlessTold MarketTellsTruth HandlesProven
VIEW MCView
\* Requests, notes and challenges are used up.
CHECK_DEADLOCK FALSE
