CONSTANTS
  Accounts = {acctA, acctB}
  NoAccount = NoAccount
  UUTokens = {t1, t2}
  EcoCreds = {c1}
  SteamIds = {s1, s2}
  Keys = {k1, k2}
  None = None
  RetryCap = 2
  SaleOrders = {sale1}
  RentOrders = {rent1}
  Foreign = {gift1}
  NoOrder = NoOrder
  AcceptedMax = 1
  Penalties = {1, 2}
  MaxFaults = 2
  OrderIds = {1, 2}
  Days = {1}
  Categories = {knife, rifle}
  Amounts = {1, 2}
  NotBooked = NotBooked
  Rollups = {r1, r2}
  NoRollup = NoRollup
  IncomeBatch = 1
  MaxCorrections = 1
  Leases = {o1, o2}
  SyncFloor = 1
  SyncMargin = 1
  SyncMaxWindow = 3
  AdapterSlack = 1
  Chunk = 1
  PlatformMax = 2
  NoTime = NoTime
  MaxNow = 4
  Params <- CheapParams
  Value = 22
  Markets <- SmallMarkets
  Factors = {100, 120}
  StartRents = {4, 10}
  NoRun = NoRun
  MaxDrifts = 1
  Passwords = {p1, p2}
  Requests = {q1, q2}
  LoginMaxFails = 1
  MaxEpoch = 2
  Bounds = {1, 2}
  Commodities = {h1}
  Editors = {e1, e2}
  NoEditor = NoEditor
  Generated = {g1, g2}
  NoPassword = NoPassword
  Torn = Torn
SPECIFICATION ServicesSpec
INVARIANTS
  ServicesTypeOK MixedOnlyByTornSave InstalledIsStored OnlyAuthorisedGiven
  SubmittedTermsAreSafe CheckedStaysValid PasswordIsDelivered MarkedIsDelivered
PROPERTIES
  SessionsAreAtomic EditsAreAtomic DecisionsApproachTarget
  CooldownIsKept RollupKeepsBook AnchoredSyncCatchesUp
  StoredTokenIsInstalled DeliveredInTheEnd EveryOrderIsBooked LongLeaseIsSeen PriceSettles
