SPECIFICATION PaymentsSpec
CONSTANTS
  Pids = {1, 2}
  Reqs = {r1, r2}
  NoReq = NoReq
  NoRef = NoRef
  ChainLock = ChainLock
  Payments = {p1}
  Apps = {app1}
  app1 = app1
  d1 = d1
  d2 = d2
  AppOwner <- MCAppOwner
  MaxUpsets = 1
  Intents = {}
  Amounts = {60000}
  FeePolicies <- MCFeePolicies
  AppPolicy <- MCAppPolicy
  NoApp = NoApp
  Allowlist = {}
  Adjusts = {q1}
  Deposits = {}
  DepositQuote <- MCDepositQuote
  MinNet = 10000
  Credits = {c1, c2, c3}
  MintAmounts = {40000, 50000}
  FaucetCap = 100000
  FaucetCalls = 2
  PayQuote <- MCPayQuote
  RefundIds = {x1, x2}
  RefundAmounts = {0, 50000}
  Events = {"e"}
  Dispatchers = {r1, r2}
  Nobody = Nobody
  LeaseTime = 2
  PostTime = 1
  MaxBackoff = 2
  MaxAttempts = 2
  MaxReplays = 1
  OutboxHorizon = 4
  Tabs = {r1, r2}
  Methods = {"google"}
  FamilyCap <- OneCap
  RefreshTtl = 2
  MaxDevices = 2
  MaxSessions = 3
  SessionHorizon = 2
  Passkeys = {x1, x2}
  Devices = {r1, r2}
  Challenges = {x1, x2}
  ChallengeTtl = 1
  MaxAuthorities = 2
  PasskeyHorizon = 2
  ann = ann
  bob = bob
  Accounts = {ann, bob}
  Pages = {d1, d2}
  Asks = {r1, r2}
  Offers <- MCOffers
  NoAccount = NoAccount
  MaxTroubles = 1
  MaxChoices = 1
  MaxApprovals = 2
INVARIANTS
  DeliveredWasReceived
  AccessAsAllowed
  PaidIffCredited
  LimitsKept
  ApprovalsHonoured
  ChainIntact
PROPERTIES
  ClosedStaysClosed
SYMMETRY PaySymmetry
