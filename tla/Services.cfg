SPECIFICATION ServicesSpec
CONSTANTS
  w1 = w1
  w2 = w2
  u1 = u1
  u2 = u2
  Deposits = {d1}
  Desks = {w1, w2}
  Instance <- OwnInstance
  NoDeposit = NoDeposit
  Net = 1
  MaxClawbacks = 2
  MaxOutages = 1
  Transfers = {t1}
  Clerks = {w1, w2}
  Process <- OwnInstance
  NoTransfer = NoTransfer
  MaxBreaks = 1
  Claims = {r1}
  Tellers = {w1, w2}
  Site <- OwnInstance
  NoClaim = NoClaim
  MaxTroubles = 2
  Pids = {u1, u2, p3}
  Bootstrap = {u1, u2}
  Logins <- People
  MaxTickets = 2
  Claimants = {w1, w2}
  Verifiers = {v1}
  CodeRows = 2
  OtpMaxAttempts = 2
  Nothing = Nothing
  Browsers = {b1}
  Shops = {w1, w2}
  SsoCodes = {c1}
  SsoTtl = 1
  VerifiedFor = 1
  SecretFor = 1
  GraceFor = 1
  MaxSecrets = 2
  MaxEdits = 2
  SsoHorizon = 1
  Users = {u1, u2}
  XpApps = {a1, a2}
  XpEvents = {"e"}
  Intakes = {w1, w2}
  Reward = 1
  NoCap = 9
  Caps = {1}
  InitialCaps <- OrgCapOrNone
  Policies = {1, 2}
  Threshold <- TwoCurves
  MaxJournal = 2
  MaxSwitches = 1
  Apis = {w1, w2}
  Payers = {u1}
  Prices = {10, 12, 15}
  Rent = 4
  NewRates = {2500}
  Headrooms = {0, 9}
  Rails = {"svm", "evm"}
  CacheTtl = 1
  QuoteTtl = 2
  MaxTtl = 4
  LossCap = 3
  MaxPolicies = 3
  MaxCalls = 1
  MaxTurns = 2
  FeeHorizon = 2
  Keys = {"global", "app"}
  Catalog = {"global"}
  Migrated = {"none", "junk"}
  Hosts = {w1, w2}
  Managers = {u1, u2}
  SettingsTtl = 1
  HistoryPage = 1
  Workloads <- EditorsOrGates
  Handles = {h1, h2}
  Squatters = {u1, u2}
  ClaimKeys = {k1}
  ClaimCalls = {w1, w2}
  Rulings = {w1, w2}
  BulkThreshold = 0
  MaxReports = 1
  Crowds <- ClaimsOrRulings
INVARIANTS
  MoneyBacked
  OneIdentityEach
  CodesSpentOnce
  XpAccounted
  OfficeKept
SYMMETRY Alike
CHECK_DEADLOCK FALSE
