SPECIFICATION MCAccountsSpec
CONSTANTS
  Keys = {k1, k2}
  k1 = k1
  k2 = k2
  Founder = k1
  NoKey = NoKey
  Calls = {call1}
  call1 = call1
  PermIds = {p1}
  PermScope <- MCPermScope
  NoPerm = NoPerm
  Modules = {m1}
  Admins = {a1, a2}
  FeeLimits = {3}
  NetworkFees = {2}
  MaxFees = {3}
  Values = {0, 1}
  TopUps = {6}
  MaxTtl = 1
  MaxPermTtl = 1
  MaxGen = 1
  MaxBatchOps = 2
  Horizon = 1
  MaxLog = 3
  Wealth = 6
  Pids = {pid1}
  pid1 = pid1
  Addresses <- MCAddresses
  PassKeys = {k1, k2}
  SessionKeys = {s1}
  Officers = {a1, a2}
  SvmFees = {2}
  SvmCaps = {3}
  Amounts = {2}
  Gifts = {8}
  VaultRent = 1
  SmallRent = 1
  SvmTtl = 0
  SessionTtl = 1
  Inactivity = 1
  CloseGrace = 1
  MaxEpoch = 2
  MaxOfficers = 2
  SvmHorizon = 2
  MaxNonce = 4
  Lamports = 8
  MaxRevenue = 4
  MetaLists <- MCMetaLists
  PassedLists <- MCPassedLists
  Tails <- MCTails
  MintTails <- MCTails
  MaxMetas = 3
  MaxProtected = 2
  MaxCalls = 2
  MaxUpgrades = 1
  MaxEffects = 1
  Wired <- MCWired
  Callable <- MCCalls
  Chains <- MCChains
  Clusters <- MCClusters
  MaxSigned = 2
  d1 = d1
  s1 = s1
  s2 = s2
  Spellings <- MCSpellings
  Salts <- MCSalts
  StrayHashes <- MCStrayHashes
  Issuers = {d1}
  SignerLists <- MCSignerLists
  Scopes <- MCScopes
  OzIds = {1, 2}
  Untils = {0}
  Versions = {1, 2}
  FnLimit = 2
  ContractLimit = 1
  NameLimit = 1
  Financial = {"transfer"}
  Harmless = {"make_move"}
INVARIANT LifetimeFeesBounded
SYMMETRY AdminSymmetry
\* The contracts idle until somebody calls them.
CHECK_DEADLOCK FALSE
