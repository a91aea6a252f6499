SPECIFICATION Spec
CONSTANTS
  Pids = {1, 2}
  Reqs = {r1, r2}
  NoReq = NoReq
  NoRef = NoRef
  ChainLock = ChainLock
  Payments = {}
  Apps = {app1}
  app1 = app1
  d1 = d1
  d2 = d2
  AppOwner <- MCAppOwner
  MaxUpsets = 1
  Intents = {i1, i2}
  Amounts = {60000}
  FeePolicies <- MCFeePolicies
  AppPolicy <- MCAppPolicy
  NoApp = NoApp
  Allowlist = {}
  Adjusts = {q1}
  Deposits = {d1}
  DepositQuote <- MCDepositQuote
  MinNet = 10000
  Credits = {}
  MintAmounts = {}
  FaucetCap = 100000
  FaucetCalls = 2
  PayQuote <- MCPayQuote
  RefundIds = {}
  RefundAmounts = {}
INVARIANTS
  TypeOK
  NoOverdraft
  IssueOnlyIfPaid
  ReplayAgrees
  Conservation
PROPERTIES
  IntentsSettleOnce
  RailIsAtomic
SYMMETRY Symmetry
