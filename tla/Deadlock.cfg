SPECIFICATION Spec
CONSTANTS
  Pids = {1, 2}
  Reqs = {r1, r2}
  NoReq = NoReq
  NoRef = NoRef
  ChainLock = ChainLock
  Payments = {}
  Apps = {app1}
  app1 = app1
  d1 = d1
  d2 = d2
  AppOwner <- MCAppOwner
  MaxUpsets = 0
  Intents = {i1}
  Amounts = {60000}
  FeePolicies <- MCFeePolicies
  AppPolicy <- MCAppPolicy
  NoApp = NoApp
  Allowlist = {}
  Adjusts = {}
  Deposits = {d1, d2}
  DepositQuote <- MCDepositQuote
  MinNet = 10000
  Credits = {}
  MintAmounts = {}
  FaucetCap = 100000
  FaucetCalls = 2
  PayQuote <- MCPayQuote
  RefundIds = {}
  RefundAmounts = {}
INVARIANTS
  DeadlockFree
