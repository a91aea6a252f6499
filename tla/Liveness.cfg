SPECIFICATION PollingSpec
CONSTANTS
  Pids = {1, 2}
  Reqs = {r1, r2}
  NoReq = NoReq
  NoRef = NoRef
  ChainLock = ChainLock
  Payments = {p1}
  Apps = {app1}
  app1 = app1
  d1 = d1
  d2 = d2
  AppOwner <- MCAppOwner
  MaxUpsets = 1
  Intents = {}
  Amounts = {60000}
  FeePolicies <- MCFeePolicies
  AppPolicy <- MCAppPolicy
  NoApp = NoApp
  Allowlist = {}
  Adjusts = {q1}
  Deposits = {}
  DepositQuote <- MCDepositQuote
  MinNet = 10000
  Credits = {}
  MintAmounts = {}
  FaucetCap = 100000
  FaucetCalls = 2
  PayQuote <- MCPayQuote
  RefundIds = {}
  RefundAmounts = {}
PROPERTIES
  PaidIsCredited
  RequestsEnd
