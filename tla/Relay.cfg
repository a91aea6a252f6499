SPECIFICATION RelayingSpec
CONSTANTS
    a = a
    b = b
    w = w
    x = x
    y = y
    k1 = k1
    k2 = k2
    w1 = w1
    w2 = w2
    Intents = {a, b, w, x, y}
    Signed <- MCSigned
    Workers = {w1, w2}
    AuthKeys = {k1, k2}
    FirstKey = k1
    NoIntent = NoIntent
    BreakerCap = 2
    TxCost = 1
    SlotTtl = 0
    BreakerWindow = 1
    EndOfTime = 1
    MaxTxs = 2
    MaxFaults = 1
    f = f
    g = g
    h = h
    c1 = c1
    c2 = c2
    Grants = {f, g, h}
    Terms <- MCTerms
    Oversized = {f}
    Swapped = FALSE
    Servers = {v1}
    Claimants = {c1, c2}
    Oldest = c1
    Unsigned = Unsigned
    Networks = {"svm", "evm"}
    Endow <- MCEndow
    ActHorizon = 1
    MaxSends = 2
    MaxSlips = 1
    ann = ann
    bob = bob
    People = {ann, bob}
    Newcomers = {bob}
    AppScopes = {s1}
    Fetches = {w1, w2}
    Absent = Absent
    MaxRows = 3
    MaxStarts = 1
    MaxActs = 4
    Users = {ann, bob}
    Unborn = {bob}
    Windows = {w1, w2}
    Openings <- MCOpenings
    NoUser = NoUser
    MaxMishaps = 1
    MaxSwitches = 1
SYMMETRY RequestSymmetry
CHECK_DEADLOCK FALSE
INVARIANTS
    OneIntentPerSlot
    LandedSlotsConsumed
    RevokedAfterRotation
    BreakerTrips
    ActiveIsOnChain
    CookiesSound
    OnlyAsAllowed
