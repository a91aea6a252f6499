SPECIFICATION RelayFairSpec
CONSTANTS
    a = a
    b = b
    w = w
    x = x
    y = y
    k1 = k1
    k2 = k2
    w1 = w1
    w2 = w2
    Intents = {a, b}
    Signed <- MCSigned
    Workers = {w1}
    AuthKeys = {k1, k2}
    FirstKey = k1
    NoIntent = NoIntent
    BreakerCap = 2
    TxCost = 1
    SlotTtl = 1
    BreakerWindow = 1
    EndOfTime = 3
    MaxTxs = 2
    MaxFaults = 0
CHECK_DEADLOCK FALSE
PROPERTIES
    RotationGoesThrough
