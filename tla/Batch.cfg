SPECIFICATION BatchFairSpec

CONSTANTS
    b1 = b1
    b2 = b2
    Batches = {b1, b2}
    OpCount <- MCOpCount
    AtomicBatches = {b1}
    SessionUntil <- MCSessionUntil
    Bypassing = {b2}
    Runners = {"w1", "w2"}
    NoBatch = NoBatch
    Window = 1
    Bps <- MCBps
    Prices = {5, 6}
    MaxQuoted = 1
    QuietFrom = 2
    BatchHorizon = 4
    MaxMishaps = 1

INVARIANTS
    PaysNoMoreThanQuoted
    ReceiptsTruthful

PROPERTIES
    BatchesTerminate

CHECK_DEADLOCK FALSE
