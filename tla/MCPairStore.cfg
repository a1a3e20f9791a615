SPECIFICATION MCSpec
CONSTANTS
    Agents = {a1, a2, a3}
    Codes = {c1, c2, c3}
    MaxOpenWindows = 2
    PairWindow = 2
    AskedExpiries = {0, 1, 2, 4, 9}
    MaxTime = 3
    NoWindow = NoWindow
    NoCode = NoCode
    NoAgent = NoAgent
    Devices = {d1, d2}
    Clients = {p1, p2}
    LANKeys = {l1}
    MaxPaired = 1
    MaxChanges = 3
    MaxFailures = 1
    MaxStarts = 2
    Keys = {k1, k2, k3}
    MaxBuckets = 1
    Capacity = 2
    Refill = 1
    KeepFor = 3
    SweepGap = 1
    Skew = 1
    MaxLimiterTime = 7
INVARIANTS
    TypesOK
    NothingForgotten
    SweepIsUnseen
PROPERTIES
    OneShotSpec
    ClosesOnlyOwn
    SameAfterRestart
CHECK_DEADLOCK FALSE
