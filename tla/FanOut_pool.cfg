SPECIFICATION FairPoolSpec

CONSTANTS
    c1 = c1
    c2 = c2
    c3 = c3
    w1 = w1
    w2 = w2
    Workers = {w1, w2}
    Calls = {c1, c2, c3}
    NoCall = NoCall
    CreditFloor = 2
    AllowExpensive = TRUE
    Modes = {"live"}
    MaxRetries = 1
    Account = 4
    Faults = {"5xx", "cut"}
    MaxRuns = 1
    Cost <- MCCost
    Plan <- OneCallItems

INVARIANTS
    OneBlindInFlight
    BlindSpendsOnce
    PaidPerAttempt
PROPERTIES
    ImplementsForEach
    PoolReturns
