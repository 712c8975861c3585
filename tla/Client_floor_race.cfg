SPECIFICATION PoolSpec

CONSTANTS
    c1 = c1
    c2 = c2
    c3 = c3
    w1 = w1
    w2 = w2
    Workers = {w1, w2}
    Calls = {c1, c2, c3}
    NoCall = NoCall
    CreditFloor = 2
    AllowExpensive = TRUE
    Modes = {"live"}
    MaxRetries = 0
    Account = 4
    Faults = {}
    MaxRuns = 1
    Cost <- MCCost
    Plan <- OneCallItems

INVARIANTS
    WireKeepsFloor
