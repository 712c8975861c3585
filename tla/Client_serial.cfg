SPECIFICATION Spec

CONSTANTS
    seed = seed
    c1 = c1
    c2 = c2
    c3 = c3
    w1 = w1
    Workers = {w1}
    Calls = {seed, c1, c2, c3}
    NoCall = NoCall
    CreditFloor = 1
    AllowExpensive = TRUE
    Modes = {"live"}
    MaxRetries = 1
    Account = 8
    Faults = {"net", "noheader", "garbled", "429", "5xx", "4xx", "disk"}
    MaxRuns = 1
    Seed = seed
    SeedCost = 5
    Cost <- MCCost

INVARIANTS
    TypeOK
    WireKeepsFloor
    EstimateMatchesAccount
    PaidIsKeptOrReported

SYMMETRY MCSymmetry
