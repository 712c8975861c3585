SPECIFICATION Spec

CONSTANTS
    seed = seed
    c1 = c1
    w1 = w1
    Workers = {w1}
    Calls = {seed, c1}
    NoCall = NoCall
    CreditFloor = 1
    AllowExpensive = TRUE
    Modes = {"live"}
    MaxRetries = 1
    Account = 8
    Faults = {"garbled"}
    MaxRuns = 1
    Seed = seed
    SeedCost = 5
    Cost <- MCCost

INVARIANTS
    EveryResponseKept
