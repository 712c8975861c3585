SPECIFICATION Spec

CONSTANTS
    c1 = c1
    c2 = c2
    c3 = c3
    c4 = c4
    c5 = c5
    c6 = c6
    w1 = w1
    w2 = w2
    Workers = {w1, w2}
    Calls = {c1, c2, c3, c4, c5, c6}
    NoCall = NoCall
    CreditFloor = 2
    AllowExpensive = TRUE
    Modes = {"live"}
    MaxRetries = 0
    Account = 5
    Faults = {"429"}
    MaxRuns = 1
    Seed = NoCall
    SeedCost = 1
    Cost <- MCCost

INVARIANTS
    OvershootBounded

SYMMETRY MCSymmetry
