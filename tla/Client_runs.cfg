SPECIFICATION Spec
CONSTANTS
    seed = seed
    c1 = c1
    c2 = c2
    c3 = c3
    w1 = w1
    w2 = w2
    Workers = {w1, w2}
    Calls = {seed, c1, c2, c3}
    NoCall = NoCall
    CreditFloor = 2
    AllowExpensive = FALSE
    Modes = {"live", "offline"}
    MaxRetries = 1
    Account = 8
    Faults = {"5xx", "noheader"}
    MaxRuns = 2
    Seed = seed
    SeedCost = 5
    Cost <- MCCost

INVARIANTS
    PaidOncePerRun
    ReceiptsReconcile
    StoredHasReceipt
    RespendBounded
PROPERTIES
    CachedNeverCharged
SYMMETRY MCSymmetry
