SPECIFICATION MCSpec
CONSTANTS
    Wallets = {1, 2}
    Tokens = {1, 2, 3}
    Worthy = {1}
    MaxWallets = 1
    MaxRuns = 3
    Pairs <- Seen
    Spent <- Buys

    seed = seed
    c1 = c1
    Processes = {1, 2}
    Keys = {seed, c1}
    Files = {1, 2, 3, 4, 5, 6}
    Bodies <- Responses

    Workers = {1, 2}
    PerSec = 2
    PerMin = 4
    Second = 2
    Minute = 3
    Horizon = 5

INVARIANTS
    PlanIsCeiling
    PlanIsExact
    RerunIsFree
    WholeUnlessContended
    EndedPutsSettle
    WindowBounded
    SleepersMissNothing
