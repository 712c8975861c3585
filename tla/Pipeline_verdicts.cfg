SPECIFICATION Spec
CONSTANTS
    w1 = w1
    w2 = w2
    w3 = w3
    w4 = w4
    x = x
    token = token
    Wallets = {w1, w2, w3, w4}
    Outsiders = {x}
    Tokens = {token}
    Spent <- Uneven
    Pairs <- TwoChains
    Answers <- SomeRelations
    FlowRows <- Flows
    Floor = 5
    MaxWallets = 3
    Failing = TRUE
    Interruptible = TRUE

INVARIANTS
    CoveredIsComplete
    AccusationsAreTrue
    ExitVerdictsAreTrue
    CompleteRunIsExact
    UninterruptedClearedAreIndependent
SYMMETRY TwinSymmetry
