SPECIFICATION Spec

CONSTANTS
    w1 = w1
    w2 = w2
    w3 = w3
    w4 = w4
    x = x
    token = token
    Wallets = {w1, w2, w3}
    Outsiders = {x}
    Tokens = {token}
    Spent <- OneEach
    Pairs <- OneChain
    Answers <- OneRelation
    FlowRows <- Flows
    Floor = 3
    MaxWallets = 0
    Failing = FALSE
    Interruptible = TRUE

INVARIANT
    ClearedAreIndependent
