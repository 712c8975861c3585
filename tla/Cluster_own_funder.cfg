SPECIFICATION Spec

CONSTANTS
    Buyers = {1, 2}
    Outsiders = {11}
    MaxFunders = 2

INVARIANT
    EveryCollapseExplained
