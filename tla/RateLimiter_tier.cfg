SPECIFICATION LimiterSpec
CONSTANTS
    Workers = {1}
    PerSec = 12
    PerMin = 250
    Second = 2
    Minute = 60
    Horizon = 1
    TierPerSec = 15
INVARIANT
    UnderTier
