SPECIFICATION MCSpec

CONSTANTS
    Buyers = {1, 2, 3}
    Outsiders = {11, 12}
    MaxFunders = 2
    MaxBuyers = 4
    MaxWallets = 4
    Now = 2
    Dumping = {"dumped"}

INVARIANTS
    Forest
    GroupsAreComponents
    ExplainedUnlessSelfFunded
    CensusAgreesWithGroups
    HeadlineCountsWallets
    ExitShown
    LinkShown
    AbsenceSilent
    CleanEarned
    RanksAreOrdinal
    BetterListedFirst
    MoveIsSane
PROPERTIES
    ImplementsPartition
