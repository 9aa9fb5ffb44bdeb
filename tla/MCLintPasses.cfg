SPECIFICATION
    FairSpec
CONSTANTS
    NPages = 2
    Score <- MCScore
    Thresholds <- MCThresholds
    Scores <- MCScores
    FixBelow = 40
    DuplicateFrom = 60
    ClusterAbove = 1
    MaxFixes = 1
    t1 = t1
    t2 = t2
    Ticks = {t1, t2}
    MaxTroubles = 1
INVARIANTS
    FailuresAreSpaced
PROPERTIES
    LinksGetRepaired
