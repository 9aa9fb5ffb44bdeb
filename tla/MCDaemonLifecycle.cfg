SPECIFICATION FairSpec
CONSTANTS
    d1 = d1
    d2 = d2
    s1 = s1
    none = none
    Daemons = {d1, d2}
    NoDaemon = none
    Stoppers = {s1}
    N = 2
    MaxLaunches = 2
    MaxFreezes = 1
    MaxRejects = 1
INVARIANTS
    OneDaemon
    Findable
    ShutdownIsComplete
PROPERTIES
    StopsWhenTold
\* Every process may be over.
CHECK_DEADLOCK FALSE
