SPECIFICATION SchedulerFairSpec
CONSTANTS
    ten1 = ten1
    ten2 = ten2
    ten3 = ten3
    ten4 = ten4
    ten5 = ten5
    Tenants = {ten1, ten2, ten3}
    GlobalConcurrency = 2
    Cap = 1
    MaxDepth = 2
INVARIANTS
    DrainedIsIdle
PROPERTIES
    NoStarvation
    DrainEnds
CHECK_DEADLOCK FALSE
