SPECIFICATION BusySpec
CONSTANTS
    ten1 = ten1
    ten2 = ten2
    ten3 = ten3
    ten4 = ten4
    ten5 = ten5
    Tenants = {ten1, ten2, ten3, ten4, ten5}
    GlobalConcurrency = 2
    Cap = 1
    MaxDepth = 1
PROPERTIES
    NobodyStarves
CHECK_DEADLOCK FALSE
