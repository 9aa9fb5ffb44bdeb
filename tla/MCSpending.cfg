SPECIFICATION Spec
CONSTANTS
    op1 = op1
    op2 = op2
    lint = lint
    shared = shared
    DaemonOps = {op1, op2}
    Passes = {lint}
    Shared = shared
    DailyCap = 1
    Estimate = 1
    ExpansionEstimate = 0
    MaxCost = 1
    MaxCalls = 3
    MaxDays = 1
    MaxFaults = 1
SYMMETRY Interchangeable
INVARIANTS
    LedgerIsComplete
    CacheAgrees
PROPERTIES
    AdmittedWithinCap
