SPECIFICATION Spec
CONSTANTS
    dek1 = dek1
    dek2 = dek2
    dek3 = dek3
    dek4 = dek4
    kek1 = kek1
    kek2 = kek2
    kek3 = kek3
    Keys = {dek1, dek2, dek3, dek4}
    Keks = {kek1, kek2, kek3}
    NoKek = NoKek
    RevokeFrom = {"rotating", "archived"}
    Rollback = FALSE
SYMMETRY Interchangeable
INVARIANTS
    OneActive
    OneKek
    NoDekLost
    RunningDaemonVerifies
CHECK_DEADLOCK FALSE
