SPECIFICATION
    Spec
CONSTANTS
    Clients = {k1, k2}
    Questions = {"many", "few", "none"}
    Found <- MCFound
    Initial = {64}
    Total = {64, 128}
    Additional = {64, 512}
    MaxEntries = 2
    TTL = 1
    MaxTokens = 3
    MaxRestarts = 1
    Requests = {r1, r2, r3}
    Names = {n1}
    Parts = 2
    NoFile = NoFile
    MaxUploadFaults = 2
    Users = {u1, u2}
    Commands = {c1, c2}
    Addresses = {a1}
    Capacity = 2
    Refill = 1
    Corrupt = Corrupt
    Down = Down
    MaxIssued = 3
    MaxDamages = 1
    Slots = {s1, s2}
    MaxBatches = 4
    MaxCallFaults = 2
    page = page
    pass1 = pass1
    pass2 = pass2
    reindex = reindex
    Pages = {page}
    Passes = {pass1, pass2}
    Reindexers = {reindex}
    PerPage = 2
    MaxExtractions = 3
    MaxFaults = 2
SYMMETRY
    Symmetry
CHECK_DEADLOCK
    FALSE
INVARIANTS
    PromiseIsKept
    AcceptedStays
    TokensHold
    CallsAreAccountedFor
    OneExtraction
    IndexFollows
    FactsAreOnRecord
