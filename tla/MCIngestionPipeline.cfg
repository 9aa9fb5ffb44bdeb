\* Safety, with every fault, over two files and one restart.
SPECIFICATION Spec
CONSTANTS
    notes = notes
    paper = paper
    Files = {notes, paper}
    MaxBatchSize = 2
    MaxSaves = 2
    MaxQueue = 2
    DailyCap = 1
    IngestCap = 1
    MaxRestarts = 1
    Faults = {"missed", "agent", "empty", "throw", "record", "wording"}
INVARIANTS
    NothingLeftBehind
    DeletionsOrphanTheirPages
\* The user may stop changing files, and then nothing is left to do.
CHECK_DEADLOCK FALSE
