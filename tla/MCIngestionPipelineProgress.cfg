\* Progress under a daily budget of one call, in a process that keeps running.
SPECIFICATION FairSpec
CONSTANTS
    notes = notes
    paper = paper
    Files = {notes, paper}
    MaxBatchSize = 2
    MaxSaves = 2
    MaxQueue = 2
    DailyCap = 1
    IngestCap = 1
    MaxRestarts = 0
    Faults = {"agent"}
PROPERTIES
    EveryFileIsTakenUp
CHECK_DEADLOCK FALSE
