SPECIFICATION FairSpec
CONSTANTS
    daemon = daemon
    lint = lint
    ingest = ingest
    query = query
    heal = heal
    Instances <- MC_Instances
    Callers <- MC_Callers
    ChainOf <- MC_ChainOf
    Verifying <- MC_Verifying
    Faults = {"reject", "short", "sync", "cut"}
    MaxAppends = 2
INVARIANTS
    VerifyPasses
    AckedDurable
    StartNeverRefused
    LossIsDetected
PROPERTIES
    ImplementsHashChain
    CompleteLinesKept
    AppendSettles
