CONSTANTS
    Mode = "async"
    QueueCap = 2
    Tasks = {t1, t2}
    Run = run
    Batches <- DeltaFirst
    MaxBatch = 2
    MaxCp = 2
SPECIFICATION FairSpec
INVARIANTS TypeOK WritesAreAnchored NoSilentLoss ReadsComplete
PROPERTIES NoCheckpointPastFailure RunReturns ImplementsContract
