CONSTANTS
    Mode = "sync"
    QueueCap = 2
    Tasks = {t1, t2}
    Run = run
    Batches <- DeltaFirst
    MaxBatch = 2
    MaxCp = 3
SPECIFICATION Spec
INVARIANTS WritesAreAnchored ReadsComplete
PROPERTIES NoCheckpointPastFailure ImplementsContract
