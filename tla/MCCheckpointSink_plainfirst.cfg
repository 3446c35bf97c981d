CONSTANTS
    Mode = "sync"
    QueueCap = 1
    Tasks = {t1}
    Run = run
    Batches <- AnyOrder
    MaxBatch = 2
    MaxCp = 2
SPECIFICATION Spec
INVARIANTS ReadsComplete
