SPECIFICATION Spec
CONSTANTS
    Chs <- MCChs
    Graphs <- MCGraphs
    MaxSupersteps = 4
    MaxIds = 12
INVARIANTS
    TypeOK
    ReadsAsSaved
    SeededAsSaved
    StopIsLatest
CHECK_DEADLOCK FALSE
