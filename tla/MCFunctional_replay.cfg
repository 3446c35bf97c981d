SPECIFICATION Spec
CONSTANTS
    Programs <- MCPrograms
    MaxTurns = 2
    MaxResumes = 2
    MaxFaults = 2
INVARIANTS
    TypeOK
    SameCall
    NotRedone
    AnswersAligned
    CursorInQueue
    PreviousIsLastSaved
PROPERTY
    RunReturns
CHECK_DEADLOCK FALSE
