SPECIFICATION Spec
CONSTANTS
    Agents <- MCAgents
    MaxTurns = 2
    MaxRetries = 1
    MaxFaults = 1
    MaxJumps = 1
INVARIANTS
    TypeOK
    ExecutedAsDecided
    HistoryAnswered
    LimitsHold
PROPERTY
    TurnEnds
CHECK_DEADLOCK FALSE
