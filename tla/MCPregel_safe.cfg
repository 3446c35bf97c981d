CONSTANTS
    END = END
    NoArg = NoArg
    na = na  nb = nb  nc = nc  nd = nd  ne = ne  sx = sx  sy = sy
    Graphs <- Safe
SPECIFICATION Spec
INVARIANTS TypeOK AppliedOnce EverySuccessorRuns JoinNeverEarly JoinFires AnswersInOrder AnswersKept AnswerDelivered NodeNotRerunAfterError BreakpointPassed
