CONSTANTS
    END = END
    NoArg = NoArg
    na = na  nb = nb  nc = nc  nd = nd  ne = ne  sx = sx  sy = sy
    Graphs <- NewTurn
SPECIFICATION Spec
INVARIANTS JoinFires
