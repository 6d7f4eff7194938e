CONSTANTS
    Conns = {c1, c2}
    Blank = Blank
    Refusal = Refusal
    Foreign = Foreign
    LockedDown = FALSE
    IntrudedSessions = 1
    NonceTtl = 1
    MaxClockSkew = 0
    RateWindow = 1
    MaxFails = 1
    RecvSlack = 1
    Skews = {0, 2}
    LastArrival = 1
    MaxTime = 2
SPECIFICATION LogonSpec
INVARIANTS TypeOK ApprovalIsWarranted FailuresAreLimited EffectsAreWarranted TileIsCurrent SelectReturns
SYMMETRY LogonSymmetry
CHECK_DEADLOCK FALSE
