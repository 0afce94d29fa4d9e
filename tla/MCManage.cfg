SPECIFICATION FairSpec
CONSTANTS
    MaxAsk = 2
    MaxConns = 8
    MayQuit = TRUE
    MaxFault = 1
    MaxBreak = 1
INVARIANTS
    TypeOK
    NoMutualWait
    Survives
    RefusedOnlyAfterQuit
    RequestKept
    RightTunnel
PROPERTIES
    Answered
    QuitEnds
CHECK_DEADLOCK FALSE
