SPECIFICATION FairSpec
CONSTANTS
    UserFds = {1, 2}
    TunnelFds = {3, 4}
    Parts = 2
    MsgLen = 2
    Rounds = 2
    ContentLength <- SomeLengths
    MaxLine = 3
    MaxConns = 2
INVARIANTS
    TypeOK
    NoGaps
    NoReset
PROPERTIES
    Served
CHECK_DEADLOCK FALSE
