SPECIFICATION FairSpec
CONSTANTS
    MaxAsk = 2
    MaxConns = 5
    MayQuit = FALSE
    MaxFault = 0
    MaxBreak = 0
PROPERTIES
    PortMapped
CHECK_DEADLOCK FALSE
