SPECIFICATION Spec
CONSTANTS
    Fds = {0, 3, 4, 5, 6, 7}
    MaxClient = 3
    Listeners <- ServerOnly
    Conns = {c1, c2}
    NoConn = NoConn
    Bytes <- OneOut
    MaxLine = 2
    Faults <- EndsLost
    FreshBits <- Zeroed
    MinOffset <- Below1
SYMMETRY Symmetry
INVARIANTS
    NoMixing
    PairsCloseTogether
