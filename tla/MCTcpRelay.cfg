SPECIFICATION FairSpec
CONSTANTS
    Fds = {0, 3, 4, 5}
    MaxClient = 2
    Listeners <- BothRoles
    Conns = {c1}
    NoConn = NoConn
    Bytes <- TwoOut
    MaxLine = 2
    Faults <- AnyFault
    FreshBits <- StaleOrNot
    MinOffset <- Below1
INVARIANTS
    TypeOK
PROPERTIES
    ImplementsPipe
    Delivery
    Teardown
    ImplementsTables
