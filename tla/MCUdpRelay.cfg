SPECIFICATION FairSpec
CONSTANTS
    Fds = {0, 1, 2, 3, 4, 5, 6, 7, 8}
    MaxClient = 4
    Types <- BothRoles
    Listen = 2
    Sends <- TwoAndOne
    MaxTunnels = 3
    MaxReply = 1
    Faults <- AnyFault
INVARIANTS
    TypeOK
    NoMixing
    OnceInOrder
PROPERTIES
    Forwarded
    Replied
    ImplementsTables
CHECK_DEADLOCK FALSE
