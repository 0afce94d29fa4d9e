SPECIFICATION FairSpec
CONSTANTS
    Lengths <- Four
    MaxLine = 6
    MinLeft <- Below2
INVARIANTS
    TypeOK
    WholeDatagrams
PROPERTIES
    AllDelivered
CHECK_DEADLOCK FALSE
