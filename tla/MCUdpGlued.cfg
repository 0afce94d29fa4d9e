SPECIFICATION Spec
CONSTANTS
    Lengths <- Two
    MaxLine = 4
    MinLeft <- Below2
INVARIANTS
    TakenApart
CHECK_DEADLOCK FALSE
