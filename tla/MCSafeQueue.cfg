SPECIFICATION Spec
CONSTANTS
    Pushers = {p1, p2}
    Consumer = manager
    Values = {v1, v2}
    None = none
    MaxLen = 3
INVARIANTS
    TypeOK
    NoLostWakeup
    PopFindsValue
PROPERTIES
    ImplementsFifo
