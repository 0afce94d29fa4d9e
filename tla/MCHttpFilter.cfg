SPECIFICATION FairSpec
CONSTANTS
    Texts <- ThreeTexts
    Lookalikes <- FirstText
    ContentLength <- Lengths
    MaxChunk = 3
    MaxLine = 2
    MaxConns = 2
INVARIANTS
    TypeOK
    NothingLost
PROPERTIES
    Delivered
CHECK_DEADLOCK FALSE
