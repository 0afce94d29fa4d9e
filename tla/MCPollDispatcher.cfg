SPECIFICATION Spec
CONSTANTS
    Fds = {3, 4, 5, 6}
    MaxClient = 3
    Listeners <- WithOrWithout
INVARIANTS
    TypeOK
    SlotsOpen
    IndexFindsSlot
    TopCoversSlots
    ListenerKeptUntilFull
