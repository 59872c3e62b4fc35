SPECIFICATION FairSpec
CONSTANTS
    p1 = p1
    c1 = c1
    c2 = c2
    Publishers = {p1}
    Clients = {c1, c2}
    Blocks <- MCDenseBlocks
    MaxBlocks = 4
    ArgOrders <- LeftToRight
INVARIANTS
    NoEventMissed
    NeverReordered
    AtMostTwice
    CompleteUpToPreviousClaim
    LaterEventsStored
PROPERTY EventuallyDelivered
CHECK_DEADLOCK FALSE
