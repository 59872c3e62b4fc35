SPECIFICATION Spec
CONSTANTS
    p1 = p1
    c1 = c1
    c2 = c2
    Publishers = {p1}
    Clients = {c1}
    Blocks <- MCBlocks
    MaxBlocks = 4
    ArgOrders <- AnyOrder
INVARIANT NoEventMissed
CHECK_DEADLOCK FALSE
