SPECIFICATION Spec
CONSTANTS
    Ts = 4
    MaxLength = 9
    Orders <- BothOrders
INVARIANTS
    NeighborsKept
    ValueWritten
CHECK_DEADLOCK FALSE
