SPECIFICATION Spec
CONSTANTS
    Structures <- SomeStructures
    Starts = {0, 5}
    ByteSizes = {8, 24}
    MaxLength = 2
INVARIANTS
    LiteralOffset
    KnownOffset
    PositionIndependent
CHECK_DEADLOCK FALSE
