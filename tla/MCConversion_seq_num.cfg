CONSTANTS
    Keywords = {9}
    BadNames <- SomeBadNames
    NoClock = 0
    EnumValues <- SomeValues
    NoStream = 0
    Nodes2 <- SeqNumStreams
    Nodes3 <- NoNodes
SPECIFICATION ConfigSpec
INVARIANT
    EquivalentTraceType
CHECK_DEADLOCK FALSE
