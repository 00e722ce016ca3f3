SPECIFICATION Spec
CONSTANTS
    Word = 65536
    SeqMod = 2
    DiscardedMod = 2
    EventRecords <- PackedRecords
    BufSizes = {256}
    ContentOffsets = {96}
    Garbage = {7}
    MaxCalls = 4
    MaxClock = 2
    MaxPackets = 1
    AsyncFlush = FALSE
    DisabledClose = FALSE
    CanDisable = TRUE
    CanFill = TRUE
    RealtimeClock = FALSE
INVARIANTS
    TypeOK
    InsidePacket
    PacketsAreClosed
    TimestampsOrdered
    DiscardsArePlaced
PROPERTIES
    DiscardIsNecessary
    ImplementsDataStream
CHECK_DEADLOCK FALSE
