SPECIFICATION Spec
CONSTANTS
    Word = 65536
    SeqMod = 2
    DiscardedMod = 2
    EventRecords <- MixedRecords
    BufSizes = {224, 256}
    ContentOffsets = {104}
    Garbage = {7}
    MaxCalls = 3
    MaxClock = 1
    MaxPackets = 2
    AsyncFlush = TRUE
    DisabledClose = FALSE
    CanDisable = TRUE
    CanFill = TRUE
    RealtimeClock = TRUE
INVARIANT
    InsidePacket
    SequenceNumbers
PROPERTY
    ImplementsDataStream
CHECK_DEADLOCK FALSE
