SPECIFICATION Spec
CONSTANTS
    Word = 65536
    SeqMod = 2
    DiscardedMod = 2
    EventRecords <- TightRecords
    BufSizes = {248}
    ContentOffsets = {96}
    Garbage = {7}
    MaxCalls = 3
    MaxClock = 0
    MaxPackets = 2
    AsyncFlush = FALSE
    DisabledClose = FALSE
    CanDisable = FALSE
    CanFill = TRUE
    RealtimeClock = FALSE
INVARIANT
    InsidePacket
CHECK_DEADLOCK FALSE
