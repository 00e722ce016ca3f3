SPECIFICATION Spec
CONSTANTS
    Word = 65536
    SeqMod = 2
    DiscardedMod = 2
    EventRecords <- PackedRecords
    BufSizes = {256}
    ContentOffsets = {96}
    Garbage = {7}
    MaxCalls = 3
    MaxClock = 2
    MaxPackets = 0
    AsyncFlush = FALSE
    DisabledClose = TRUE
    CanDisable = TRUE
    CanFill = TRUE
    RealtimeClock = FALSE
INVARIANT
    PacketsAreClosed
CHECK_DEADLOCK FALSE
