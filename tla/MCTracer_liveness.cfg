SPECIFICATION FairSpec
CONSTANTS
    Word = 65536
    SeqMod = 2
    DiscardedMod = 2
    EventRecords <- PackedRecords
    BufSizes = {256}
    ContentOffsets = {96}
    Garbage = {7}
    MaxCalls = 3
    MaxClock = 1
    MaxPackets = 2
    AsyncFlush = TRUE
    DisabledClose = TRUE
    CanDisable = TRUE
    CanFill = TRUE
    RealtimeClock = FALSE
PROPERTIES
    FrozenWhileDisabled
    SectionIsExclusive
    CallReturns
    RecordIsDelivered
CHECK_DEADLOCK FALSE
