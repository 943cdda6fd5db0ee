SPECIFICATION Spec
CONSTANTS
    Slots <- TwoSlots
    Statuses <- TwoStatuses
    MaxClock = 3
    QueueCap = 2
    Warning = 2
    Hard = 3
    InitialBackoff = 0
    MaxBackoff = 1
    Periodic = TRUE
    DebugRaw = FALSE
INVARIANTS
    TypeOK
    LapsDoNotOverlap
    ToldAsPolled
    NothingLeftOpen
PROPERTIES
    StallToldFirst
    BackoffStartsAnew
    SilenceIsGivenUp
    DisconnectEnds
CHECK_DEADLOCK FALSE
