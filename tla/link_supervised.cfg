SPECIFICATION Spec
CONSTANTS
    Sessions = {s1}
    MaxPresses = 2
    Uses = {"monitor", "embedded"}
    MaxEvents = 3
    MaxMisreads = 1
    MaxDrops = 1
INVARIANTS
    TypeOK
    OneLink
    StatusTellsTheLink
    SlotNotBehind
PROPERTIES
    LinkSpec
    LostLinkRetried
    CallsReturn
    DisconnectObeyed
CHECK_DEADLOCK FALSE
