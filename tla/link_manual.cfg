SPECIFICATION Spec
CONSTANTS
    Sessions = {s1}
    MaxPresses = 2
    Uses = {"monitor", "embedded"}
    MaxEvents = 4
    MaxMisreads = 0
    MaxDrops = 0
PROPERTIES ManualDisconnectWins
CHECK_DEADLOCK FALSE
