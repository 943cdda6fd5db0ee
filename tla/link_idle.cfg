SPECIFICATION Spec
CONSTANTS
    Sessions = {s1}
    MaxPresses = 2
    Uses = {"monitor", "embedded"}
    MaxEvents = 3
    MaxMisreads = 0
    MaxDrops = 0
PROPERTIES SilenceIsNotLoss
CHECK_DEADLOCK FALSE
