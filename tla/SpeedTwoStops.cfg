CONSTANTS
    Decoders = {1}
    Apps = {3, 4, 5}
    NoThread = 0
    MaxHold = 2
    Rewiring = FALSE
    HolderPauses = FALSE
    Stoppers = {4, 5}
    Rewirers = {}
    Feeders = {}
    Speeds = {0, 1}
    Normal = 1
    LiveOn = 101
    LiveOff = 102
    None = 100
    Gapless = FALSE
    MaxGranted = 3
    MaxNest = 2
SPECIFICATION SpeedSpec
CHECK_DEADLOCK FALSE
INVARIANT
    LockRunWoken
