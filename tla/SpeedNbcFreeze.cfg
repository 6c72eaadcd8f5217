CONSTANTS
    Decoders = {1}
    Apps = {3}
    NoThread = 0
    MaxHold = 2
    Rewiring = FALSE
    HolderPauses = TRUE
    Stoppers = {}
    Rewirers = {}
    Feeders = {}
    Speeds = {0, 1}
    Normal = 1
    LiveOn = 101
    LiveOff = 102
    None = 100
    Gapless = FALSE
    MaxGranted = 3
    MaxNest = 2
SPECIFICATION SpeedSpec
CHECK_DEADLOCK FALSE
INVARIANT
    RevokerHasHolder
