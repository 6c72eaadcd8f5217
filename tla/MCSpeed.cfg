CONSTANTS
    Decoders = {1}
    Apps = {3, 4, 5}
    NoThread = 0
    MaxHold = 2
    Rewiring = FALSE
    HolderPauses = FALSE
    Stoppers = {5}
    Rewirers = {}
    Feeders = {}
    Pausers = {3}
    Speeds = {0, 1, 2}
    Normal = 1
    LiveOn = 101
    LiveOff = 102
    None = 100
    Gapless = FALSE
    MaxGranted = 3
    MaxNest = 2
SPECIFICATION MCSpec
INVARIANTS
    AudioFollows
    LatestWins
    RunLocked
    RevokerHasHolder
PROPERTIES
    SpeedReturns
    TicketReturns
