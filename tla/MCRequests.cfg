CONSTANTS
    Decoders = {1}
    Apps = {2, 3}
    NoThread = 0
    MaxHold = 2
    Rewiring = TRUE
    HolderPauses = TRUE
    Stoppers = {3}
    Rewirers = {3}
    Feeders = {2}
    Speeds = {0, 1}
    Normal = 1
    LiveOn = 101
    LiveOff = 102
    None = 100
    Gapless = TRUE
    MaxGranted = 2
    MaxNest = 1
    Queues = {11, 12}
    Doomed = {12}
    Senders = {1}
    Flushers = {11, 21}
    Reusable = 1
    MaxSent = 2
    Osds = {1}
    Subtitles = {2}
    NumSlots = 2
    NumObjects = 2
    MaxVpts = 1
SPECIFICATION MCSpec
VIEW View
CHECK_DEADLOCK FALSE
INVARIANTS
    OneChanger
    LockRunWoken
    FlushComplete
    RefsExact
    EventsKept
