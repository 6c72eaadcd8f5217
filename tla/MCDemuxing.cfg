CONSTANTS
    NumSides = 2
    App = App
    Video = Video
    Audio = Audio
    Jumpers = {2}
    Nobody = Nobody
    Punctual = TRUE
    Pool = 2
    MaxChunks = 1
    MaxRequests = 2
    g1 = g1
    g2 = g2
    Getters = {g1, g2}
    Capacity = 5
    AllocLimit = 2
    GrowLimit = 2
    MaxSent = 3
    ListCapacity = 7
    ListAllocLimit = 4
    ListGrowLimit = 4
    Length = 6
    BufSize = 3
    MaxRead = 5
SPECIFICATION MCSpec
SYMMETRY Symmetry
VIEW View
CONSTRAINT Unbraked
INVARIANTS
    Synced
    FinishedIsPlayed
    PairsInOrder
    WaitersTold
    PlayHasDemuxer
    Accounted
    NoSleepOnData
PROPERTIES
    LastSideEnds
    KeepsPromise
    ImplementsPool
    FreshInputKept
