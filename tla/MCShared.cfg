CONSTANTS
    d1 = d1
    d2 = d2
    a1 = a1
    a2 = a2
    Decoders = {d1, d2}
    Apps = {a1, a2}
    NoThread = NoThread
    MaxHold = 2
    Rewiring = TRUE
    HolderPauses = FALSE
    Frames = {1, 2, 3}
    None = 0
    Clients = {1}
    Reserve = 1
    MaxRefs = 1
    Plugins = {{1}, {2}}
    Streams = {11, 12}
    App = 3
    Renderer = 4
    MaxAliases = 2
    Video = Video
    Audio = Audio
    MaxDisc = 4
SPECIFICATION MCSpec
SYMMETRY Symmetry
INVARIANTS
    CountsExact
    AtomicExclusive
    NoLostWakeup
    LocksExact
    FlushedAway
    FreedWithLastUse
    AppliedInOrder
    EffectFirst
CHECK_DEADLOCK FALSE
