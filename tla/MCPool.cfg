CONSTANTS
    Capacity = 9
    AllocLimit = 2
    GrowLimit = 1
    SoftStart = 6
    Threads = {1, 2}
    Waiters = {1}
SPECIFICATION MCSpec
INVARIANTS
    Partition
    CountExact
    WaitersCounted
    NoStranded
PROPERTIES
    EmergencyKept
    PoolServes
