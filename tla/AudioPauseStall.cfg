CONSTANTS
    Setters = {1}
    Flushers = {}
    Loop = 4
    Free = 0
    NumBuffers = 2
SPECIFICATION Spec
INVARIANT PlaysOn
CHECK_DEADLOCK FALSE
