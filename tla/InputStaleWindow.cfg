CONSTANTS
    Length = 6
    BufSize = 3
    MaxRead = 5
SPECIFICATION Spec
PROPERTY InputKept
CHECK_DEADLOCK FALSE
