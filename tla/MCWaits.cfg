CONSTANTS
    Video = Video
    Audio = Audio
    MaxDisc = 4
    NumBuffers = 2
    Clients = {1, 2}
SPECIFICATION MCSpec
PROPERTIES
    Reunited
    FlushReturns
    DriverServed
    VideoFlushReturns
CHECK_DEADLOCK FALSE
