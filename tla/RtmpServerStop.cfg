SPECIFICATION BothSpec
CHECK_DEADLOCK FALSE

CONSTANTS
    Conns = {c1, c2}
    MaxConnections = 1
    MaxFrames = 1
    AppLen = 4
    UrlLen = 29
    KeyLen = 8
    ConfigChunk = 256
    Parts = {"threads"}
    FrameLens <- SomeFrames
    Timestamps <- SomeTimes
    FramesPushed = 1

PROPERTY StopEnds
