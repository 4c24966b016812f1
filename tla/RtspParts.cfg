SPECIFICATION MCSpec

CONSTANTS
    Streams = {0, 1}
    MaxStarts = 3
    Wrap = 7
    Timeout = 2
    TicksPerFrame = 1
    GateSessions = 2
    MaxPlays = 2
    MaxControls = 1
    Room = 10
    Sizes <- AnySizes
    MaxSafe = 18
    MaxNals = 2
    MaxRequests = 1
    TlsSessions = 2
    MaxRetries = 3

INVARIANTS
    KeyOrTimeout
    FrameComplete
    SlotTlsSound
    NothingLeftBehind
    PresentsPair

PROPERTIES
    WaitEnds

CHECK_DEADLOCK FALSE
