SPECIFICATION MCSpec

CONSTANTS
    Processes = {p1, p2, p3}
    Inodes = {1, 2, 3}
    Linked <- Orders
    Manual <- MainsModules
    MaxModules = 4
    Foreign = {"metrics", "onvif"}
    Chans = {0, 1}
    Contents <- Files
    MinFps = 5
    MaxFps = 25
    MaxEdits = 2
    PerSecond = 1
    Streams = {0, 1}
    Size <- Pictures
    Configs <- Overlays
    TextSize <- Texts
    Lasting <- Spans
    ZoneLists <- ZoneFiles
    Monitored = 1
    ZoneRegions <- Regions
    MaxSeconds = 2
    Settings <- Cameras
    Lights <- Daylight
    PhotoMaxFaults = 2
    Cooldown = 2
    MinTime = 1
    MotionTime = 7
    MotionMaxFaults = 1
    i1 = i1
    i2 = i2
    i3 = i3
    c1 = c1
    c2 = c2
    Ids = {i1, i2, i3}
    Clients = {c1, c2}
    RingSize = 2
    CacheSize = 1
    Window = 2
    Pause = 1
    DiscoveryTime = 5
    MaxAhead = 1
    MaxBack = 1

INVARIANTS
    SecondNeedsTornPath
    ImagesAnswered
    RatesWithinSensor
    NothingLeft
    RefreshedUnlessTwin
    CleanupSound
    BoxesInFrame
    ProbesAnswered

PROPERTIES
    EditsArrive
    FollowsLight
    MotionDiscipline

CHECK_DEADLOCK FALSE
