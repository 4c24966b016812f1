SPECIFICATION Spec
CHECK_DEADLOCK FALSE

CONSTANTS
    youtube = youtube
    twitch = twitch
    Targets <- One
    Malformed = {}
    SleepCovers = TRUE
    MaxFaults = 1

INVARIANTS
    HeaderFirst
