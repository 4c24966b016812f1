SPECIFICATION FairSpec
CHECK_DEADLOCK FALSE

CONSTANTS
    youtube = youtube
    twitch = twitch
    Targets <- Both
    Malformed = {twitch}
    SleepCovers = FALSE
    MaxFaults = 2

INVARIANTS
    FreedIsUnused
    SocketsAccounted

PROPERTIES
    DestroyReturns
    DeadNoticed
