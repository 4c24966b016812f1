SPECIFICATION Spec

CONSTANTS
    NumSlots = 2
    Fds <- Fds3
    MaxSessions = 2
    MaxNals = 2
    MaxFragments = 2
    DelayCovers = TRUE
    MaxSweeps = 1
    MaxLostReplies = 1

INVARIANTS
    SlotsOwnSockets
    OrderlyMediaOnly
