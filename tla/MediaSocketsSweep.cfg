SPECIFICATION Spec

CONSTANTS
    NumSlots = 1
    Fds <- Fds2
    MaxSessions = 2
    MaxNals = 1
    MaxFragments = 2
    DelayCovers = TRUE
    MaxSweeps = 1
    MaxLostReplies = 0

INVARIANTS
    OwnMediaOnly
