SPECIFICATION Spec

CONSTANTS
    NumSlots = 1
    MaxClients = 1
    Fds <- Fds2
    TlsEnabled = FALSE
    MaxForeign = 0
    MaxBadHandshakes = 0
    MaxLostTeardowns = 0

INVARIANTS
    PauseHolds

\* A destroyed server takes no further step.
CHECK_DEADLOCK FALSE
