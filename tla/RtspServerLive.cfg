SPECIFICATION FairSpec

CONSTANTS
    NumSlots = 1
    MaxClients = 1
    Fds <- Fds2
    TlsEnabled = TRUE
    MaxForeign = 1
    MaxBadHandshakes = 1
    MaxLostTeardowns = 1

INVARIANTS
    CapacityNeverLost

PROPERTIES
    ClientsReclaimed

\* A destroyed server takes no further step.
CHECK_DEADLOCK FALSE
