SPECIFICATION Spec

CONSTANTS
    NumSlots = 3
    MaxClients = 2
    Fds <- Fds3
    TlsEnabled = FALSE
    MaxForeign = 1
    MaxBadHandshakes = 0
    MaxLostTeardowns = 1

INVARIANTS
    AtMostMaxClients
