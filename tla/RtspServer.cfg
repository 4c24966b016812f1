SPECIFICATION Spec

CONSTANTS
    NumSlots = 2
    MaxClients = 2
    Fds <- Fds3
    TlsEnabled = FALSE
    MaxForeign = 1
    MaxBadHandshakes = 0
    MaxLostTeardowns = 0

INVARIANTS
    CountExact
    OwnSockets
    DestroyClosesSessions

PROPERTIES
    PlayDiscipline
