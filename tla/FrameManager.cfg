SPECIFICATION FairSpec

CONSTANTS
    Modules = {m1, m2}
    MaxConsumers = 3
    NumChannels = 1
    MaxFrames = 1

INVARIANTS
    CallbackRegistered
    StoppedMeansStopped

PROPERTIES
    NobodyWaitsForEver
    ImplementsFeed
