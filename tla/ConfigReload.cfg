SPECIFICATION Spec
CONSTANTS
    Clients = {c1, c2}
    CatalogueMics = {p1, p2}
    MockMic = mock0
    Hops = {11024, 11025, 44100}
    TopKs = {0, 64}
    Keep = keep
    Broken = broken
    Nobody = nobody
    Worker = worker
    MaxPosts = 2
    MaxEdits = 1
    MaxFaults = 1
    MaxCrashes = 1
CHECK_DEADLOCK FALSE
INVARIANTS
    NoLostUpdate
    AckedIsDurable
PROPERTIES
    ReloadConverges
