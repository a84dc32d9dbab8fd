SPECIFICATION FairSpec
CONSTANTS
    Workspaces = {w1}
    MaxTrain = 0
    MaxConvert = 0
    MaxDelete = 2
    MaxRecent = 2
    MaxRing = 2
    BroadcastCap = 2
    Clients = {c1}
    MaxJobs = 3
    MaxLeases = 1
    MaxEvents = 2
CHECK_DEADLOCK FALSE
INVARIANTS
    WorkspaceDeleteExclusive
    StreamContiguous
    CleanCloseIsComplete
PROPERTIES
    KnownStreamsEnd
