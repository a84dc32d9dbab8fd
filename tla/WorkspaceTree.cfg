CONSTANTS
    w1 = w1
    w2 = w2
    n1 = n1
    n2 = n2
    c1 = c1
    c2 = c2
    None = None
    Trainer = Trainer
    Workspaces = {w1, w2}
    Names = {n1, n2}
    Clients = {c1, c2}
    First = w1
    FirstName = n1
    MaxUploads = 1
    MaxOps = 3
    MaxTrains = 1
    MaxFaults = 1
    MaxCrashes = 1
SPECIFICATION Spec
CHECK_DEADLOCK FALSE
INVARIANTS
    AckedDurable
    DeletedStaysDeleted
    CurrentHeadMatchesData
PROPERTIES
    LeftoversGo
