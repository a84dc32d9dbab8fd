SPECIFICATION Spec
CONSTANTS
    MaxHeads = 2
    MaxPublishes = 4
    MaxFaults = 2
    MaxCrashes = 2
CHECK_DEADLOCK FALSE
INVARIANTS
    IndexNeverDangles
    AckedIsDurable
    BootConverges
PROPERTY
    ImplementsHeadStore
