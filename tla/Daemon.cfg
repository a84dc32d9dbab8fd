SPECIFICATION DaemonSpec
CONSTANTS
    StaleAfter = 2
    AbortAfter = 5
    HealthStale = 5
    MajorBudget = 5
    BgBudget = 1
    OuterBudget = 10
    MaxFailures = 10
    FastFailures = 2
    SlowFailures = 1
    LaunchFiles <- MCLaunchFiles
    Policies <- MCPolicies
    Absent = absent
    Garbled = garbled
    RknnBuild = TRUE
INVARIANTS
    HealthyMeansFrames
    RestartBinds
PROPERTIES
    
    StopEnds
