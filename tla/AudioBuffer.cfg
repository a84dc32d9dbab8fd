SPECIFICATION FairSpec
CONSTANTS
    Capacity = 8
    Readers = {consumer}
    Pausing = {consumer}
    Window <- MCWindow
    Hop <- MCHop
    Backlog <- MCBacklog
    MaxHead = 17
INVARIANTS
    ReadyIsUntorn
PROPERTIES
    ResyncSkipsForward
    ReadersReachLiveEdge
