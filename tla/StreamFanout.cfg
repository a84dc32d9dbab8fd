SPECIFICATION Spec
CONSTANTS
    Clients = {near, far}
    Uds = {near}
    MaxConn <- MCMaxConn
    Strict = {"tcp"}
    ChanCap = 2
    Pull = 3
    Frame = 2
    Backlog = 3
    LagLimit = 4
    Period = 3
    MaxHead = 9
    MaxDials = 1
CHECK_DEADLOCK FALSE
INVARIANTS
    SlotsExact
    ClientSeesNoGap
    PacketsUnbroken
PROPERTIES
    EncoderFollowsDemand
