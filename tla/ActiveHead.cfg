SPECIFICATION Spec
CONSTANTS
    Readers = {r1}
    MaxActivations = 4
    MaxFaults = 2
    MaxCrashes = 2
    MaxRot = 1
CHECK_DEADLOCK FALSE
INVARIANTS
    PointerNeverDangles
    GetSurvivesOneActivation
    ServesWhatIsNamed
