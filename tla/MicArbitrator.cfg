SPECIFICATION Spec
CONSTANTS
    NMics = 2
    Channels = {0, 1}
    Whitelist <- TwoMics
    Widths = {1, 2}
    MaxLevel = 3
    HNum = 3
    HDen = 2
    Dwell = 2
    FailoverAfter = 1
    MaxEnv = 2
CHECK_DEADLOCK FALSE
INVARIANTS
    DemuxInBounds
    ResamplerNeverGlues
PROPERTIES
    AutoTracksLoudest
    FindsWorkingMic
