CONSTANTS
    Inputs <- MCInputs
    Dim = 2
    Word = 2
    MaxClasses = 3
    MaxLoadable = 10
    MaxExamples = 10
    MaxShards = 3
    MaxTensor = 12
    MaxBias = 6
    HeaderSize = 4
    MaxDropPercent = 20
    MinRate = 1
    MaxRate = 4
    TargetRate = 2
    MaxChannels = 2
    MaxSeconds = 6
    WaveLen = 8
    Hop = 2
    FrameLen = 4
    FrontPad = 2
    Frames = 4
    NameOrder <- MCNameOrder
SPECIFICATION PipeSpec
INVARIANTS
    StreamedIsSlice
    SplitSound
    PublishedHeadServes
