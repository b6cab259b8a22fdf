SPECIFICATION FairSpec
CONSTANTS
    NumEnc = 2
    Surfaces = {s1, s2}
    NoSurface = NoSurface
    NumFrames = 1
    AsyncDepth = 1
    FrameLimit <- NoLimit
    DecDelay = 0
    EncDelay = 0
    Joined = TRUE
    SoftRecovery = FALSE
    MaxTries = 1
    MaxFaults = 1
PROPERTY AllSessionsEnd
