SPECIFICATION Spec
CONSTANTS
    NumEnc = 1
    Surfaces = {s1, s2, s3}
    NoSurface = NoSurface
    NumFrames = 3
    AsyncDepth = 2
    FrameLimit <- NoLimit
    DecDelay = 1
    EncDelay = 1
    Joined = FALSE
    SoftRecovery = TRUE
    MaxTries = 2
    MaxFaults = 1
INVARIANT FramesInOrder
INVARIANT OutputComplete
INVARIANT BitstreamsAccounted
SYMMETRY SurfaceSymmetry
