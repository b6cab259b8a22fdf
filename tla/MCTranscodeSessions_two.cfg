SPECIFICATION Spec
CONSTANTS
    NumEnc = 2
    Surfaces = {s1, s2}
    NoSurface = NoSurface
    NumFrames = 2
    AsyncDepth = 1
    FrameLimit <- FirstLimited
    DecDelay = 0
    EncDelay = 0
    Joined = TRUE
    SoftRecovery = FALSE
    MaxTries = 1
    MaxFaults = 1
INVARIANT TypeOK
INVARIANT LockedCountsHolders
INVARIANT FramesInOrder
INVARIANT OutputComplete
INVARIANT EndedSessionHoldsNothing
INVARIANT EverySinkTold
PROPERTY NoOverwrite
SYMMETRY SurfaceSymmetry
