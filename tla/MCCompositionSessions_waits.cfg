SPECIFICATION FairSpec
CONSTANTS
    NumFrameForAlloc = 2
    NumDec = 2
    NumFrames <- SameLength
    DecDelay = 1
    DecHolds = 1
    AsyncDepth = 2
    FrameLimit = 9
    MaxFaults = 0
PROPERTY WaitingDecoderGoesOn
CHECK_DEADLOCK FALSE
