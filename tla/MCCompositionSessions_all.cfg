SPECIFICATION Spec
CONSTANTS
    NumFrameForAlloc = 2
    NumDec = 2
    NumFrames <- LongAndShort
    DecDelay = 1
    DecHolds = 1
    AsyncDepth = 2
    FrameLimit = 9
    MaxFaults = 1
INVARIANT CompositionTypeOK
INVARIANT ReferencesBalanced
INVARIANT ComposedInStep
INVARIANT OutputComplete
CHECK_DEADLOCK FALSE
