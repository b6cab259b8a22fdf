SPECIFICATION Spec
CONSTANTS
    Configurations <- AllConfigurations
    NumDecoder = 3
    NumVpp = 3
    DecoderNeeds = 2
    DecoderDelay = 1
    AsyncDepth = 2
    MaxFaults = 2
INVARIANT TypeOK
INVARIANT SurfacesPartitioned
INVARIANT RenderLockCountsOutputs
INVARIANT FramesInOrder
INVARIANT CountersMeasureDelivery
INVARIANT DeliveryFindsSurface
INVARIANT FullQueueHasSurface
INVARIANT SurfaceFoundWithoutThread
INVARIANT FinishedMeansComplete
PROPERTY NoOverwrite
CHECK_DEADLOCK FALSE
