SPECIFICATION FairSpec
CONSTANTS
    Configurations <- AllConfigurations
    NumFrames = 2
    MaxPasses = 2
    NumSurfaces = 3
    Pools = {0, 1, 2}
    PoolSize <- AsyncDepths
    Jobs <- JobNumbers
    NoTask = 0
INVARIANT EncodeTypeOK
INVARIANT RingIsContiguous
INVARIANT BitstreamsInOrder
INVARIANT NothingLost
INVARIANT ViewsToTheirWriter
INVARIANT NoOverwrite
INVARIANT LossEndsWithIDR
PROPERTY RingImplementsQueue
PROPERTY Ends
