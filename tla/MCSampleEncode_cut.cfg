SPECIFICATION Spec
CONSTANTS
    Configurations <- CuttingWell
    NumFrames = 3
    MaxPasses = 2
    NumSurfaces = 3
    Pools = {0, 1, 2}
    PoolSize <- AsyncDepths
    Jobs <- JobNumbers
    NoTask = 0
INVARIANT CutFileStartsWithIDR
