SPECIFICATION Spec
CONSTANTS
    Configurations <- RenderingWell
    NumDecoder = 3
    NumVpp = 3
    DecoderNeeds = 2
    DecoderDelay = 1
    AsyncDepth = 2
    MaxFaults = 0
INVARIANT SurfaceAlwaysFound
