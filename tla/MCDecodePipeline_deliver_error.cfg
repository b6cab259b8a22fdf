SPECIFICATION FairSpec
CONSTANTS
    Configurations <- DeliveryFails
    NumDecoder = 3
    NumVpp = 3
    DecoderNeeds = 2
    DecoderDelay = 1
    AsyncDepth = 2
    MaxFaults = 1
PROPERTY ProgramEnds
CHECK_DEADLOCK FALSE
