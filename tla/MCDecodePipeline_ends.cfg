SPECIFICATION FairSpec
CONSTANTS
    Configurations <- EndingConfigurations
    NumDecoder = 3
    NumVpp = 3
    DecoderNeeds = 2
    DecoderDelay = 1
    AsyncDepth = 2
    MaxFaults = 1
PROPERTY ProgramEnds
