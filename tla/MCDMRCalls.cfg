SPECIFICATION FairSpec
CONSTANTS
    g1 = g1
    g2 = g2
    Talkgroups = {g1, g2}
    NoId = NoId
    MaxBlocks = 2
    FrameLossThreshold = 1
    Configurations <- MCConfigurations
INVARIANTS
    TypeOK
    LinkControlKept
    OneVoice
PROPERTIES
    NetCallEnds
    RfCallEnds
