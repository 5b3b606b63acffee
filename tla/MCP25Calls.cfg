SPECIFICATION FairSpec
CONSTANTS
    g1 = g1
    g2 = g2
    Talkgroups = {g1, g2}
    NoId = NoId
    FrameLossThreshold = 1
    Configurations <- MCConfigurations
INVARIANTS
    TypeOK
    CallsClosed
    LossIsWatched
    CallsAreTimed
PROPERTY RfCallEnds
