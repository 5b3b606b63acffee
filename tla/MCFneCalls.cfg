SPECIFICATION FairSpec
CONSTANTS
    p1 = p1
    p2 = p2
    p3 = p3
    t1 = t1
    t2 = t2
    Peers = {p1, p2, p3}
    Talkgroups = {t1, t2}
    NxdnTalkgroups = {t1}
    Parrots = {t2}
    Radios = {r1, r2}
    NoSrc = NoSrc
    Excluded <- ThirdExcluded
    ParrotGrantDemand = TRUE
    MaxFrames = 3
INVARIANTS
    TypeOK
    ParrotOneSource
    ParrotWaits
PROPERTIES
    NoMixedVoice
    RtpKeptDuringCalls
    DemandLeads
    ParrotPlays
