SPECIFICATION FairSpec
CONSTANTS
    Channels = {c1, c2}
    Talkgroups = {t1, t2}
    Radios = {r1, r2}
    NoCh = NoCh
    NoDst = NoDst
    NoSrc = NoSrc
    GrantTimeout = 2
    VerifyReg = TRUE
    VerifyAff = TRUE
    CheckGrantSrcId = TRUE
INVARIANTS
    TypeOK
    ChannelsConserved
    TablesInStep
    CountsExact
    AffiliatedAreRegistered
PROPERTIES
    ImplementsPool
    GrantsStable
    UntouchedGrantExpires
