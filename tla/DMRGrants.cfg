SPECIFICATION Spec
CONSTANTS
    Channels = {c1, c2}
    Talkgroups = {t1}
    Radios = {r1, r2}
    NoCh = NoCh
    NoDst = NoDst
    NoSrc = NoSrc
    GrantTimeout = 2
    TsccCh = c1
    VerifyReg = TRUE
    CheckGrantSrcId = TRUE
INVARIANTS
    TypeOK
    TsccKept
    PoolComplete
    PayloadIsGranted
