SPECIFICATION Spec
CONSTANTS
    Channels = {c1, c2}
    Talkgroups = {t1, t2, t3}
    Radios = {r1}
    NoCh = NoCh
    NoDst = NoDst
    NoSrc = NoSrc
    GrantTimeout = 2
    TsccCh = c1
    VerifyReg = FALSE
    CheckGrantSrcId = TRUE
INVARIANT
    SlotsExclusive
