SPECIFICATION Spec
CONSTANTS
    Channels = {c1, c2}
    Talkgroups = {t1}
    Radios = {r1}
    NoCh = NoCh
    NoDst = NoDst
    NoSrc = NoSrc
    GrantTimeout = 2
    Threads = {"main", "rest"}
    MaxExtra = 1
INVARIANT
    CountExactAtRest
