SPECIFICATION FairSpec
CONSTANTS
    Key = {k1, k2}
    Proc = {p1, p2, p3}
    NoKey = NoKey
    Limit = 3
    Window = 3
    Flaky = {k2}
    MaxCount = 5
INVARIANTS
    AtMostTwiceTheLimit
    EveryKeyExpires
PROPERTY RefusalEnds
CHECK_DEADLOCK FALSE
