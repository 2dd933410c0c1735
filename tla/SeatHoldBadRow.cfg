SPECIFICATION FairSpec
CONSTANTS
    Seat = {s1, s2}
    Proc = {p1}
    Worker = {w1}
    NoSeat = NoSeat
    NoProc = NoProc
    HoldDuration = 1
    BatchSize = 2
    BadSeat = {s1}
    MaxToken = 2
    MaxTime = 3
PROPERTY BadRowBlocksNothing
CHECK_DEADLOCK FALSE
