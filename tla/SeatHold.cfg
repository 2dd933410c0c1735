SPECIFICATION FairSpec
CONSTANTS
    Seat = {s1, s2}
    Proc = {p1, p2}
    Worker = {w1}
    NoSeat = NoSeat
    NoProc = NoProc
    HoldDuration = 1
    BatchSize = 1
    BadSeat = {}
    MaxToken = 2
    MaxTime = 4
INVARIANTS
    TypeOK
    TokenNamesOneHold
    WinnerHasTheSeat
    OwnsLockUnlessLapsed
PROPERTIES
    SweepTakesOnlyExpired
    LedgerSpec
    EveryHoldEnds
CHECK_DEADLOCK FALSE
