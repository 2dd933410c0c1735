SPECIFICATION Spec
CONSTANTS
    Fan = {f1, f2}
    Event = {1}
    Tenant = {1}
    TenantOf <- OneClub
    Proc = {p1, p2}
    Worker = {w1, w2}
    NoFan = NoFan
    NoEvent = 0
    Seats = 2
    MaxPerTick = 2
    ListLimit = 1
    Faulty = {1}
    CanCrash = TRUE
    MaxSeq = 3
SYMMETRY Symmetry
INVARIANTS
    TypeOK
    NoDoubleAdmit
PROPERTIES
    FirstComeFirstServed
    NobodyLost
CHECK_DEADLOCK FALSE
