SPECIFICATION FairSpec
CONSTANTS
    Fan = {f1}
    Event = {1, 2}
    Tenant = {1}
    TenantOf <- OneClub
    Proc = {p1}
    Worker = {w1}
    NoFan = NoFan
    NoEvent = 0
    Seats = 1
    MaxPerTick = 1
    ListLimit = 2
    Faulty = {1}
    CanCrash = FALSE
    MaxSeq = 3
PROPERTIES
    SeatsGoToAdmittedFans
    WaitingEnds
CHECK_DEADLOCK FALSE
