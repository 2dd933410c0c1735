SPECIFICATION Spec
CONSTANTS
    Seat = {s1, s2}
    Key = {k1, k2}
    Proc = {p1, p2}
    NoKey = NoKey
    HoldDuration = 0
    MaxPerOrder = 2
    MaxToken = 2
    MaxTime = 0
    MaxRefunds = 1
SYMMETRY Symmetry
CONSTRAINT InTokenOrder
INVARIANTS
    TypeOK
    OneBuyer
    AllOrNothing
    OutboxMatchesSale
    ChargeFindsItsOrder
PROPERTIES
    ClosedOrdersStayClosed
    LostStaysLost
    LedgerSpec
CHECK_DEADLOCK FALSE
