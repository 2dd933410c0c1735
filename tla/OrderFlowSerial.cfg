SPECIFICATION FairSpec
CONSTANTS
    Seat = {s1}
    Key = {k1, k2}
    Proc = {p1}
    NoKey = NoKey
    HoldDuration = 1
    MaxPerOrder = 1
    MaxToken = 2
    MaxTime = 3
    MaxRefunds = 2
INVARIANTS
    NoRefundOfFulfilledOrder
PROPERTIES
    ChargedIsResolved
CHECK_DEADLOCK FALSE
