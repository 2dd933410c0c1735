SPECIFICATION Spec
CONSTANTS
    Seat = {s1}
    Key = {k1}
    Proc = {p1, p2}
    NoKey = NoKey
    HoldDuration = 1
    MaxPerOrder = 1
    MaxToken = 1
    MaxTime = 2
    MaxRefunds = 1
SYMMETRY Symmetry
INVARIANTS
    NoRefundOfFulfilledOrder
CHECK_DEADLOCK FALSE
