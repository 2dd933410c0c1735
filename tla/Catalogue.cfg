SPECIFICATION Spec
CONSTANTS
    Tenant = {c1, c2}
    Venue = {v1, v2}
    SeatCategory = {s1}
    Event = {e1, e2}
    Category = {k1, k2}
    Proc = {p1, p2}
    None = None
    Quantity = {1}
    MaxRows = 1
SYMMETRY Symmetry
INVARIANTS
    OnSaleHasInventory
    ParentsShareTenant
CHECK_DEADLOCK FALSE
