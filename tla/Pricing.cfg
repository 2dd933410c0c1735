SPECIFICATION Spec
CONSTANTS
    Seat = {1, 2, 3, 4}
    Category = {"vip", "terrace", "guest"}
    CategoryOf <- CategoryOfSeat
    ExpiryOf <- Expiries
    PriceOf <- UsualPrices
    MaxPerOrder <- Limits
    Width = 5
    MaxItems = 5
INVARIANTS
    TotalIsSum
    LimitPerCategory
    ExpiresWithFirstHold
CHECK_DEADLOCK FALSE
