SPECIFICATION FairSpec
CONSTANTS
    Note = {1, 2, 3, 4}
    Bad = {1}
    Worker = {w1}
    BatchSize = 2
    MaxFaults = 2
    MaxMails = 3
INVARIANTS
    TypeOK
    SentWasDelivered
    OneMailEach
PROPERTIES
    MarkedIsFinal
    GoodMailIsDelivered
CHECK_DEADLOCK FALSE
