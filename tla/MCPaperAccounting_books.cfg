SPECIFICATION FairSpec
CONSTANTS
    Scale = 2
    NoTarget = NoTarget
    MaxOrders = 2
    InitialCash = 4
    Prices = {2}
    Targets = {0, 1}
    MaxCrashes = 1
INVARIANTS
    TypeOK
    BooksBalance
    NoDoubleFill
    FinalOrdersAreBooked
PROPERTIES
    FinalStatusStays
    FillsSpec
    OrdersCatchUp
CHECK_DEADLOCK FALSE
