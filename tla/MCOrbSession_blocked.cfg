SPECIFICATION Spec
CONSTANTS
    RegularBars = 4
    EarlyBars = 3
    BarsPerHour = 2
    FirstDay <- July3
    NumDays = 3
    RangeBars = 1
    MaxOrders = 2
    MaxMishaps = 0
INVARIANT
    BlockedByOwnSession
CHECK_DEADLOCK FALSE
