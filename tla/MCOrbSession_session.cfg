SPECIFICATION Spec
CONSTANTS
    RegularBars = 4
    EarlyBars = 2
    BarsPerHour = 2
    FirstDay <- July2
    NumDays = 3
    RangeBars = 0
    MaxOrders = 5
    MaxMishaps = 1
INVARIANTS
    SlotsInOrder
    SecondBuyIsExplained
    CarriedIsExplained
CHECK_DEADLOCK FALSE
