SPECIFICATION Spec
CONSTANTS
    Scale = 2
    NoTarget = NoTarget
    Strategies = {"BUY_AND_HOLD", "MOVING_AVERAGE", "OPENING_RANGE_BREAKOUT"}
    NumBars = 6
    InitialCash = 5
    Prices = {1, 2, 3}
    Window = 2
    OpeningBars = 1
    Percent = 100
INVARIANTS
    NeverNegative
    SellClosesBuy
    OneRoundTrip
    HeldOvernight
    DrawdownIsWorstFall
CHECK_DEADLOCK FALSE
