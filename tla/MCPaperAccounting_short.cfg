SPECIFICATION Spec
CONSTANTS
    Scale = 2
    NoTarget = NoTarget
    MaxOrders = 3
    InitialCash = 2
    Prices = {2}
    Targets = {}
    MaxCrashes = 0
INVARIANTS
    NeverShort
CHECK_DEADLOCK FALSE
