SPECIFICATION Spec
CONSTANTS
    MaxOrders = 3
    Lot = 2
    PartialFills = TRUE
    OtherInstance = FALSE
    MaxControls = 1
    MaxCrashes = 1
INVARIANT
    TradesBacked
