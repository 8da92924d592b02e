SPECIFICATION Spec
CONSTANTS
    MaxOrders = 1
    Lot = 2
    PartialFills = TRUE
    OtherInstance = FALSE
    MaxControls = 1
    MaxCrashes = 0
INVARIANTS
    FillKept
