SPECIFICATION LiveSpec
CONSTANTS
    MaxOrders = 2
    Lot = 2
    PartialFills = FALSE
    OtherInstance = FALSE
    MaxControls = 2
    MaxCrashes = 2
INVARIANTS
    TypeOK
    IntentFirst
    LiveOrderIsPending
    CountedOnce
    LedgerMatchesAccount
    FillKept
PROPERTIES
    StoppedSendsNothing
    ClosedStaysClosed
    Settles
    FillReachesLedger
