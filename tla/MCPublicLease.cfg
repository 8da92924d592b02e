SPECIFICATION LiveSpec
CONSTANTS
    Instance = {i1, i2, i3}
    NoHolder = NoHolder
    DeadHolder = DeadHolder
    Ttl = 2
    Ages <- MCAges
    Floor <- MCFloor
    Timely = FALSE
INVARIANTS
    TypeOK
    NoStaleWrite
PROPERTIES
    AbandonedLeaseTakenOver
