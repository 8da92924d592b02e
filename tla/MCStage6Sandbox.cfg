SPECIFICATION Spec
CONSTANTS
    Batch = {b1}
    Size = 2
    RecoversAtStart = FALSE
    MaxCrashes = 2
INVARIANTS
    TypeOK
    FinalStatesTrue
    NoDuplicate
PROPERTIES
    FailFast
    KilledStartsNothing
