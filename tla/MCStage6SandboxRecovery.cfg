SPECIFICATION Spec
CONSTANTS
    Batch = {b1, b2}
    Size = 1
    RecoversAtStart = TRUE
    MaxCrashes = 3
INVARIANTS
    RetriedOnce
    OneActiveBatch
