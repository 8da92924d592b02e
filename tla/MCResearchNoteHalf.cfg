SPECIFICATION Spec
CONSTANTS
    Context = {a, b}
    Start = a
    External = {x}
    None = None
    MaxMoves = 2
    MaxEdits = 0
    MaxGenerations = 1
    MaxSaves = 0
    MaxActs = 4
INVARIANT
    NoSavableHalf
CHECK_DEADLOCK FALSE
