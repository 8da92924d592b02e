SPECIFICATION FairSpec
CONSTANTS
    Context = {a, b}
    Start = a
    External = {x}
    None = None
    MaxMoves = 2
    MaxEdits = 1
    MaxGenerations = 2
    MaxSaves = 1
    MaxActs = 4
INVARIANTS
    TypeOK
    HalfOnlyWhileWriting
    FlagsMatchRequests
    ApprovalGivenHere
PROPERTIES
    StreamKeepsOthersText
    EditorBecomesFree
CHECK_DEADLOCK FALSE
