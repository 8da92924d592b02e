SPECIFICATION FairSpec
CONSTANTS
    paper = paper
    prod = prod
    Config <- MCConfig
    DefaultDraft = paper
    Start <- MCStart
    MaxMoves = 1
    MaxVersions = 3
    MaxCommands = 2
    MaxReads = 2
INVARIANTS
    TypeOK
    OneCommandAtATime
PROPERTIES
    SharedShowsLatest
    UntouchedFormChangesNothing
    ConsoleCatchesUp
