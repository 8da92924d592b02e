SPECIFICATION Spec
CONSTANTS
    r1 = r1
    r2 = r2
    e1 = e1
    e2 = e2
    f1 = f1
    Local = local
    None = None
    External = {x1}
    Scope <- MCScope
    StartScope <- MCStartScope
    Experiment <- MCExperiment
    RunOf <- MCRunOf
    DoneAtStart <- MCDoneAtStart
    MaxMoves = 1
    MaxReviews = 2
    MaxDecisions = 1
CHECK_DEADLOCK FALSE
INVARIANTS
    TypeOK
    ApprovalBinds
    LoadedReviewOfThisRun
PROPERTIES
    DecisionsNeverGoBack
    DeskBecomesFree
