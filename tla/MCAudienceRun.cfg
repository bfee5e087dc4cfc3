\* Two runs matched by two workers; nobody polls.
SPECIFICATION Spec
CONSTANTS
    Worker = {w1, w2}
    Api = {a1}
    Business = {b1, b2}
    Signal <- MCSignal
    MissingSite = "missing"
    Service = {"site"}
    Weight <- MCWeight
    MinScore = 5
    Finding <- MCFinding
    PoolSize = 2
    WindowSize = 1
    Batch = 1
    MaxRuns = 2
    MaxEdits = 0
    MaxAttempts = 3
    MaxCrashes = 2
    CanRaise = FALSE
    Watched = FALSE
    Expandable = {TRUE, FALSE}
SYMMETRY MCSymmetry
INVARIANTS
    PartialIsExhausted
    ActiveIsServed
PROPERTIES
    DeliveredIsFinal
    DismissedStaysOut
CHECK_DEADLOCK FALSE
