\* One run that may raise, while it is polled and its criteria are edited.
SPECIFICATION FairSpec
CONSTANTS
    Worker = {w1}
    Api = {a1}
    Business = {b1}
    Signal <- MCSignal
    MissingSite = "missing"
    Service = {"site"}
    Weight <- MCWeight
    MinScore = 5
    Finding <- MCOneFinding
    PoolSize = 1
    WindowSize = 1
    Batch = 1
    MaxRuns = 1
    MaxEdits = 1
    MaxAttempts = 2
    MaxCrashes = 0
    CanRaise = TRUE
    Watched = TRUE
    Expandable = {TRUE, FALSE}
INVARIANTS
    TypeOK
    ReadyIsFull
PROPERTIES
    RunsSettle
CHECK_DEADLOCK FALSE
