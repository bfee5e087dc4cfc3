\* Two workers, an enqueueing session and an administrator over two rows.
SPECIFICATION Spec
CONSTANTS
    refresh = refresh
    message = message
    collect = collect
    Worker = {w1, w2}
    Client = {c1}
    Work = {refresh, message}
    NoWork = NoWork
    Keyed = {refresh}
    DataWork = {refresh}
    Urgency <- MCUrgency
    MaxJobs = 2
    MaxAttempts = 2
    StaleAfter = 2
    RetryDelay = 1
    MaxCrashes = 1
    MaxRetries = 1
SYMMETRY MCSymmetry
INVARIANTS
    TypeOK
    SingleExecution
PROPERTIES
    ImplementsLease
CHECK_DEADLOCK FALSE
