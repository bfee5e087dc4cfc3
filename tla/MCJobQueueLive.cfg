\* No crash, two sessions racing to enqueue one key: everything queued is settled in the end.
SPECIFICATION FairSpec
CONSTANTS
    refresh = refresh
    message = message
    collect = collect
    Worker = {w1, w2}
    Client = {c1, c2}
    Work = {refresh, message}
    NoWork = NoWork
    Keyed = {refresh}
    DataWork = {}
    Urgency <- MCUrgency
    MaxJobs = 2
    MaxAttempts = 2
    StaleAfter = 1
    RetryDelay = 1
    MaxCrashes = 0
    MaxRetries = 0
INVARIANTS
    ActiveKeyUnique
PROPERTIES
    QueuedJobsSettle
CHECK_DEADLOCK FALSE
