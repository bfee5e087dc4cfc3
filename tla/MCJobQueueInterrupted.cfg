\* One crash: is the interrupted row ever recovered?
SPECIFICATION FairSpec
CONSTANTS
    refresh = refresh
    message = message
    collect = collect
    Worker = {w1}
    Client = {c1}
    Work = {refresh}
    NoWork = NoWork
    Keyed = {refresh}
    DataWork = {}
    Urgency <- MCUrgency
    MaxJobs = 1
    MaxAttempts = 2
    StaleAfter = 1
    RetryDelay = 1
    MaxCrashes = 1
    MaxRetries = 0
PROPERTIES
    InterruptedJobsAreRecovered
CHECK_DEADLOCK FALSE
