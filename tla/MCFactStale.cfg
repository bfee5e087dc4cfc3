\* One worker, a website that always answers, and never changes.
SPECIFICATION ScheduledSpec
CONSTANTS
    c0 = c0
    c1 = c1
    c2 = c2
    Url <- MCUrl
    Address <- MCAddress
    Common <- MCCommon
    Alphabetical <- MCAlphabetical
    Entry <- MCEntry
    MaxPages = 5
    Signal = "quote_or_booking_form_present"
    Content = {c1}
    Site <- MCSiteOne
    NoContent = NoContent
    NoFact = NoFact
    Worker = {w1}
    Decision = {}
    MaxObs = 2
    MaxEvents = 0
PROPERTIES
    StaleIsRefreshed
CHECK_DEADLOCK FALSE
