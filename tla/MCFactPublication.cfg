\* Two workers, a website that has the form, seems to have lost it, or tells nothing, and
\* one request, approval or job that dies.
SPECIFICATION FairSpec
CONSTANTS
    c0 = c0
    c1 = c1
    c2 = c2
    Url <- MCUrl
    Address <- MCAddress
    Common <- MCCommon
    Alphabetical <- MCAlphabetical
    Entry <- MCEntry
    MaxPages = 5
    Signal = "quote_or_booking_form_present"
    Content = {c0, c1, c2}
    Site <- MCSite
    NoContent = NoContent
    NoFact = NoFact
    Worker = {w1, w2}
    Decision = {"published"}
    MaxObs = 3
    MaxEvents = 1
INVARIANTS
    TypeOK
PROPERTIES
    UnvalidatedIsDemoted
    MisattributedIsDemoted
    PublishableIsOwed
CHECK_DEADLOCK FALSE
