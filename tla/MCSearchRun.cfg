\* One search of two businesses, one worker, one fault, and three requests of the user,
\* news of a business or failures of refreshes: the batch holds one business less than
\* are pending.
SPECIFICATION FairSpec
CONSTANTS
    Search = {c1}
    Business = {b1, b2}
    Worker = {w1}
    NoSearch = NoSearch
    ResultCount = 1
    BatchLimit = 1
    b1 = b1
    b2 = b2
    thin = thin
    full = full
    Evidence = {thin, full}
    Fit <- MCFit
    NoEvidence = NoEvidence
    MaxFaults = 1
    MaxEdits = 3
INVARIANTS
    TypeOK
    ExpandingIsServed
    VerdictFitsEvidence
PROPERTIES
    FinalIsFinal
    SearchEnds
CHECK_DEADLOCK FALSE
