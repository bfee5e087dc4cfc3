\* Four requests, two at once, two channels and a change of the evidence.
SPECIFICATION Spec
CONSTANTS
    r1 = r1
    r2 = r2
    Request = {r1, r2}
    Channel = {"email", "sms"}
    NoText = NoText
    NoPackage = NoPackage
    MaxEvidence = 2
    MaxRequests = 4
SYMMETRY MCSymmetry
INVARIANTS
    TypeOK
    TextFitsEvidence
    SentIsContacted
    ContactedOnce
PROPERTIES
    LeadStays
    EditsAreKept
CHECK_DEADLOCK FALSE
