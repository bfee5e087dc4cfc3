\* Two listings in an identity conflict, two workers, a reviewer and an administrator.
SPECIFICATION Spec
CONSTANTS
    l1 = l1
    l2 = l2
    Listing = {l1, l2}
    Unset = Unset
    Alike = {}
    Profile <- MCProfile
    MaxBusinesses = 2
    Worker = {w1, w2}
    NoJob = NoJob
    Review = {"accept", "reject"}
    Withheld = {"needs_review"}
    Copies <- MCCopies
    MaxReviews = 1
    MaxFaults = 1
SYMMETRY MCSymmetry
CONSTRAINT MCBound
INVARIANTS
    TypeOK
    ReviewGate
    RejectionStands
    NoItemStranded
    OneBusinessPerListing
    ConflictIsReviewed
CHECK_DEADLOCK FALSE
