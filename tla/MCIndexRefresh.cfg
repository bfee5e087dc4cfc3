\* Two refreshes of one source, planned at most twice each, two workers, one fault and
\* three requests of the administrator.
SPECIFICATION Spec
CONSTANTS
    Source = {s1}
    Worker = {w1, w2}
    NoRow = NoRow
    MaxRoots = 2
    MaxPlans = 2
    MaxAdmin = 3
    MaxFaults = 1
SYMMETRY MCSymmetry
INVARIANTS
    TypeOK
    GateCoversBatch
    OneFetchPerSource
CHECK_DEADLOCK FALSE
