SPECIFICATION Spec
CONSTANTS
    Callers = {c1}
    None = None
    MaxRev = 6
    MaxStarts = 2
    MaxServiceFaults = 1
    MaxClientFaults = 1
INVARIANTS
    ListIsTrue
    ListedUnderItsLease
PROPERTIES
    ServedIsFound
    DeadIsDropped
    LeaseRecovers
CHECK_DEADLOCK FALSE
