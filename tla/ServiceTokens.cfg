SPECIFICATION Spec
CONSTANTS
    Accounts = {a1}
    Tokens = {x1, x2, x3}
    Threads = {t1, t2}
    Overlap = 3
    Patience = 1
    Expiries = {2}
    MaxTime = 4
    MaxRequests = 4
    None = None
SYMMETRY MCSymmetry
INVARIANTS
    OneActivePerThread
    RemovedCannotAct
PROPERTIES
    RevocationReachesAll
    RenewalSparesTheActive
CHECK_DEADLOCK FALSE
