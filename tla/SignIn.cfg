SPECIFICATION Spec
CONSTANTS
    Emails = {e1, e2}
    Subjects = {g1, g2}
    Threads = {t1, t2}
    States = {s1}
    StateTTL = 2
    CodeTTL = 1
    Fresh = 1
    AllowSignUp = TRUE
    MaxTime = 2
    MaxRequests = 5
    MaxMoves = 1
    None = None
SYMMETRY MCSymmetry
INVARIANTS
    LockedOut
    OneGoogleEach
    AlwaysAWayIn
    OneSessionEach
CHECK_DEADLOCK FALSE
