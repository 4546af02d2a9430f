SPECIFICATION Spec
CONSTANTS
    Links = {l1}
    Threads = {t1, t2, t3}
    Caps = {1, 2}
    Windows <- MCWindows
    MaxTime = 1
    MaxRequests = 4
    None = None
SYMMETRY MCSymmetry
INVARIANTS
    CapOvershootBounded
    LastClickIsAClick
    NoVisitOutlivesItsLink
    ClicksWithinWindow
CHECK_DEADLOCK FALSE
