SPECIFICATION Spec
CONSTANTS
    Links = {l1}
    Threads = {t1, t2}
    Caps = {1}
    Windows <- MCWindows
    MaxTime = 1
    MaxRequests = 3
    None = None
INVARIANT
    HardCap
CHECK_DEADLOCK FALSE
