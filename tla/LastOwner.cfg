SPECIFICATION Spec
CONSTANTS
    People = {ana, bea, cai}
    Bootstrap = ana
    Threads = {t1, t2}
    MaxRequests = 2
    None = None
INVARIANT
    AtLeastOneOwner
CHECK_DEADLOCK FALSE
