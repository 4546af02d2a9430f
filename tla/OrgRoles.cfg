SPECIFICATION MCFairSpec
CONSTANTS
    People = {ana, bea, cai}
    Bootstrap = ana
    Threads = {t1, t2}
    MaxRequests = 2
    None = None
INVARIANTS
    RemovedStayOut
PROPERTIES
    StepDownLeavesAnOwner
    OwnerComesBack
CHECK_DEADLOCK FALSE
