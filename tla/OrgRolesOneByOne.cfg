SPECIFICATION Spec
CONSTANTS
    People = {ana, bea, cai}
    Bootstrap = ana
    Threads = {t1}
    MaxRequests = 3
    None = None
PROPERTY
    FollowsTheRules
CHECK_DEADLOCK FALSE
