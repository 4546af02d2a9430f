SPECIFICATION Spec
CONSTANTS
    Links = {1, 2}
    Campaign = {2}
    Destinations = {d1, d2}
    Reliable = {d1, d2}
    Threads = {t1, t2}
    Tasks = {k1}
    Limit = 1
    MaxVersions = 1
    MaxRequests = 3
    MaxCrashes = 0
    None = None
INVARIANT
    DescribesTheDestination
CHECK_DEADLOCK FALSE
