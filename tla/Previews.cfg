SPECIFICATION FairSpec
CONSTANTS
    Links = {1, 2}
    Campaign = {2}
    Destinations = {d1, d2}
    Reliable = {d1}
    Threads = {t1, t2}
    Tasks = {k1, k2}
    Limit = 1
    MaxVersions = 1
    MaxRequests = 3
    MaxCrashes = 1
    None = None
INVARIANTS
    CampaignShowsItsPage
    OneRunAtATime
PROPERTY
    PreviewsFollowThePages
CHECK_DEADLOCK FALSE
