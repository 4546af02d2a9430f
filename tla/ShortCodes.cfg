SPECIFICATION Spec
CONSTANTS
    Hosts = {go, shurly}
    DefaultDomain = shurly
    AppHost = shurly
    Codes = {random, asked, asked_ers, asked_xyz}
    RandomCodes = {random}
    CustomCodes = {asked}
    Suffixed <- MCSuffixed
    ReservedCodes = {asked}
    ApiReserved = {asked_ers}
    LegacyCodes = {random}
    VisitedCodes = {random}
    Links = {l1, l2}
    Campaigns = {k1}
    Requests = {r1, r2}
    Tasks = {t1, t2}
    MaxRows = 1
    MaxLegacy = 2
    None = None
SYMMETRY MCSymmetry
INVARIANTS
    LinksAreReachable
    OneDefault
    VisitsFindTheirLink
PROPERTIES
    FailuresAreCrossings
CHECK_DEADLOCK FALSE
