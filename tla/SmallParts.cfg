SPECIFICATION Spec
CONSTANTS
    Threads = {t1, t2}
    Fast = {t2}
    Skew = 1
    Window = 2
    Keep = 2
    Limit = 2
    MaxTime = 3
    MaxCount = 3
    Emails = {e1}
    Companies = {a}
    Signers = {s1, s2}
    Year = 2
    Lasts = 1
    LastDay = 5
    MaxEntries = 2
    Tags = {x, y}
    Names = {p, n}
    Predefined = {p}
    Links = {l}
    Campaign = c
    OfCampaign = {l}
    Workers = {w1, w2}
    MaxBegun = 4
    Deployments = {d1, d2}
    Lambdas = {i1, i2}
    MaxHops = 1
    MaxShifts = 2
    Hosts = {h1, h2}
    Reached = {pub, alsopub, private}
    Public = {pub, alsopub}
    MaxRedirects = 1
    LowerCase <- MCLowerCase
    Upper <- MCUpper
    Other = "."
    Scanners <- MCScanners
    Paths <- MCPaths
    Codes <- MCCodes
    Longest = 3
    Suggestions = 1
    Samples = 2
    MaxRows = 3
    Clients = {c1, c2}
    Edges = {edge}
    Balancers = {balancer}
    Trusted = {balancer}
    Unparsable = {dash}
    MaxSent = 2
    NoAddress = NoAddress
    None = None
    Null = Null
    NoName = NoName
    Nil = Nil
INVARIANTS
    FailuresOvershootByAFew
    SignUpsLastAYear
    ConnectsToThePublicOnly
    TyposAreAnswered
    NobodyElsesAddress
PROPERTIES
    FixedWindows
    ReplacesWhatItSaw
    RulesConverge
CHECK_DEADLOCK FALSE
