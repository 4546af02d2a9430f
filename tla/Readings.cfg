SPECIFICATION Spec
SYMMETRY MCSymmetry
CONSTANTS
    AllLinks = {r1, p}
    Recipients = {r1}
    Cities = {c}
    Arriving <- MCArriving
    Null = Null
    MinLinks = 2
    Day = 2
    Week = 2
    MonthEnds = {4}
    Recent = 2
    Weeks = 2
    MaxPeriod = 3
    Types = {"clicks", "all"}
    Includes = {TRUE}
    Start = 9
    End = 10
    ListRows = {1, 2, 3}
    PageSize = 2
    Span = 1
    Late = 1
    LastClock = 2
    Never = Never
    People = {o, u}
    Owner = o
    Services = {s}
    Links = {l}
    Requests = {q}
    D1 = D1
    D2 = D2
    ShlinkRows = {1, 2, 3, 4, 5}
    CodeOf <- MCCodes
    DestOf <- MCDests
    HeldFirst <- MCHeldFirst
    OwnPaths = {3}
    ListSize = 1
    Budget = 4
    LastSecond = 1
    MaxVisits = 2
    MaxTheirs = 2
    MaxChanges = 2
    Absent = Absent
    Holders = {h}
    Nil = Nil
    Tokens = {g1, g2}
    Tasks = {k1, k2}
    Calls = {c1}
    Kept = 1
    Most = 1
    Life = 3
    Delay = 1
    LastTick = 4
    RuleRows = {k3, k4}
    ConditionSets <- MCConditionSets
    Nothing = Nothing
    Targets = {to, other}
    Facts = {f}
    Priorities = {0, 1}
    Visitors = {v}
    Editors = {e}
    MaxTime = 1
    MaxEdits = 3
    None = None
INVARIANTS
    SeriesFollowTheDays
    PartsAgree
    PagesMissNothing
    LinksCanBeDeleted
    ExportIsWholeOrNone
    AccessEnds
    VisitorsGoWhereItLeads
PROPERTIES
    ManagedLinksLeaveATrace
    EveryVisitMovesOnce
CHECK_DEADLOCK FALSE
