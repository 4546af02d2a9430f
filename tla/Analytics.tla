----------------------------- MODULE Analytics -----------------------------
(***************************************************************************)
(* What the analytics routes count (server/app/analytics.py).  An answer   *)
(* is made by several queries, each of what is committed when it runs:     *)
(* visits arrive and links are deleted between them.  Days are counted     *)
(* where the viewer is (server/utils/local_days.py), so a day may be       *)
(* longer or shorter than the others.                                      *)
(*                                                                         *)
(* Abstracted: a number is the set of visits it counts.  A visit keeps its *)
(* link, instant, kind and city; browsers, systems, referrers and          *)
(* countries group the same visits otherwise, and addresses are left out.  *)
(* Links do not leave a campaign nor join it: they are deleted.            *)
(***************************************************************************)
EXTENDS Integers, Sequences, FiniteSets

CONSTANTS
    AllLinks,     \* every link there was
    Recipients,   \* the links of the campaign
    Cities,
    MinLinks,     \* CAMPAIGN_CITY_MIN_LINKS
    Day,          \* ticks of a usual day
    Week,         \* days of a week
    MonthEnds,    \* the days that are the last of a month
    Recent,       \* days the short series show
    Weeks,        \* weeks the weekly one shows
    MaxPeriod,    \* MAX_PERIOD_DAYS
    Arriving,     \* the visits that arrive, but for their link and instant
    Types,        \* the types of visit that are asked for
    Includes,     \* whether bots are asked for
    Start, End,   \* bound: the instants
    MaxVisits,    \* bound: visits
    Null

\* What the constants are assumed to be, where the module is instantiated.
AnalyticsAssumption ==
    /\ Recipients \subseteq AllLinks /\ Null \notin Cities
    /\ {MinLinks, Day, Week, Recent, Weeks, MaxPeriod} \subseteq Nat \ {0}
    /\ MonthEnds \subseteq Nat
    /\ Types \subseteq {"clicks", "opens", "bots", "all"}
    /\ Includes \subseteq BOOLEAN
    /\ Arriving \subseteq [pixel : BOOLEAN, bot : BOOLEAN, city : Cities \cup {Null}]
    /\ Start \in Nat /\ End \in Nat /\ Start <= End /\ MaxVisits \in Nat
    /\ Day * (Recent + 1) <= Start /\ Day * (Weeks * Week) < Start

VARIABLES
    now,
    links,     \* the links that are not deleted
    visits,    \* every visit ever: those of a deleted link are gone with it
    asking     \* the request being answered, or Null

readVars == <<now, links, visits, asking>>

Visit == [link : AllLinks, at : Start .. End, is : Arriving]

Live == {v \in DOMAIN visits : visits[v].link \in links}

-----------------------------------------------------------------------------
(* Local days.  A zone is its offset at each instant, here with one change  *)
(* at most.  Its dates never go back: they would where clocks go back       *)
(* across a midnight, which no zone does today.                             *)

Instants == 0 .. End + 2 * Day

Zones == {[t \in Instants |-> IF t < turn THEN before ELSE after] :
            before \in {0, 1}, after \in {0, 1}, turn \in Start .. End}
Utc   == [t \in Instants |-> 0]

Local(z, t)     == t + z[t]
LocalDate(z, t) == Local(z, t) \div Day
Today(z)        == LocalDate(z, now)

\* Midnight with today's offset for every day: a wrong version.
MidnightToday(z, d) == d * Day - z[now]

\* The instant the clock first shows midnight; when it jumps over it, the offset is the one before.
Midnight(z, d) ==
    LET wall  == d * Day
        shown == {t \in Instants : Local(z, t) = wall}
        until == {t \in Instants : Local(z, t) < wall}
    IN  IF shown # {} THEN CHOOSE t \in shown : \A u \in shown : t <= u
        ELSE wall - z[CHOOSE t \in until : \A u \in until : u <= t]

Bounds(z, first, days) == [i \in 1 .. days + 1 |-> Midnight(z, first + i - 1)]

-----------------------------------------------------------------------------
(* Which visits count.                                                      *)

Of(ls) == {v \in Live : visits[v].link \in ls}

ExcludeBots(vs, include) == {v \in vs : ~visits[v].is.pixel /\ (include \/ ~visits[v].is.bot)}

KindOf(v) == IF visits[v].is.bot THEN "bots" ELSE IF visits[v].is.pixel THEN "opens" ELSE "clicks"

OfType(vs, type) ==
    CASE type = "clicks" -> ExcludeBots(vs, FALSE)
      [] type = "opens"  -> {v \in vs : visits[v].is.pixel /\ ~visits[v].is.bot}
      [] type = "bots"   -> {v \in vs : visits[v].is.bot}
      [] type = "hits"   -> ExcludeBots(vs, TRUE)
      [] type = "people" -> {v \in vs : ~visits[v].is.bot}
      [] OTHER           -> vs

Clicks(include) == IF include THEN "hits" ELSE "clicks"

Within(vs, from, until) == {v \in vs : from <= visits[v].at /\ visits[v].at < until}

CountPerPeriod(vs, bounds) ==
    [i \in 1 .. Len(bounds) - 1 |-> Within(vs, bounds[i], bounds[i + 1])]

LastDays(z, vs, n) == CountPerPeriod(vs, Bounds(z, Today(z) - n + 1, n))

LastWeeks(z, vs, n) ==
    LET days == Bounds(z, Today(z) - n * Week + 1, n * Week)
    IN  CountPerPeriod(vs, [i \in 1 .. n + 1 |-> days[(i - 1) * Week + 1]])

\* A period is its first and last local day: the last n, or a range that ends today at the latest.
LastN(z, n) == [first |-> Today(z) - n + 1, last |-> Today(z)]

Ranges(z) ==
    {p \in [first : 1 .. Today(z), last : 1 .. Today(z)] :
        p.first <= p.last /\ p.last - p.first < MaxPeriod}

PeriodBounds(z, p) == <<Midnight(z, p.first), Midnight(z, p.last + 1)>>

InPeriod(z, vs, p) == Within(vs, PeriodBounds(z, p)[1], PeriodBounds(z, p)[2])

EndsGroup(group, d) ==
    CASE group = "week"  -> d % Week = Week - 1
      [] group = "month" -> d \in MonthEnds
      [] OTHER           -> TRUE

BucketEnd(p, group, d) ==
    LET ends == {e \in d .. p.last : EndsGroup(group, e)} \cup {p.last}
    IN  CHOOSE e \in ends : \A n \in ends : e <= n

\* The days, weeks or months of a period: clipped to it.
Buckets(p, group) ==
    LET from[d \in p.first .. p.last + 1] ==
            IF d > p.last THEN <<>>
            ELSE <<[first |-> d, last |-> BucketEnd(p, group, d)]>>
                    \o from[BucketEnd(p, group, d) + 1]
    IN  from[p.first]

\* Each visit goes to the last bucket that starts by its local date (the last of all if none does).
Series(z, vs, p, group) ==
    LET buckets == Buckets(p, group)
        rows    == OfType(InPeriod(z, vs, p), "people")
        place(v) == LET i == Cardinality({b \in DOMAIN buckets :
                                            buckets[b].first <= LocalDate(z, visits[v].at)})
                    IN  IF i = 0 THEN Len(buckets) ELSE i
        placed(b, kind) == {v \in rows : place(v) = b /\ KindOf(v) = kind}
    IN  [b \in DOMAIN buckets |-> [bucket |-> buckets[b], clicks |-> placed(b, "clicks"),
                                    opens |-> placed(b, "opens")]]

\* Visits by city: those without one are unknown, and a city too few of the links' are others'.
CitiesOf(vs, atLeast) ==
    LET from(c) == {visits[v].link : v \in {u \in vs : visits[u].is.city = c}}
        name(c) == IF c = Null THEN "unknown"
                   ELSE IF Cardinality(from(c)) < atLeast THEN "others" ELSE c
    IN  {[name |-> name(c), visits |-> {v \in vs : name(visits[v].is.city) = name(c)}] :
            c \in {visits[v].is.city : v \in vs}}

-----------------------------------------------------------------------------
(* Requests: the queries an answer takes, in their order.  A query counts   *)
(* the visits of a kind, of all time or of what is a period when it is      *)
(* resolved: as the request starts, or with "recent" as the query runs.     *)
(* A request's days are UTC's.                                              *)

AllTime    == [is |-> "all"]
RecentDays == [is |-> "recent"]
Days(p)    == [is |-> "period", period |-> p]

Q(part, kind, window) == [part |-> part, kind |-> kind, window |-> window]

Ask(of, queries) ==
    /\ asking = Null
    /\ asking' = [of |-> of, queries |-> queries, got |-> <<>>, had |-> Len(visits)]
    /\ UNCHANGED <<now, links, visits>>

Campaign == Recipients \cap links # {}

Daily(l, include) ==
    /\ l \in links
    /\ Ask({l}, <<Q("days", Clicks(include), RecentDays)>>)

LinkTotals(l) ==
    /\ l \in links
    /\ Ask({l}, <<Q("clicks", "clicks", AllTime), Q("opens", "opens", AllTime)>>)

Geo(l, include, p) ==
    /\ l \in links
    /\ Ask({l}, <<Q("countries", Clicks(include), Days(p))>>)

LinkSeries(l, p) ==
    /\ l \in links
    /\ Ask({l}, <<Q("series", "people", Days(p))>>)

BreakdownQueries(type, p) == <<Q("agents", type, Days(p)), Q("countries", type, Days(p))>>

\* A recipient's link has no cities.
LinkBreakdown(l, type, p) ==
    /\ l \in links
    /\ Ask({l}, BreakdownQueries(type, p)
                    \o (IF l \in Recipients THEN <<>> ELSE <<Q("cities", type, Days(p))>>))

ListVisits(l, type, p) ==
    /\ l \in links
    /\ Ask({l}, <<Q("total", type, Days(p)), Q("rows", type, Days(p))>>)

\* The MCP tool's one call, of days where the viewer is.
Summary(l, include) ==
    /\ l \in links
    /\ Ask({l}, <<Q("total", Clicks(include), AllTime), Q("clicked", Clicks(include), AllTime),
                 Q("days", Clicks(include), RecentDays), Q("top", Clicks(include), AllTime)>>)

ExportVisits(l, type, p) ==
    /\ l \in links
    /\ Ask({l}, <<Q("rows", type, Days(p))>>)

\* Pixels counted among the clicks: a wrong version.
TopWithPixels(include) == IF include THEN "everything" ELSE "people"

TopKind(include) == Clicks(include)

CampaignSummary(include) ==
    /\ Campaign
    /\ Ask(Recipients \cap links,
           <<Q("total", Clicks(include), AllTime),
             Q("clicked", Clicks(include), AllTime), Q("top", TopKind(include), AllTime),
             Q("days", Clicks(include), RecentDays)>>)

CampaignUsers(include) ==
    /\ Campaign
    /\ Ask(Recipients, <<Q("recipients", "none", AllTime), Q("stats", Clicks(include), AllTime)>>)

\* The links counted last: a wrong version.
ClicksFirst == <<Q("clicks", "clicks", AllTime), Q("opens", "opens", AllTime), Q("recipients", "none", AllTime)>>

TotalsQueries == <<Q("recipients", "none", AllTime), Q("clicks", "clicks", AllTime), Q("opens", "opens", AllTime)>>

CampaignTotals ==
    /\ Campaign
    /\ Ask(Recipients, TotalsQueries)

CampaignSeries(p) ==
    /\ Campaign
    /\ Ask(Recipients, <<Q("series", "people", Days(p))>>)

CampaignBreakdown(type, p) ==
    /\ Campaign
    /\ Ask(Recipients, BreakdownQueries(type, p) \o <<Q("cities", type, Days(p))>>)

\* The recipients a filter keeps are those of the visits it asks for, or all less those.
RecipientsQueries(type) == <<Q("counts", type, AllTime), Q("page", type, AllTime)>>

ListRecipients(type) ==
    /\ Campaign
    /\ LET queries == RecipientsQueries(type)
       IN  Ask(Recipients, <<queries[1], Q("matching", type, AllTime), queries[2]>>)

ExportRecipients(type) ==
    /\ Campaign
    /\ Ask(Recipients, RecipientsQueries(type))

Overview(include) ==
    Ask(links, <<Q("total", Clicks(include), AllTime),
                 Q("days", Clicks(include), RecentDays), Q("top", TopKind(include), AllTime)>>)

\* A campaign's breakdown names no city of too few of its links.
AtLeast == IF asking.of \subseteq Recipients THEN MinLinks ELSE 1

Grouped(q, vs) == IF q.part = "cities" THEN UNION {g.visits : g \in CitiesOf(vs, AtLeast)} ELSE vs

Counted(q) ==
    LET kept == OfType(Of(asking.of), q.kind)
    IN  CASE q.window.is = "all"    -> kept
          [] q.window.is = "recent" -> UNION {LastDays(Utc, kept, Recent)[d] : d \in 1 .. Recent}
          [] OTHER                  -> InPeriod(Utc, kept, q.window.period)

RunQuery ==
    /\ asking # Null
    /\ asking.queries # <<>>
    /\ LET q  == Head(asking.queries)
           vs == Grouped(q, Counted(q))
       IN  asking' = [asking EXCEPT
                !.queries = Tail(@),
                !.got     = Append(@, [part  |-> q.part,
                                       ids   |-> IF q.kind = "none" THEN {} ELSE vs,
                                       links |-> IF q.kind = "none" THEN asking.of \cap links
                                                 ELSE {visits[v].link : v \in vs}])]
    /\ UNCHANGED <<now, links, visits>>

Answer ==
    /\ asking # Null
    /\ asking.queries = <<>>
    /\ asking' = Null
    /\ UNCHANGED <<now, links, visits>>

-----------------------------------------------------------------------------
(* Meanwhile.                                                               *)

Arrive ==
    /\ Len(visits) < MaxVisits
    /\ \E l \in links, is \in Arriving :
            visits' = Append(visits, [link |-> l, at |-> now, is |-> is])
    /\ UNCHANGED <<now, links, asking>>

LinkGoes ==
    /\ \E l \in links : links' = links \ {l}
    /\ UNCHANGED <<now, visits, asking>>

ReadTick ==
    /\ now < End
    /\ now' = now + 1
    /\ UNCHANGED <<links, visits, asking>>

ReadInit ==
    /\ now = Start
    /\ links = AllLinks
    /\ visits = <<>>
    /\ asking = Null

LinkRequest ==
    \E l \in AllLinks :
        \/ LinkTotals(l)
        \/ \E include \in Includes : Daily(l, include) \/ Geo(l, include, LastN(Utc, Recent)) \/ Summary(l, include)
        \/ LinkSeries(l, LastN(Utc, Recent))
        \/ \E type \in Types : \/ LinkBreakdown(l, type, LastN(Utc, Recent))
                               \/ ListVisits(l, type, LastN(Utc, Recent))
                               \/ ExportVisits(l, type, LastN(Utc, Recent))

CampaignRequest ==
    \/ CampaignTotals
    \/ CampaignSeries(LastN(Utc, Recent))
    \/ \E include \in Includes : CampaignSummary(include) \/ CampaignUsers(include) \/ Overview(include)
    \/ \E type \in Types : CampaignBreakdown(type, LastN(Utc, Recent))
    \/ \E type \in {"clicks", "opens", "people"} : ListRecipients(type) \/ ExportRecipients(type)

ReadNext ==
    \/ LinkRequest \/ CampaignRequest
    \/ RunQuery \/ Answer
    \/ Arrive \/ LinkGoes \/ ReadTick

ReadSpec == ReadInit /\ [][ReadNext]_readVars

-----------------------------------------------------------------------------
(* Properties.                                                              *)

ReadTypeOK ==
    /\ now \in Start .. End
    /\ links \subseteq AllLinks
    /\ visits \in Seq(Visit) /\ Len(visits) <= MaxVisits

\* What a series is to be: a visit is in the bucket its local date is in, and in no other.
IsIn(z, v, bucket) == LocalDate(z, visits[v].at) \in bucket.first .. bucket.last

\* Whatever the zone and its change of offset, the days, the weeks and the series of every
\* period count each visit where its local date is (local_days.py, `_series`): they are bounded
\* by instants, and a day of 23 or 25 hours loses none and counts none twice.
SeriesFollowDays ==
    \A z \in Zones :
        /\ \A p \in Ranges(z), group \in {"day", "week", "month"} :
                LET series == Series(z, Live, p, group)
                    of(b, type) == {v \in OfType(Live, type) : IsIn(z, v, series[b].bucket)}
                IN  \A b \in DOMAIN series : /\ series[b].clicks = of(b, "clicks")
                                             /\ series[b].opens = of(b, "opens")
        /\ LET days == LastDays(z, Live, Recent)
           IN  \A d \in 1 .. Recent :
                    days[d] = {v \in Live : LocalDate(z, visits[v].at) = Today(z) - Recent + d}
        /\ LET weeks == LastWeeks(z, Live, Weeks)
               first(w) == Today(z) - (Weeks - w + 1) * Week + 1
           IN  \A w \in 1 .. Weeks :
                    weeks[w] = {v \in Live : IsIn(z, v, [first |-> first(w), last |-> first(w) + Week - 1])}

\* The same between two requests, where TLC looks: a request changes no visit, and with no
\* visits there is nothing to count.
SeriesFollowTheDays == asking = Null /\ visits # <<>> => SeriesFollowDays

\* The parts of an answer that count the same visits.
Same == {{"total", "clicked", "top"}, {"agents", "countries", "cities"},
         {"total", "rows"}, {"counts", "matching", "page"}}

\* It came after the request, or its link was deleted during it.
CameOrWent(v) == v > asking.had \/ visits[v].link \notin links

\* The numbers of one answer are about the same visits, but for those that came or went while it
\* was made: two parts that count the same do, a campaign's clicks are of links it counted (so
\* its rates are 1 at most), no visit is both a click and an open, and the last days are among
\* all time's (the routes of analytics.py, each with its own queries).
PartsAgree ==
    asking # Null =>
        \A i, j \in DOMAIN asking.got :
            LET a == asking.got[i]
                b == asking.got[j]
            IN  /\ (\E parts \in Same : {a.part, b.part} \subseteq parts) =>
                        \A v \in (a.ids \ b.ids) \cup (b.ids \ a.ids) : CameOrWent(v)
                /\ a.part = "recipients" => b.links \subseteq a.links
                /\ (a.part = "clicks" /\ b.part = "opens") => a.ids \cap b.ids = {}
                /\ (a.part = "total" /\ b.part = "days") => \A v \in b.ids \ a.ids : CameOrWent(v)
=============================================================================
