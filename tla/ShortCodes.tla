----------------------------- MODULE ShortCodes -----------------------------
(***************************************************************************)
(* Domains and the codes on them: which link an address names.  Visitors   *)
(* look codes up (redirect_short_url in server/app/urls.py), people make   *)
(* and delete links and campaigns, tasks start and bind the links from     *)
(* before domains to the default one (_seed_database in main.py), and an   *)
(* operator promotes and retires domains (server/tools/domains.py).        *)
(*                                                                         *)
(* Each statement is a step: READ COMMITTED, and nothing is locked before  *)
(* it is written.  The two creations of a link also wait for a page        *)
(* between looking a code up and inserting it.  The database keeps         *)
(* uq_urls_domain_code and the foreign key of urls.domain_id: a            *)
(* transaction that would break one fails as a whole.                      *)
(*                                                                         *)
(* Abstracted: codes are names, in the case SHORT_URL_MODE gives them; who *)
(* may see or change a link; what a link has but its code and domain.      *)
(***************************************************************************)
EXTENDS Naturals, FiniteSets, Functions

CONSTANTS
    Hosts,          \* hostnames a row of `domains` may have
    DefaultDomain,  \* DEFAULT_DOMAIN
    AppHost,        \* app_host(): where the app serves its own paths; None without one
    Codes,          \* short codes
    RandomCodes,    \* those of six random characters
    CustomCodes,    \* those people ask for
    Suffixed,       \* Suffixed[c]: c with three random characters after it
    ReservedCodes,  \* RESERVED_SHORT_CODES
    ApiReserved,    \* API_RESERVED_SHORT_CODES
    LegacyCodes,    \* bound: the codes of the links from before domains
    VisitedCodes,   \* bound: the codes visitors ask for
    Links,          \* rows of `urls`
    Campaigns,      \* rows of `campaigns`
    Requests,       \* requests at a time
    Tasks,          \* the service's tasks
    MaxRows,        \* bound: rows of a campaign's CSV
    MaxLegacy,      \* bound: links there are at first
    None            \* NULL

\* No code of six characters is a reserved one: they have three, four, five and eight.
ASSUME ShortCodesAssumption ==
    /\ DefaultDomain \in Hosts /\ AppHost \in Hosts \cup {None} /\ None \notin Hosts
    /\ RandomCodes \subseteq Codes /\ CustomCodes \subseteq Codes /\ LegacyCodes \subseteq Codes
    /\ VisitedCodes \subseteq Codes
    /\ Suffixed \in [CustomCodes -> SUBSET Codes]
    /\ (RandomCodes \cup LegacyCodes) \cap (ReservedCodes \cup ApiReserved) = {}
    /\ None \notin Links /\ None \notin Campaigns /\ Campaigns # {}
    /\ MaxRows \in Nat /\ MaxLegacy \in Nat

VARIABLES
    domains,   \* domains[h]: whether there's a row for h, and whether it's marked default
    links,     \* the rows of urls: a function on the links there are
    made,      \* the links there ever were
    request,   \* request[r]: what r is doing, or a visit's answer
    task,      \* task[t]: how far t is in starting up
    deployed,  \* the service has run on this database, or every task of it has come up
    operator,  \* the command the operator is running
    named,     \* history: named[r], the links the address visit r asks for has named throughout
    crossed    \* history: the tasks that others wrote around since they began to start

vars == <<domains, links, made, request, task, deployed, operator, named, crossed>>

Row == [code : Codes, domain : Hosts \cup {None}, campaign : Campaigns \cup {None}]

\* What a request, a start and a command have read, and how far they are.
Pending == [at : {"idle", "draw", "custom", "suffix", "save",
                  "default", "lookup", "legacy", "answered"},
            kind : {"none", "link", "campaign", "visit"},
            host : Hosts \cup {None}, code : Codes \cup {None}, domain : Hosts \cup {None},
            codes : SUBSET Codes, rows : Nat, found : Links \cup {None}]
Start == [at : {"down", "hostname", "insert", "default", "select", "move", "up"},
          domain : Hosts \cup {None}, moving : SUBSET Links]
Command == [command : {"none", "promote", "retire", "deleting"},
            host : Hosts \cup {None}, seen : SUBSET (Hosts \cup Links)]

Known(h) == domains[h] \in {"plain", "default"}
Defaults == {h \in Hosts : domains[h] = "default"}
On(d, c) == {l \in DOMAIN links : links[l].domain = d /\ links[l].code = c}
\* Mutant: a campaign's links escape uq_urls_domain_code.
TakenOutsideCampaigns(d, c) == \E l \in On(d, c) : links[l].campaign = None
Taken(d, c) == On(d, c) # {}

\* resolve_domain_for_host, in one go: the domain a request on h is looked up on.
ServedBy(h) == IF Known(h) THEN {h} ELSE Defaults

\* The links on a domain that the address h/c names.
Named(h, c) == UNION {On(d, c) : d \in ServedBy(h)}

\* is_reserved_short_code: a link with this code, on this domain, could not be reached.
IsReserved(c, d) ==
    \/ c \in ApiReserved
    \/ AppHost \in {None, d} /\ c \in ReservedCodes

IsUnavailable(c, d) == IsReserved(c, d) \/ Taken(d, c)

Idle == [at |-> "idle", kind |-> "none", host |-> None, code |-> None, domain |-> None,
         codes |-> {}, rows |-> 1, found |-> None]
Down == [at |-> "down", domain |-> None, moving |-> {}]
Up == [Down EXCEPT !.at = "up"]
AtRest == [command |-> "none", host |-> None, seen |-> {}]

IsFree(r) == request[r].at \in {"idle", "answered"}

\* uq_urls_domain_code: NULLs are distinct.
CodesAreUnique ==
    \A k, l \in DOMAIN links :
        k # l /\ links[k].code = links[l].code => links[k].domain = None \/ links[k].domain # links[l].domain

TypeOK ==
    /\ domains \in [Hosts -> {"none", "plain", "default", "retired"}]
    /\ links \in [DOMAIN links -> Row] /\ DOMAIN links \subseteq made /\ made \subseteq Links
    /\ \A l \in DOMAIN links : links[l].domain = None \/ Known(links[l].domain)
    /\ CodesAreUnique
    /\ request \in [Requests -> Pending] /\ task \in [Tasks -> Start] /\ operator \in Command
    /\ deployed \in BOOLEAN
    /\ named \in [Requests -> SUBSET Links] /\ crossed \subseteq Tasks

\* The first tasks start together, or one starts beside those that serve; some links are from
\* before domains, a code twice among them.
Init ==
    /\ deployed \in BOOLEAN
    /\ domains = [h \in Hosts |-> IF deployed /\ h = DefaultDomain THEN "default" ELSE "none"]
    /\ \E old \in SUBSET Links :
         /\ Cardinality(old) <= MaxLegacy
         /\ links \in [old -> [code : LegacyCodes, campaign : {None, CHOOSE k \in Campaigns : TRUE},
                               domain : IF deployed THEN {None, DefaultDomain} ELSE {None}]]
         /\ made = old
    /\ CodesAreUnique
    /\ request = [r \in Requests |-> Idle]
    /\ \E old \in SUBSET Tasks :
         /\ IF deployed THEN Cardinality(Tasks \ old) = 1 ELSE old = {}
         /\ task = [t \in Tasks |-> IF t \in old THEN Up ELSE Down]
    /\ operator = AtRest
    /\ named = [r \in Requests |-> {}] /\ crossed = {}

-----------------------------------------------------------------------------
(* A task starting up. *)

StartsUp(t, at, to) == task[t].at = at /\ task' = [task EXCEPT ![t].at = to]
Crashes(t) == task' = [task EXCEPT ![t] = Down]

\* get_or_create_default_domain, its first read.
SeedDefault(t) ==
    /\ IF Defaults # {} THEN StartsUp(t, "down", "default") ELSE StartsUp(t, "down", "hostname")
    /\ UNCHANGED <<domains, links, made, request, deployed, operator>>

\* No row was marked: mark DEFAULT_DOMAIN's, or make it.
SeedHostname(t) ==
    /\ \/ /\ Known(DefaultDomain)
          /\ StartsUp(t, "hostname", "default")
          /\ domains' = [domains EXCEPT ![DefaultDomain] = "default"]
       \/ /\ ~Known(DefaultDomain)
          /\ StartsUp(t, "hostname", "insert")
          /\ UNCHANGED domains
    /\ UNCHANGED <<links, made, request, deployed, operator>>

\* domains.hostname is unique: the second of two tasks fails, and starts again.
SeedInsert(t) ==
    /\ task[t].at = "insert"
    /\ IF Known(DefaultDomain)
       THEN Crashes(t) /\ UNCHANGED domains
       ELSE /\ StartsUp(t, "insert", "default")
            /\ domains' = [domains EXCEPT ![DefaultDomain] = "default"]
    /\ UNCHANGED <<links, made, request, deployed, operator>>

\* backfill_campaign_url_domains reads the default again...
BackfillDefault(t) ==
    /\ task[t].at = "default"
    /\ \E d \in Defaults : task' = [task EXCEPT ![t].at = "select", ![t].domain = d]
    /\ UNCHANGED <<domains, links, made, request, deployed, operator>>

\* Mutant: without taken_on_default.
MovableUnchecked(d) ==
    {l \in DOMAIN links : /\ links[l].domain = None /\ links[l].campaign # None
                          /\ On(None, links[l].code) = {l}}

\* ...and moves the campaign links without a domain that no other link stands in the way of.
Movable(d) ==
    {l \in DOMAIN links :
        /\ links[l].domain = None /\ links[l].campaign # None
        /\ ~Taken(d, links[l].code)
        /\ On(None, links[l].code) = {l}}

BackfillSelect(t) ==
    /\ task[t].at = "select"
    /\ task' = [task EXCEPT ![t].at = "move", ![t].moving = Movable(task[t].domain)]
    /\ UNCHANGED <<domains, links, made, request, deployed, operator>>

\* A row another task moved meanwhile no longer matches; a constraint that fails ends the task.
BackfillMove(t) ==
    LET d == task[t].domain
        moving == {l \in task[t].moving \cap DOMAIN links : links[l].domain = None}
        fails == moving # {} /\ (~Known(d) \/ \E l \in moving : Taken(d, links[l].code))
    IN  /\ task[t].at = "move"
        /\ IF fails
           THEN Crashes(t) /\ UNCHANGED <<links, deployed>>
           ELSE /\ task' = [task EXCEPT ![t] = Up]
                /\ links' = [l \in DOMAIN links |->
                               IF l \in moving THEN [links[l] EXCEPT !.domain = d] ELSE links[l]]
                /\ deployed' = (deployed \/ \A u \in Tasks \ {t} : task[u].at = "up")
        /\ UNCHANGED <<domains, made, request, operator>>

-----------------------------------------------------------------------------
(* Making links.  A request reads the default first.  Bound: one that finds *)
(* no row of Links or Campaigns left to make is never answered.            *)

Serving == \E t \in Tasks : task[t].at = "up"

Goes(r, to) == request' = [request EXCEPT ![r] = to]
OnlyRequests == UNCHANGED <<domains, links, made, task, deployed, operator>>

\* create_short_url and create_campaign.
CreateRandom(r, rows) ==
    /\ IsFree(r) /\ Serving
    /\ \E d \in Defaults, kind \in {"link", "campaign"} :
         /\ kind = "link" => rows = 1
         /\ Goes(r, [Idle EXCEPT !.at = "draw", !.kind = kind, !.domain = d, !.rows = rows])
    /\ OnlyRequests

\* One code of the batch, looked up: neither taken on the domain nor drawn before.
Draw(r, c) ==
    LET q == request[r]
    IN  /\ q.at = "draw" /\ c \in RandomCodes \ q.codes /\ ~Taken(q.domain, c)
        /\ Goes(r, [q EXCEPT !.codes = @ \cup {c},
                             !.at = IF Cardinality(q.codes) + 1 = q.rows THEN "save" ELSE @])
        /\ OnlyRequests

\* create_custom_url: the code asked for, or one with a suffix.
CreateCustom(r, c) ==
    /\ IsFree(r) /\ Serving /\ c \in CustomCodes
    /\ \E d \in Defaults :
         Goes(r, [Idle EXCEPT !.at = "custom", !.kind = "link", !.domain = d, !.code = c])
    /\ OnlyRequests

TryCustom(r) ==
    LET q == request[r]
    IN  /\ q.at = "custom"
        /\ IF IsUnavailable(q.code, q.domain)
           THEN Goes(r, [q EXCEPT !.at = "suffix"])
           ELSE Goes(r, [q EXCEPT !.at = "save", !.codes = {q.code}, !.code = None])
        /\ OnlyRequests

\* Mutant: the suffixed code isn't checked again for a reserved one.
TrySuffixUnchecked(r, c) ==
    LET q == request[r]
    IN  /\ q.at = "suffix" /\ c \in Suffixed[q.code] /\ ~Taken(q.domain, c)
        /\ Goes(r, [q EXCEPT !.at = "save", !.codes = {c}, !.code = None])
        /\ OnlyRequests

TrySuffix(r, c) ==
    LET q == request[r]
    IN  /\ q.at = "suffix" /\ c \in Suffixed[q.code] /\ ~IsUnavailable(c, q.domain)
        /\ Goes(r, [q EXCEPT !.at = "save", !.codes = {c}, !.code = None])
        /\ OnlyRequests

\* Ten codes in a row that can't be had: a 500, and nothing is kept.
GiveUp(r) ==
    LET q == request[r]
    IN  /\ \/ q.at = "draw" /\ \E c \in RandomCodes : c \in q.codes \/ Taken(q.domain, c)
           \/ q.at = "suffix" /\ \E c \in Suffixed[q.code] : IsUnavailable(c, q.domain)
        /\ Goes(r, Idle)
        /\ OnlyRequests

\* The insert, after the page was waited for: all of it, or none (a 500) if the domain is
\* gone or a code was taken meanwhile.
Save(r) ==
    LET q == request[r]
        free == Known(q.domain) /\ \A c \in q.codes : ~Taken(q.domain, c)
        campaigns == IF q.kind = "campaign"
                     THEN Campaigns \ {links[l].campaign : l \in DOMAIN links} ELSE {None}
    IN  /\ q.at = "save"
        /\ \/ /\ free
              /\ \E new \in SUBSET (Links \ made), k \in campaigns :
                   /\ \E code \in Bijection(new, q.codes) :
                        links' = [l \in DOMAIN links \cup new |->
                            IF l \in new
                            THEN [code |-> code[l], domain |-> q.domain, campaign |-> k]
                            ELSE links[l]]
                   /\ made' = made \cup new
           \/ ~free /\ UNCHANGED <<links, made>>
        /\ Goes(r, Idle)
        /\ UNCHANGED <<domains, task, deployed, operator>>

\* delete_url, of a link outside campaigns; delete_campaign, of all of a campaign's.
Without(gone) == links' = [l \in DOMAIN links \ gone |-> links[l]]
DeleteUrl(l) ==
    /\ Serving /\ links[l].campaign = None
    /\ Without({l})
    /\ UNCHANGED <<domains, made, request, task, deployed, operator>>
DeleteCampaign(k) ==
    LET its == {l \in DOMAIN links : links[l].campaign = k}
    IN  /\ Serving /\ its # {}
        /\ Without(its)
        /\ UNCHANGED <<domains, made, request, task, deployed, operator>>

-----------------------------------------------------------------------------
(* A visit: the host's domain, else the default; the link on it, else one  *)
(* from before domains, else a 404.                                        *)

Visit(r, h, c) ==
    /\ IsFree(r) /\ Serving
    /\ LET q == [Idle EXCEPT !.kind = "visit", !.host = h, !.code = c]
       IN  IF Known(h) THEN Goes(r, [q EXCEPT !.at = "lookup", !.domain = h])
                       ELSE Goes(r, [q EXCEPT !.at = "default"])
    /\ OnlyRequests

ReadDefault(r) ==
    /\ request[r].at = "default"
    /\ \E d \in Defaults : Goes(r, [request[r] EXCEPT !.at = "lookup", !.domain = d])
    /\ OnlyRequests

Answers(r, found) == Goes(r, [Idle EXCEPT !.at = "answered", !.found = found])

\* Mutant: the links from before domains go first.
LookupLegacyFirst(r) ==
    LET old == On(None, request[r].code)
        there == IF old # {} THEN old ELSE On(request[r].domain, request[r].code)
    IN  /\ request[r].at = "lookup"
        /\ \/ \E l \in there : Answers(r, l)
           \/ there = {} /\ Goes(r, [request[r] EXCEPT !.at = "legacy"])
        /\ OnlyRequests

Lookup(r) ==
    LET there == On(request[r].domain, request[r].code)
    IN  /\ request[r].at = "lookup"
        /\ \/ \E l \in there : Answers(r, l)
           \/ there = {} /\ Goes(r, [request[r] EXCEPT !.at = "legacy"])
        /\ OnlyRequests

LookupLegacy(r) ==
    LET there == On(None, request[r].code)
    IN  /\ request[r].at = "legacy"
        /\ \/ \E l \in there : Answers(r, l)
           \/ there = {} /\ Answers(r, None)
        /\ OnlyRequests

-----------------------------------------------------------------------------
(* The operator's commands, one at a time, on a service that is deployed.  *)
(* Bound: a domain that was retired isn't made again.                      *)

OnlyOperator == UNCHANGED <<domains, links, made, request, task, deployed>>

Promote(h) ==
    /\ deployed /\ operator = AtRest /\ domains[h] # "retired" /\ Defaults # {h}
    /\ operator' = [command |-> "promote", host |-> h, seen |-> Defaults]
    /\ OnlyOperator

\* Mutant: nothing is unmarked.
CommitMarkOnly ==
    /\ operator.command = "promote"
    /\ domains' = [domains EXCEPT ![operator.host] = "default"]
    /\ operator' = AtRest
    /\ UNCHANGED <<links, made, request, task, deployed>>

\* It marks h, making its row if it's missing, and unmarks those it saw marked.
CommitPromotion ==
    /\ operator.command = "promote"
    /\ domains' = [h \in Hosts |-> IF h = operator.host THEN "default"
                                   ELSE IF h \in operator.seen THEN "plain" ELSE domains[h]]
    /\ operator' = AtRest
    /\ UNCHANGED <<links, made, request, task, deployed>>

\* Refused for the default: the row marked so, or DEFAULT_DOMAIN's.
Retire(h) ==
    /\ deployed /\ operator = AtRest /\ domains[h] = "plain" /\ h # DefaultDomain
    /\ operator' = [command |-> "retire", host |-> h, seen |-> {}]
    /\ OnlyOperator

\* It deletes the links it finds on h...
RetireLinks ==
    /\ operator.command = "retire"
    /\ operator' = [operator EXCEPT !.command = "deleting",
                      !.seen = {l \in DOMAIN links : links[l].domain = operator.host}]
    /\ OnlyOperator

\* ...then h itself, unless a link was made on it meanwhile: then all of it is undone.
CommitRetirement ==
    /\ operator.command = "deleting"
    /\ IF \E l \in DOMAIN links \ operator.seen : links[l].domain = operator.host
       THEN UNCHANGED <<domains, links>>
       ELSE /\ domains' = [domains EXCEPT ![operator.host] = "retired"]
            /\ Without(operator.seen)
    /\ operator' = AtRest
    /\ UNCHANGED <<made, request, task, deployed>>

-----------------------------------------------------------------------------
StartUp(t) ==
    SeedDefault(t) \/ SeedHostname(t) \/ SeedInsert(t)
      \/ BackfillDefault(t) \/ BackfillSelect(t) \/ BackfillMove(t)

Request(r) ==
    \/ \E rows \in 1 .. MaxRows : CreateRandom(r, rows)
    \/ \E c \in Codes : Draw(r, c) \/ CreateCustom(r, c) \/ TrySuffix(r, c)
    \/ TryCustom(r) \/ GiveUp(r) \/ Save(r)
    \/ \E h \in Hosts, c \in VisitedCodes : Visit(r, h, c)
    \/ ReadDefault(r) \/ Lookup(r) \/ LookupLegacy(r)

Operate ==
    \/ \E h \in Hosts : Promote(h) \/ Retire(h)
    \/ CommitPromotion \/ RetireLinks \/ CommitRetirement

Step ==
    \/ \E t \in Tasks : StartUp(t)
    \/ \E r \in Requests : Request(r)
    \/ \E l \in DOMAIN links : DeleteUrl(l)
    \/ \E k \in Campaigns : DeleteCampaign(k)
    \/ Operate

Starting(t) == task[t].at \notin {"down", "up"}
WrittenAround(t) ==
    Starting(t) /\ task[t]' = task[t] /\ <<domains, links>>' # <<domains, links>>

\* What a visit's address names, from its first read to its last.
OnItsWay(r) == request[r].at \in {"default", "lookup", "legacy"}
Names(r) == Named(request[r].host, request[r].code)
Watch ==
    /\ named' = [r \in Requests |->
        IF OnItsWay(r)' THEN IF OnItsWay(r) THEN named[r] \cap Names(r)' ELSE Names(r)'
                        ELSE IF request[r].at' = "answered" THEN named[r] ELSE {}]
    /\ crossed' = {t \in Tasks : Starting(t)' /\ (t \in crossed \/ WrittenAround(t))}

Next == Step /\ Watch

Spec == Init /\ [][Next]_vars

-----------------------------------------------------------------------------
(* Properties *)

\* No link has a code that the app, or the API, keeps for itself on the link's own domain
\* (RESERVED_SHORT_CODES, API_RESERVED_SHORT_CODES): the code a person asks for, one with a
\* suffix, a random one, and the code of a link that is moved.
LinksAreReachable ==
    \A l \in DOMAIN links : links[l].domain # None => ~IsReserved(links[l].code, links[l].domain)

\* "The app reads the default on every request, and never sees none or two"
\* (tools/domains.py:9): once a task is up one domain is marked default, whatever tasks start
\* at a time, and whatever the operator does, a command at a time.
OneDefault == deployed \/ Serving => Cardinality(Defaults) = 1

\* A visit whose address names the same link throughout, on a domain, finds that link: no 404
\* and no other, whatever is made, deleted, moved, promoted or retired around it.
VisitsFindTheirLink ==
    \A r \in Requests : request[r].at = "answered" /\ named[r] # {} => request[r].found \in named[r]

\* A task fails to start (main.py:228, and ECS starts it again) only when another one, a request
\* or the operator wrote something meanwhile: never of what it finds in the database alone, so no
\* task is kept from coming up by the links and domains there are.
FailuresAreCrossings ==
    [][\A t \in Tasks : Starting(t) /\ task'[t].at = "down" => t \in crossed]_vars
=============================================================================
