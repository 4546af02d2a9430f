------------------------------ MODULE Previews ------------------------------
(***************************************************************************)
(* A link's page preview (server/utils/previews.py): fetched when the link *)
(* is made, moved or refreshed (server/app/urls.py, server/app/campaigns.py)*)
(* and, once missing or old, by the daily housekeeping                     *)
(* (server/utils/housekeeping.py).                                         *)
(*                                                                         *)
(* A fetch takes seconds, and nobody holds the link meanwhile.  A session  *)
(* writes only the attributes that differ from the row it loaded, which is *)
(* what Written says.                                                      *)
(*                                                                         *)
(* Abstracted: what a page declares is its destination and a version, and  *)
(* a time is a place in `fetched`, the order of the last fetches, with the *)
(* number of those that are too old.                                       *)
(***************************************************************************)
EXTENDS Naturals, FiniteSets, Sequences

CONSTANTS
    Links,         \* links, numbered in the order they are made in
    Campaign,      \* those of them that belong to a campaign
    Destinations,
    Reliable,      \* the destinations that always answer; the others may not
    Threads,       \* requests served at once
    Tasks,         \* processes, a housekeeping loop in each
    Limit,         \* PREVIEW_LIMIT, the links one run takes
    MaxVersions,   \* bound: times a page changes what it declares
    MaxRequests,   \* bound: requests received
    MaxCrashes,    \* bound: runs and requests cut short
    None           \* NULL

ASSUME PreviewsAssumption ==
    /\ Links \subseteq Nat /\ IsFiniteSet(Links) /\ Links # {}
    /\ Campaign \subseteq Links
    /\ Destinations # {} /\ None \notin Destinations
    /\ Reliable \subseteq Destinations
    /\ None \notin Tasks
    /\ Limit \in Nat \ {0}
    /\ MaxVersions \in Nat /\ MaxRequests \in Nat /\ MaxCrashes \in Nat

VARIABLES
    link,      \* link[l]: its row
    fetched,   \* the links with a page_fetched_at, from the oldest on
    old,       \* how many of them are older than PREVIEW_MAX_AGE
    request,   \* request[t]: what t is doing
    run,       \* run[k]: the housekeeping of task k
    lock,      \* the task that holds the advisory lock, or None
    version,   \* version[d]: what d's page declares now
    requests,  \* requests received so far
    crashes    \* runs and requests cut short so far

vars == <<link, fetched, old, request, run, lock, version, requests, crashes>>

Page    == Destinations \X (0 .. MaxVersions)
Row     == [state : {"none", "live", "deleted"}, dest : Destinations, page : Page \cup {None}]
Request == [step : {"idle", "move", "refresh", "campaign"}, link : Links, loaded : Row,
            hadTime : BOOLEAN, to : Destinations]
Run     == [step : {"idle", "select", "load", "commit"}, picked : SUBSET Links,
            pages : [Destinations -> Page \cup {None}], loaded : [Links -> Row]]

TypeOK ==
    /\ link \in [Links -> Row]
    /\ fetched \in Seq(Links)
    /\ old \in 0 .. Len(fetched)
    /\ request \in [Threads -> Request]
    /\ run \in [Tasks -> Run]
    /\ lock \in Tasks \cup {None}
    /\ version \in [Destinations -> 0 .. MaxVersions]
    /\ requests \in 0 .. MaxRequests
    /\ crashes \in 0 .. MaxCrashes

Range(s)    == {s[i] : i \in DOMAIN s}
HasTime(l)  == l \in Range(fetched)
Oldest      == {fetched[i] : i \in 1 .. old}
IsLive(l)   == link[l].state = "live"
Live        == {l \in Links : IsLive(l)}
NoRow       == [state |-> "none", dest |-> CHOOSE d \in Destinations : TRUE, page |-> None]
NoRequest   == [step |-> "idle", link |-> CHOOSE l \in Links : TRUE, loaded |-> NoRow,
                hadTime |-> FALSE, to |-> NoRow.dest]
NoRun       == [step |-> "idle", picked |-> {}, pages |-> [d \in Destinations |-> None],
                loaded |-> [l \in Links |-> NoRow]]

Init ==
    /\ link = [l \in Links |-> NoRow]
    /\ fetched = <<>>
    /\ old = 0
    /\ request = [t \in Threads |-> NoRequest]
    /\ run = [k \in Tasks |-> NoRun]
    /\ lock = None
    /\ version = [d \in Destinations |-> 0]
    /\ requests = 0
    /\ crashes = 0

\* What a column holds after a session that loaded `loaded` set it to `new`.
Written(loaded, new, current) == IF new = loaded THEN current ELSE new

\* What a fetch may bring: the page as it is now, or None when it failed.
Outcomes(d) ==
    {<<d, version[d]>>} \cup (IF d \in Reliable THEN {} ELSE {None})

\* The page that a preview is of.
PageOf(l, d) == link[l].page # None /\ link[l].page[1] = d

\* The preview says what the page declares now.
Shows(l) == link[l].page = <<link[l].dest, version[link[l].dest]>>

\* page_fetched_at of the links in S is set, or forgotten.
Without(S)  == SelectSeq(fetched, LAMBDA l : l \notin S)
Forgets(S)  == /\ fetched' = Without(S)
               /\ old' = old - Cardinality(Oldest \cap S)
Stamps(S)   == /\ \E s \in [1 .. Cardinality(S) -> S] :
                     /\ Range(s) = S /\ \A i, j \in DOMAIN s : i < j => s[i] < s[j]
                     /\ fetched' = Without(S) \o s
               /\ old' = old - Cardinality(Oldest \cap S)
Times       == <<fetched, old>>

-----------------------------------------------------------------------------
Ends(t) == request' = [request EXCEPT ![t] = NoRequest]

Receives(t) ==
    /\ request[t].step = "idle"
    /\ requests < MaxRequests
    /\ requests' = requests + 1

\* Links are made in the order of their numbers.
IsNext(l) == link[l].state = "none" /\ \A m \in Links : m < l => link[m].state # "none"

\* create_short_url, create_custom_url: fetched before the link exists.
Create(t, l, d) ==
    /\ Receives(t)
    /\ l \notin Campaign /\ IsNext(l)
    /\ \E page \in Outcomes(d) :
          /\ link' = [link EXCEPT ![l] = [state |-> "live", dest |-> d, page |-> page]]
          /\ IF page # None THEN Stamps({l}) ELSE UNCHANGED Times
    /\ UNCHANGED <<request, run, lock, version, crashes>>

\* create_campaign: its links are committed, and then their page fetched.
CreateCampaign(t, l, d) ==
    /\ Receives(t)
    /\ l \in Campaign /\ IsNext(l)
    /\ link' = [link EXCEPT ![l] = [state |-> "live", dest |-> d, page |-> None]]
    /\ request' = [request EXCEPT ![t] = [NoRequest EXCEPT !.step = "campaign", !.link = l, !.to = d]]
    /\ UNCHANGED <<fetched, old, run, lock, version, crashes>>

\* store_page_preview_on_links: an UPDATE by id, of the link as it is by then.
StoreOnCampaign(t) ==
    LET r == request[t] IN
    /\ r.step = "campaign"
    /\ \E page \in Outcomes(r.to) :
          IF page # None /\ IsLive(r.link)
          THEN link' = [link EXCEPT ![r.link].page = page] /\ Stamps({r.link})
          ELSE UNCHANGED <<link, fetched, old>>
    /\ Ends(t)
    /\ UNCHANGED <<run, lock, version, requests, crashes>>

Loads(t, l, step, d) ==
    request' = [request EXCEPT ![t] = [step |-> step, link |-> l, loaded |-> link[l],
                                       hadTime |-> HasTime(l), to |-> d]]

\* update_url: refuses a campaign's link, and fetches the page when the destination is another.
MayMoveAny(l) == TRUE   \* mutant: a campaign's link is edited like any other
MayMove(l)    == l \notin Campaign

Move(t, l, d) ==
    /\ Receives(t)
    /\ IsLive(l)
    /\ IF MayMove(l) /\ d # link[l].dest THEN Loads(t, l, "move", d) ELSE UNCHANGED request
    /\ UNCHANGED <<link, fetched, old, run, lock, version, crashes>>

\* Its commit: the destination, and its page or none.  A link deleted meanwhile fails it.
CommitMove(t) ==
    LET r == request[t] IN
    /\ r.step = "move"
    /\ IF ~IsLive(r.link) THEN UNCHANGED <<link, fetched, old>>
       ELSE \E page \in Outcomes(r.to) :
          /\ link' = [link EXCEPT ![r.link].dest = r.to,
                                 ![r.link].page = Written(r.loaded.page, page, @)]
          /\ IF page # None THEN Stamps({r.link})
             ELSE IF r.hadTime THEN Forgets({r.link})
             ELSE UNCHANGED Times
    /\ Ends(t)
    /\ UNCHANGED <<run, lock, version, requests, crashes>>

\* refresh_url_preview: the page of the destination it read, stored on the link.
Refresh(t, l) ==
    /\ Receives(t)
    /\ IsLive(l)
    /\ Loads(t, l, "refresh", link[l].dest)
    /\ UNCHANGED <<link, fetched, old, run, lock, version, crashes>>

CommitRefresh(t) ==
    LET r == request[t] IN
    /\ r.step = "refresh"
    /\ \E page \in Outcomes(r.to) :
          IF page # None /\ IsLive(r.link)
          THEN /\ link' = [link EXCEPT ![r.link].page = Written(r.loaded.page, page, @)]
               /\ Stamps({r.link})
          ELSE UNCHANGED <<link, fetched, old>>
    /\ Ends(t)
    /\ UNCHANGED <<run, lock, version, requests, crashes>>

Delete(t, l) ==
    /\ Receives(t)
    /\ IsLive(l)
    /\ link' = [link EXCEPT ![l].state = "deleted"]
    /\ Forgets({l})
    /\ UNCHANGED <<request, run, lock, version, crashes>>

-----------------------------------------------------------------------------
(***************************************************************************)
(* Housekeeping: a run a day in each task, under a lock.                   *)
(***************************************************************************)
Missing == Live \ Range(fetched)
Place(l) == IF HasTime(l) THEN CHOOSE i \in DOMAIN fetched : fetched[i] = l ELSE 0

StaleLinks  == Missing \cup (Oldest \cap Live)

\* stale_links: never fetched first, then from the oldest fetch on, then in the order they were
\* made in; at most Limit.
Precedes(l, m) == Place(l) < Place(m) \/ (Place(l) = Place(m) /\ l < m)

BatchSize == IF Cardinality(StaleLinks) < Limit THEN Cardinality(StaleLinks) ELSE Limit

FirstMade(S) ==    \* mutant: ordered by creation alone
    Cardinality(S) = BatchSize /\ \A l \in S, m \in StaleLinks \ S : l < m
Picks(S) ==
    Cardinality(S) = BatchSize /\ \A l \in S, m \in StaleLinks \ S : Precedes(l, m)

\* run_housekeeping: nothing when another task holds the lock.
StartsWhenIdle(k) == run[k].step = "idle"   \* mutant: the lock is not asked for
MayStart(k)       == run[k].step = "idle" /\ lock = None

StartRun(k) ==
    /\ MayStart(k)
    /\ StaleLinks # {}
    /\ lock' = k
    /\ run' = [run EXCEPT ![k].step = "select"]
    /\ UNCHANGED <<link, fetched, old, request, version, requests, crashes>>

\* Its first session, and the pages it fetches with none open.
PickLinks(k) ==
    /\ run[k].step = "select"
    /\ \E S \in SUBSET StaleLinks :
          /\ Picks(S)
          /\ \E pages \in [Destinations -> Page \cup {None}] :
                /\ \A d \in Destinations :
                      pages[d] \in IF d \in {link[l].dest : l \in S} THEN Outcomes(d) ELSE {None}
                /\ run' = [run EXCEPT ![k] = [NoRun EXCEPT !.step = "load", !.picked = S,
                                                          !.pages = pages]]
    /\ UNCHANGED <<link, fetched, old, request, lock, version, requests, crashes>>

\* Its second one loads the links again...
LoadLinks(k) ==
    /\ run[k].step = "load"
    /\ run' = [run EXCEPT ![k].step = "commit", ![k].picked = @ \cap Live, ![k].loaded = link]
    /\ UNCHANGED <<link, fetched, old, request, lock, version, requests, crashes>>

\* ...and commits the pages of those that still lead where they did.  One of them deleted
\* meanwhile fails the whole commit.
Refreshed(r) == {l \in r.picked : r.pages[r.loaded[l].dest] # None}

CommitRun(k) ==
    LET r == run[k]
        S == Refreshed(r)
    IN
    /\ r.step = "commit"
    /\ IF S \subseteq Live
       THEN /\ link' = [l \in Links |->
                           IF l \in S
                           THEN [link[l] EXCEPT !.page = Written(r.loaded[l].page, r.pages[r.loaded[l].dest], @)]
                           ELSE link[l]]
            /\ Stamps(S)
       ELSE UNCHANGED <<link, fetched, old>>
    /\ run' = [run EXCEPT ![k] = NoRun]
    /\ lock' = None
    /\ UNCHANGED <<request, version, requests, crashes>>

\* The task dies in its run: the lock goes with its connection.
Crash(k) ==
    /\ run[k].step # "idle"
    /\ crashes < MaxCrashes
    /\ crashes' = crashes + 1
    /\ run' = [run EXCEPT ![k] = NoRun]
    /\ lock' = None
    /\ UNCHANGED <<link, fetched, old, request, version, requests>>

\* A request cut short: its task dies, before it stores what it fetched.
CutShort(t) ==
    /\ request[t].step # "idle"
    /\ crashes < MaxCrashes
    /\ crashes' = crashes + 1
    /\ Ends(t)
    /\ UNCHANGED <<link, fetched, old, run, lock, version, requests>>

\* PREVIEW_MAX_AGE passes for the oldest of the fresh previews.
GetsOld ==
    /\ old < Len(fetched)
    /\ old' = old + 1
    /\ UNCHANGED <<link, fetched, request, run, lock, version, requests, crashes>>

PageChanges(d) ==
    /\ version[d] < MaxVersions
    /\ version' = [version EXCEPT ![d] = @ + 1]
    /\ UNCHANGED <<link, fetched, old, request, run, lock, requests, crashes>>

-----------------------------------------------------------------------------
RequestStep(t) == StoreOnCampaign(t) \/ CommitMove(t) \/ CommitRefresh(t)
RunStep(k)     == PickLinks(k) \/ LoadLinks(k) \/ CommitRun(k)

Next ==
    \/ GetsOld
    \/ \E d \in Destinations : PageChanges(d)
    \/ \E t \in Threads :
          \/ RequestStep(t) \/ CutShort(t)
          \/ \E l \in Links :
                \/ Refresh(t, l) \/ Delete(t, l)
                \/ \E d \in Destinations : Create(t, l, d) \/ CreateCampaign(t, l, d) \/ Move(t, l, d)
    \/ \E k \in Tasks : StartRun(k) \/ RunStep(k) \/ Crash(k)

Spec == Init /\ [][Next]_vars

\* Time passes, fetches end (they time out), and a task starts its housekeeping every day.
Fairness ==
    /\ WF_vars(GetsOld)
    /\ \A t \in Threads : WF_vars(RequestStep(t))
    /\ \A k \in Tasks : WF_vars(RunStep(k))
    /\ WF_vars(\E k \in Tasks : StartRun(k))

FairSpec == Spec /\ Fairness

-----------------------------------------------------------------------------
\* A campaign's links show their own page or none, whatever fetches cross: nothing moves them,
\* which is what lets store_page_preview_on_links write by id without looking.
CampaignShowsItsPage ==
    \A l \in Campaign : link[l].page # None => PageOf(l, link[l].dest)

\* A preview, once there, describes the destination: "the old one's would describe another page"
\* (update_url in server/app/urls.py).
DescribesTheDestination ==
    \A l \in Live : link[l].page # None => PageOf(l, link[l].dest)

\* Two tasks never refresh at once, a crash's lock included.
OneRunAtATime ==
    \A k, m \in Tasks : (run[k].step # "idle" /\ run[m].step # "idle") => k = m

\* A preview follows its page, although a run takes fewer links than there are: where the page
\* answers, the link shows in the end what it declares now, as long as the links whose page may
\* not answer are from some day on fewer than a run takes (stale_links takes them first).
PreviewsFollowThePages ==
    <>[](Cardinality({m \in Live : link[m].dest \notin Reliable}) < Limit) =>
        \A l \in Links :
            (IsLive(l) /\ link[l].dest \in Reliable /\ ~Shows(l)) ~> (Shows(l) \/ ~IsLive(l))

=============================================================================
