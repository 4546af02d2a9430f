----------------------------- MODULE LinkVisits -----------------------------
(***************************************************************************)
(* Following short links: the redirect, the tracking pixel, and what they  *)
(* write (server/app/urls.py), against the edits and deletions made        *)
(* meanwhile.                                                              *)
(*                                                                         *)
(* The handlers are plain `def` routes: each runs in a worker thread with  *)
(* a database session of its own, in READ COMMITTED, so every SELECT sees  *)
(* what the other threads committed before it and nothing holds a link     *)
(* still between two of them.  A request is therefore a thread going       *)
(* through one action per SELECT, and a last one for its flush and commit, *)
(* which the database makes atomic.                                        *)
(*                                                                         *)
(* Abstracted: rows of `visits` are counted by kind, except for the times  *)
(* of the clicks; where the redirect leads (the destination, the rules,    *)
(* the forwarded query) is left to other modules.                          *)
(***************************************************************************)
EXTENDS Integers, FiniteSets

CONSTANTS
    Links,        \* rows of `urls`: a deleted row's id never comes back
    Threads,      \* worker threads of all the tasks, a request at a time each
    Caps,         \* the values `max_visits` takes when it is set
    Windows,      \* the validity windows: `valid_since` and `valid_until`, either may be None
    MaxTime,      \* bound: the clock stops there
    MaxRequests,  \* bound: requests received
    None          \* NULL

ASSUME LinkVisitsAssumption ==
    /\ Links # {}
    /\ Caps \subseteq Nat \ {0}        \* ge=1 in the request's schema
    /\ IsFiniteSet(Threads)
    /\ MaxTime \in Nat
    /\ Windows \subseteq [since : (0 .. MaxTime) \cup {None}, until : (0 .. MaxTime) \cup {None}]
    /\ MaxRequests \in Nat
    /\ None \notin Nat

VARIABLES
    link,       \* link[l]: its row, as committed
    visits,     \* visits[l]: its rows of `visits`, counted by kind
    clickTimes, \* clickTimes[l]: visited_at of its clicks
    orphans,    \* rows of `orphan_visits`
    thread,     \* thread[t]: the request t serves, or its answer
    now,        \* the time
    requests,   \* requests received so far
    peak,       \* history: peak[l], the highest cap l ever had; None once it had none
    opened,     \* history: opened[l], the moments l's window was open
    crossed     \* history: crossed[l], the moments a request took after an edit of the window it read

vars == <<link, visits, clickTimes, orphans, thread, now, requests, peak, opened, crossed>>

Time   == 0 .. MaxTime
Agents == {"person", "bot", "crawler"}  \* ua_is_bot, is_social_media_crawler

\* What an answer tells its caller, by status and reason.
Answers == {"none", "302", "page", "gif", "204", "unknown", "expired", "used_up", "error"}

Row == [live : BOOLEAN, cap : Caps \cup {None}, window : Windows,
        lastClick : Time \cup {None}]

Visits == [click : Nat, bot : Nat, open : Nat]

\* A request under way: what it has read and the time it took.  `seen` is the number
\* of visits a deletion loaded.  One answered keeps its answer.
Request == [step : {"idle", "found", "count", "log", "open", "delete"}, link : Links,
            agent : Agents, nostat : BOOLEAN, window : Windows \cup {None}, at : Time,
            cap : Caps \cup {None}, seen : Nat, answer : Answers]

TypeOK ==
    /\ link \in [Links -> Row]
    /\ visits \in [Links -> Visits]
    /\ clickTimes \in [Links -> SUBSET Time]
    /\ orphans \in Nat
    /\ thread \in [Threads -> Request]
    /\ now \in Time
    /\ requests \in 0 .. MaxRequests
    /\ peak \in [Links -> Caps \cup {None}]
    /\ opened \in [Links -> SUBSET Time]
    /\ crossed \in [Links -> SUBSET Time]

NoVisits == [click |-> 0, bot |-> 0, open |-> 0]
Total(l) == visits[l].click + visits[l].bot + visits[l].open

\* Bot hits and email opens aren't clicks (_click_counts, _exclude_bots).
ClickCount(l) == visits[l].click

Idle(answer) == [step |-> "idle", link |-> CHOOSE l \in Links : TRUE, agent |-> "person",
                 nostat |-> FALSE, window |-> None, at |-> 0, cap |-> None, seen |-> 0,
                 answer |-> answer]

NotYetValid(row, m) == row.window.since # None /\ m < row.window.since
Expired(row, m)     == row.window.until # None /\ m >= row.window.until
OpenAt(row, m)      == ~NotYetValid(row, m) /\ ~Expired(row, m)

Init ==
    /\ link \in [Links -> {row \in Row : row.lastClick = None}]
    /\ visits = [l \in Links |-> NoVisits]
    /\ clickTimes = [l \in Links |-> {}]
    /\ orphans = 0
    /\ thread = [t \in Threads |-> Idle("none")]
    /\ now = 0
    /\ requests = 0
    /\ peak = [l \in Links |-> link[l].cap]
    /\ opened = [l \in Links |-> {m \in {now} : OpenAt(link[l], m)}]
    /\ crossed = [l \in Links |-> {}]

Free(t) == thread[t].step = "idle" /\ requests < MaxRequests

Answered(t, a) == thread' = [thread EXCEPT ![t] = Idle(a)]
Moves(t, r, s) == thread' = [thread EXCEPT ![t] = [r EXCEPT !.step = s]]

-----------------------------------------------------------------------------
(***************************************************************************)
(* The redirect.  Its link is read, then the clock; with a cap, the clicks *)
(* are counted by a second SELECT; then the visit is committed.            *)
(***************************************************************************)
NewRequest(l, agent, nostat) ==
    [step |-> "idle", link |-> l, agent |-> agent, nostat |-> nostat, window |-> None, at |-> 0,
     cap |-> link[l].cap, seen |-> 0, answer |-> "none"]

\* What follows the cap: a social crawler and a `?nostat` request are answered
\* without a row.
PastTheCap(t, r) ==
    \/ r.agent = "crawler" /\ \E a \in {"302", "page"} : Answered(t, a)
    \/ r.agent # "crawler" /\ r.nostat /\ Answered(t, "302")
    \/ r.agent # "crawler" /\ ~r.nostat /\ Moves(t, r, "log")

\* redirect_short_url reads the link.  A code nothing answers is an orphan visit ...
Follow(t, l, agent, nostat) ==
    /\ Free(t)
    /\ requests' = requests + 1
    /\ LET r == [NewRequest(l, agent, nostat) EXCEPT !.window = link[l].window] IN
       \/ ~link[l].live /\ Answered(t, "unknown") /\ orphans' = orphans + 1
       \/ link[l].live  /\ Moves(t, r, "found")   /\ orphans' = orphans
    /\ UNCHANGED <<link, visits, clickTimes, now, peak, opened, crossed>>

\* ... and then takes the time, and checks by it the window it read, up to the click count.  A
\* link not valid yet answers as an unknown code and isn't an orphan visit.
CheckWindow(t) ==
    /\ thread[t].step = "found"
    /\ LET read == thread[t]
           r    == [read EXCEPT !.at = now, !.window = None] IN
       /\ \/ NotYetValid(read, now) /\ Answered(t, "unknown")
          \/ ~NotYetValid(read, now) /\ Expired(read, now) /\ Answered(t, "expired")
          \/ OpenAt(read, now) /\ IF r.cap = None THEN PastTheCap(t, r) ELSE Moves(t, r, "count")
       /\ crossed' = IF read.window = link[r.link].window THEN crossed
                     ELSE [crossed EXCEPT ![r.link] = @ \cup {now}]
    /\ UNCHANGED <<link, visits, clickTimes, orphans, now, requests, peak, opened>>

\* The cap is reached by clicks alone, the `click_count` the API reports.
CapReachedTooLate(r) == ClickCount(r.link) > r.cap   \* mutant: off by one
CapReached(r)        == ClickCount(r.link) >= r.cap

CountClicks(t) ==
    LET r == thread[t] IN
    /\ r.step = "count"
    /\ IF CapReached(r) THEN Answered(t, "used_up") ELSE PastTheCap(t, r)
    /\ UNCHANGED <<link, visits, clickTimes, orphans, now, requests, peak, opened, crossed>>

\* visited_at and last_click_at are the moment the window was checked at, not the commit's.
StampAtCommit(r) == now   \* mutant: the columns' own default
Stamp(r)         == r.at

IsClick(r) == r.agent = "person"

\* Only a click moves `last_click_at`.
LastClickAfterAnyVisit(r) == Stamp(r)   \* mutant: as before Phase 3.16
LastClickAfter(r) == IF IsClick(r) THEN Stamp(r) ELSE link[r.link].lastClick

WithVisit(v, r) ==
    IF IsClick(r) THEN [v EXCEPT !.click = @ + 1] ELSE [v EXCEPT !.bot = @ + 1]

\* The commit: the visit, and `last_click_at` when it is a click.  Both need the link's row:
\* without it the statement fails, and the request answers a 500.
LogVisit(t) ==
    LET r == thread[t] IN
    /\ r.step = "log"
    /\ \/ /\ link[r.link].live
          /\ visits' = [visits EXCEPT ![r.link] = WithVisit(@, r)]
          /\ clickTimes' = [clickTimes EXCEPT ![r.link] =
                               IF IsClick(r) THEN @ \cup {Stamp(r)} ELSE @]
          /\ link' = [link EXCEPT ![r.link].lastClick = LastClickAfter(r)]
          /\ Answered(t, "302")
       \/ /\ ~link[r.link].live
          /\ Answered(t, "error")
          /\ UNCHANGED <<link, visits, clickTimes>>
    /\ UNCHANGED <<orphans, now, requests, peak, opened, crossed>>

(***************************************************************************)
(* The tracking pixel: neither the window nor the cap applies to it, and   *)
(* an unknown code isn't an orphan visit.                                  *)
(***************************************************************************)
AskPixel(t, l) ==
    /\ Free(t)
    /\ requests' = requests + 1
    /\ LET r == NewRequest(l, "person", FALSE) IN
       IF link[l].live THEN Moves(t, r, "open") ELSE Answered(t, "unknown")
    /\ UNCHANGED <<link, visits, clickTimes, orphans, now, peak, opened, crossed>>

LogOpen(t) ==
    LET r == thread[t] IN
    /\ r.step = "open"
    /\ IF link[r.link].live
       THEN visits' = [visits EXCEPT ![r.link].open = @ + 1] /\ Answered(t, "gif")
       ELSE Answered(t, "error") /\ UNCHANGED visits
    /\ UNCHANGED <<link, clickTimes, orphans, now, requests, peak, opened, crossed>>

(***************************************************************************)
(* Deleting and editing the link.                                          *)
(***************************************************************************)
\* delete_url, override_delete_url: db.delete loads the visits its cascade will delete...
LoadToDelete(t, l) ==
    /\ Free(t)
    /\ requests' = requests + 1
    /\ LET r == [NewRequest(l, "person", FALSE) EXCEPT !.seen = Total(l)] IN
       IF link[l].live THEN Moves(t, r, "delete") ELSE Answered(t, "unknown")
    /\ UNCHANGED <<link, visits, clickTimes, orphans, now, peak, opened, crossed>>

\* Mutant: the visits that the session loaded are deleted, and nothing refuses the others.
DeleteLoadedVisits(t) ==
    LET r == thread[t] IN
    /\ r.step = "delete"
    /\ link' = [link EXCEPT ![r.link].live = FALSE, ![r.link].lastClick = None]
    /\ visits' = [visits EXCEPT ![r.link] =
                     IF Total(r.link) = r.seen THEN NoVisits ELSE [NoVisits EXCEPT !.click = 1]]
    /\ clickTimes' = [clickTimes EXCEPT ![r.link] = {}]
    /\ Answered(t, "204")
    /\ UNCHANGED <<orphans, now, requests, peak, opened, crossed>>

\* ...and the commit deletes those and the link.  A visit logged in between still refers to
\* the link: its foreign key fails the whole transaction.  A link already gone is no error
\* (SQLAlchemy only warns of a DELETE that matched nothing).
DeleteLink(t) ==
    LET r == thread[t] IN
    /\ r.step = "delete"
    /\ IF Total(r.link) > r.seen
       THEN Answered(t, "error") /\ UNCHANGED <<link, visits, clickTimes>>
       ELSE /\ link' = [link EXCEPT ![r.link].live = FALSE, ![r.link].lastClick = None]
            /\ visits' = [visits EXCEPT ![r.link] = NoVisits]
            /\ clickTimes' = [clickTimes EXCEPT ![r.link] = {}]
            /\ Answered(t, "204")
    /\ UNCHANGED <<orphans, now, requests, peak, opened, crossed>>

\* The highest cap once `cap` replaces the link's: none at all is above every cap.
PeakWith(l, cap) ==
    IF peak[l] = None \/ cap = None THEN None ELSE IF cap > peak[l] THEN cap ELSE peak[l]

\* update_url on the fields this module has: the cap and the window.
UpdateLink(l) ==
    /\ requests < MaxRequests
    /\ link[l].live
    /\ requests' = requests + 1
    /\ \E cap \in Caps \cup {None}, window \in Windows :
          /\ link' = [link EXCEPT ![l].cap = cap, ![l].window = window]
          /\ peak' = [peak EXCEPT ![l] = PeakWith(l, cap)]
          /\ opened' = [opened EXCEPT ![l] = @ \cup {m \in {now} : OpenAt(link'[l], m)}]
    /\ UNCHANGED <<visits, clickTimes, orphans, thread, now, crossed>>

Tick ==
    /\ now < MaxTime
    /\ now' = now + 1
    /\ opened' = [l \in Links |-> opened[l] \cup {m \in {now'} : OpenAt(link[l], m)}]
    /\ UNCHANGED <<link, visits, clickTimes, orphans, thread, requests, peak, crossed>>

-----------------------------------------------------------------------------
Next ==
    \/ Tick
    \/ \E l \in Links : UpdateLink(l)
    \/ \E t \in Threads :
          \/ CheckWindow(t) \/ CountClicks(t) \/ LogVisit(t) \/ LogOpen(t) \/ DeleteLink(t)
          \/ \E l \in Links :
                \/ AskPixel(t, l) \/ LoadToDelete(t, l)
                \/ \E agent \in Agents, nostat \in BOOLEAN : Follow(t, l, agent, nostat)

Spec == Init /\ [][Next]_vars

-----------------------------------------------------------------------------
\* The cap holds up to the clicks that were let in together: however many requests arrive at
\* once, and however the cap is edited, a link never has as many clicks above the highest cap
\* it had as there are worker threads (redirect_short_url counts, then commits, without a lock).
CapOvershootBounded ==
    \A l \in Links :
        peak[l] # None => visits[l].click <= peak[l] + Cardinality(Threads) - 1

\* "max_visits enforces a hard cap on clicks" (server/core/models/url.py): as long as no edit
\* lowered it, a link has no more clicks than its cap.
HardCap ==
    \A l \in Links : (peak[l] # None /\ link[l].cap = peak[l]) => visits[l].click <= link[l].cap

\* A link's last click is a click: it has one exactly when it has clicks, and it is the time of
\* one of them, whatever bots, opens and crawlers asked meanwhile, and after a deletion.
LastClickIsAClick ==
    \A l \in Links :
        /\ link[l].lastClick = None <=> visits[l].click = 0
        /\ link[l].lastClick # None => link[l].lastClick \in clickTimes[l]

\* A click is stamped with a moment at which its link's window was open, although its commit may
\* come after the link expired or was edited (redirect_short_url keeps the `now` it checked the
\* window with); but for a request that read the window before an edit and the clock after it.
ClicksWithinWindow ==
    \A l \in Links : clickTimes[l] \subseteq opened[l] \cup crossed[l]

\* A deletion takes every visit with it, those logged while it was loading them included.
NoVisitOutlivesItsLink ==
    \A l \in Links : ~link[l].live => Total(l) = 0 /\ clickTimes[l] = {}

=============================================================================
