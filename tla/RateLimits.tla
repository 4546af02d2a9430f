----------------------------- MODULE RateLimits -----------------------------
(***************************************************************************)
(* The rate limits (server/utils/rate_limit.py), one row per key in the    *)
(* database, and their two uses: a request counted before it is let        *)
(* through (the routes by IP, a service account's requests), and failed    *)
(* passwords, checked before the comparison and counted after it           *)
(* (server/app/auth.py).  Requests run in several threads of several       *)
(* tasks, whose clocks differ.                                             *)
(*                                                                         *)
(* Abstracted: one key of each use, and both limits are on.  How a refusal *)
(* is shown, and the headers that tell what is left, are not state.        *)
(***************************************************************************)
EXTENDS Naturals, FiniteSets

CONSTANTS
    Threads,
    Fast,       \* the threads of the task whose clock is Skew ahead
    Skew,
    Window,     \* a limit's window, in ticks
    Keep,       \* _KEEP
    Limit,      \* per_window
    MaxTime,    \* bound: ticks
    MaxCount,   \* bound: nothing more is asked for in a window that has counted as many
    None

VARIABLES
    time,      \* the time, as the slow task's clock has it
    row,       \* row[u]: the row of use u's key, or None
    asking,    \* asking[t]: what t's request is doing
    settled,   \* the window that all are in, or None
    letIn      \* letIn[u]: requests let through, or failures, counted since it settled

rateVars == <<time, row, asking, settled, letIn>>

Uses   == {"requests", "failures"}
Times  == 0 .. MaxTime + Skew
Row    == [start : Times, count : Nat \ {0}]
Asking == [step : {"idle", "check", "compare", "count"}, use : Uses, start : Times,
           waved : BOOLEAN]  \* the database failed it: it goes through

\* What the constants are assumed to be, where the module is instantiated.
RateLimitsAssumption ==
    /\ Fast \subseteq Threads /\ IsFiniteSet(Threads) /\ Threads # {}
    /\ Skew \in Nat /\ Window \in Nat \ {0} /\ Keep \in Nat /\ Limit \in Nat \ {0}
    /\ MaxTime \in Nat /\ MaxCount \in Nat
    /\ None \notin Nat \cup Row

RateTypeOK ==
    /\ time \in 0 .. MaxTime
    /\ row \in [Uses -> Row \cup {None}]
    /\ asking \in [Threads -> Asking]
    /\ settled \in Times \cup {None}
    /\ letIn \in [Uses -> Nat]

NotAsking == [step |-> "idle", use |-> "requests", start |-> 0, waved |-> FALSE]

\* _window: the start of the window on t's clock.
StartAt(t, now) == LET c == IF t \in Fast THEN now + Skew ELSE now IN c - (c % Window)
Start(t)        == StartAt(t, time)

\* The windows somebody is in, if the requests were those of `a` and the time `now`.
Current(a, now) ==
    {StartAt(t, now) : t \in Threads} \cup {a[t].start : t \in {u \in Threads : a[u].step = "count"}}

RateInit ==
    /\ time = 0
    /\ row = [u \in Uses |-> None]
    /\ asking = [t \in Threads |-> NotAsking]
    /\ settled = None
    /\ letIn = [u \in Uses |-> 0]

\* One more let in for use u, if the window stays settled; from zero in a new one.
Tells(n, u) ==
    /\ settled' = IF Cardinality(Current(asking', time')) = 1
                  THEN CHOOSE w \in Current(asking', time') : TRUE ELSE None
    /\ letIn' = IF settled' = settled /\ settled # None
                THEN [letIn EXCEPT ![u] = @ + n] ELSE [v \in Uses |-> 0]

Does(t, a) == asking' = [asking EXCEPT ![t] = a]

-----------------------------------------------------------------------------
\* hit takes its window first, and counts in a statement of its own later.
Hits(t, u) == Does(t, [asking[t] EXCEPT !.step = "count", !.use = u, !.start = Start(t)])

Busy(u) == row[u] # None /\ row[u].count >= MaxCount

\* RateLimitMiddleware, count_service_request: every request is counted, once.
Ask(t) ==
    /\ asking[t].step = "idle" /\ ~Busy("requests")
    /\ Hits(t, "requests")
    /\ UNCHANGED <<time, row>>
    /\ Tells(0, "requests")

\* login, _check_current_password: check takes its window ...
Guess(t) ==
    /\ asking[t].step = "idle" /\ ~Busy("failures")
    /\ Does(t, [NotAsking EXCEPT !.step = "check", !.use = "failures", !.start = Start(t)])
    /\ UNCHANGED <<time, row>>
    /\ Tells(0, "failures")

CountLessOne(u, w) ==  \* a wrong version: as many as the limit are still within it
    IF row[u] # None /\ row[u].start = w THEN row[u].count - 1 ELSE 0
CountIn(u, w) == IF row[u] # None /\ row[u].start = w THEN row[u].count ELSE 0

\* ... and reads the row; over the limit the guess is refused, whatever the password.
Check(t) ==
    /\ asking[t].step = "check"
    /\ IF CountIn("failures", asking[t].start) < Limit
       THEN Does(t, [asking[t] EXCEPT !.step = "compare"])
       ELSE Does(t, NotAsking)
    /\ UNCHANGED <<time, row>>
    /\ Tells(0, "failures")

\* The comparison, some 165 ms: the right password is let in, a wrong one is counted.
Compare(t) ==
    /\ asking[t].step = "compare"
    /\ \/ Does(t, NotAsking)
       \/ Hits(t, "failures")
    /\ UNCHANGED <<time, row>>
    /\ Tells(0, "failures")

\* _increment's purge, of every key.
Kept(w) == [u \in Uses |-> IF row[u] # None /\ row[u].start + Keep < w THEN None ELSE row[u]]

\* Its upsert: one more in the same window, 1 in any other, be it an earlier one.
CountedInTheOldest(u, w) ==  \* a wrong version: the row keeps the window it was inserted with
    LET kept == Kept(w)[u]
    IN  [start |-> IF kept # None THEN kept.start ELSE w,
         count |-> IF kept # None /\ kept.start = w THEN kept.count + 1 ELSE 1]
Counted(u, w) ==
    LET kept == Kept(w)[u]
    IN  [start |-> w, count |-> IF kept # None /\ kept.start = w THEN kept.count + 1 ELSE 1]
\* hit's verdict; a failure is answered 401 whatever the count.
LetsThrough(a, c) == IF a.use = "requests" THEN c <= Limit ELSE ~a.waved

Count(t) ==
    /\ asking[t].step = "count"
    /\ LET u == asking[t].use
           new == Counted(u, asking[t].start)
       IN  /\ row' = [Kept(asking[t].start) EXCEPT ![u] = new]
           /\ Does(t, NotAsking)
           /\ time' = time
           /\ Tells(IF LetsThrough(asking[t], new.count) THEN 1 ELSE 0, u)

\* The database can't count or read: the request goes through, uncounted.
StoreFails(t) ==
    /\ asking[t].step \in {"check", "count"}
    /\ IF asking[t].step = "check"
       THEN Does(t, [asking[t] EXCEPT !.step = "compare", !.waved = TRUE])
       ELSE Does(t, NotAsking)
    /\ UNCHANGED <<time, row>>
    /\ Tells(0, asking[t].use)

Tick ==
    /\ time < MaxTime
    /\ time' = time + 1
    /\ asking' = asking
    /\ UNCHANGED row
    /\ Tells(0, "requests")

RateNext ==
    \/ Tick
    \/ \E t \in Threads : Ask(t) \/ Guess(t) \/ Check(t) \/ Compare(t) \/ Count(t) \/ StoreFails(t)

RateSpec == RateInit /\ [][RateNext]_rateVars

-----------------------------------------------------------------------------
\* The limit by IP, and a service account's, are fixed windows: while all the clocks and the
\* requests under way are in one, at most Limit of those counted are let through, whatever window
\* the row came from (server/utils/rate_limit.py).
Windowed == INSTANCE FixedWindow WITH
    Windows <- Times, Most <- Limit, open <- settled, used <- letIn["requests"]
FixedWindows == Windowed!Spec

\* "Guesses sent at the same moment can all pass check() and overshoot the limit by a few"
\* (server/app/auth.py): by fewer than there are threads, in one window.
FailuresOvershootByAFew == letIn["failures"] < Limit + Cardinality(Threads)
=============================================================================
