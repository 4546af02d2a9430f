------------------------------- MODULE Pages -------------------------------
(***************************************************************************)
(* Reading a list a page at a time, while rows are added to it: a link's   *)
(* visits, by number (server/app/analytics.py, list_url_visits), and an    *)
(* organization's audit, by the instant it is to be older than             *)
(* (server/utils/service_accounts.py, audit_page).  Both are newest first, *)
(* and a row's id breaks ties: any id, as they are random.                 *)
(*                                                                         *)
(* A row is added with its instant, committed some time later, and seldom  *)
(* taken away: the audit's are purged, and a visit leaves the period as    *)
(* days pass.  The reader asks for pages until the answer says it is the   *)
(* last.                                                                   *)
(***************************************************************************)
EXTENDS Integers, Sequences, FiniteSets, SequencesExt

CONSTANTS
    ListRows,   \* bound: the ids of the rows
    PageSize,   \* rows of a page
    Span,       \* ticks a period, or the audit, goes back
    Late,       \* ticks between a row's instant and its commit, at most
    LastClock,  \* bound: ticks
    Never

\* What the constants are assumed to be, where the module is instantiated.
PagesAssumption ==
    /\ ListRows \subseteq Nat /\ IsFiniteSet(ListRows)
    /\ PageSize \in Nat \ {0} /\ Span \in Nat /\ Late \in Nat /\ LastClock \in Nat

VARIABLES
    clock,
    written,   \* written[r]: the instant of row r, or Never
    purged,    \* the audit's rows before it are gone
    walk       \* the reader: what it reads, how far it is, what it saw and what was there first

pageVars == <<clock, written, purged, walk>>

Clock == 0 .. LastClock

NotReading == [list |-> "none", step |-> "idle", page |-> 1, before |-> Never, from |-> 0, total |-> 0,
               seen |-> <<>>, owed |-> {}, crossed |-> FALSE]

PageTypeOK ==
    /\ clock \in Clock /\ purged \in Clock
    /\ written \in [ListRows -> Clock \cup {Never}]
    /\ walk.seen \in Seq(ListRows) /\ walk.owed \subseteq ListRows
    /\ walk.before \in Clock \cup {Never} /\ walk.from \in Clock

PagesInit ==
    /\ clock = 0
    /\ written = [r \in ListRows |-> Never]
    /\ purged = 0
    /\ walk = NotReading

Since(from) == {r \in ListRows : written[r] # Never /\ written[r] >= from}

Newer(r, q) == written[r] > written[q] \/ (written[r] = written[q] /\ r > q)

NewestFirst(rows) ==
    CHOOSE s \in [1 .. Cardinality(rows) -> rows] : \A i, j \in DOMAIN s : i < j => Newer(s[i], s[j])

Back(ticks) == IF clock > ticks THEN clock - ticks ELSE 0

-----------------------------------------------------------------------------
(* A link's visits: a period, their number, then a page of them.            *)

StartVisits ==
    /\ walk.step = "idle"
    /\ walk' = [NotReading EXCEPT !.list = "visits", !.step = "count", !.owed = Since(Back(Span))]
    /\ UNCHANGED <<clock, written, purged>>

CountVisits ==
    /\ walk.step = "count"
    /\ walk' = [walk EXCEPT !.step = "read", !.from = Back(Span), !.crossed = FALSE,
                            !.total = Cardinality(Since(Back(Span)))]
    /\ UNCHANGED <<clock, written, purged>>

PageOf(rows, page) ==
    LET all == NewestFirst(rows)
        end == IF page * PageSize < Len(all) THEN page * PageSize ELSE Len(all)
    IN  SubSeq(all, (page - 1) * PageSize + 1, end)

ReadVisits ==
    /\ walk.step = "read"
    /\ walk' = [walk EXCEPT !.seen = @ \o PageOf(Since(walk.from), walk.page),
                            !.step = IF walk.page * PageSize < walk.total THEN "count" ELSE "done",
                            !.page = IF walk.page * PageSize < walk.total THEN @ + 1 ELSE @]
    /\ UNCHANGED <<clock, written, purged>>

-----------------------------------------------------------------------------
(* The audit: a page and where the next one begins.                         *)

StartAudit ==
    /\ walk.step = "idle"
    /\ walk' = [NotReading EXCEPT !.list = "audit", !.step = "audit", !.owed = Since(purged)]
    /\ UNCHANGED <<clock, written, purged>>

Older == {r \in Since(purged) : walk.before = Never \/ written[r] < walk.before}

\* The page as it is, whatever the next row's instant: a wrong version.
AsItIs(page, boundary) == ToSet(page)

\* The rows of the page asked for, less those of the instant the next page begins with.
Earlier(page, boundary) == {r \in ToSet(page) : written[r] # boundary}

ReadAudit ==
    /\ walk.step = "audit"
    /\ LET rows == NewestFirst(Older)
       IN  IF Len(rows) <= PageSize
           THEN walk' = [walk EXCEPT !.seen = @ \o rows, !.step = "done"]
           ELSE LET boundary == written[rows[PageSize + 1]]
                    earlier  == Earlier(SubSeq(rows, 1, PageSize), boundary)
                    page     == NewestFirst(earlier)
                IN  IF earlier = {}
                    THEN walk' = [walk EXCEPT !.before = boundary, !.step = "instant"]
                    ELSE walk' = [walk EXCEPT !.seen = @ \o page, !.before = written[Last(page)]]
    /\ UNCHANGED <<clock, written, purged>>

\* One instant fills the page: all of it, by another query (nothing, if it was purged: a 500).
ReadInstant ==
    /\ walk.step = "instant"
    /\ LET rows == {r \in Since(purged) : written[r] = walk.before}
       IN  walk' = [walk EXCEPT !.seen = @ \o NewestFirst(rows), !.step = IF rows = {} THEN "failed" ELSE "audit"]
    /\ UNCHANGED <<clock, written, purged>>

StopReading ==
    /\ walk.step \in {"done", "failed"}
    /\ walk' = NotReading
    /\ UNCHANGED <<clock, written, purged>>

-----------------------------------------------------------------------------
(* Meanwhile.                                                               *)

WriteRow ==
    /\ \E r \in ListRows, at \in Back(Late) .. clock :
            /\ written[r] = Never
            /\ written' = [written EXCEPT ![r] = at]
    /\ walk' = [walk EXCEPT !.crossed = @ \/ walk.step = "read"]
    /\ UNCHANGED <<clock, purged>>

PurgeAudit ==
    /\ purged < Back(Span)
    /\ purged' = Back(Span)
    /\ UNCHANGED <<clock, written, walk>>

PagesTick ==
    /\ clock < LastClock
    /\ clock' = clock + 1
    /\ UNCHANGED <<written, purged, walk>>

PagesNext ==
    \/ StartVisits \/ CountVisits \/ ReadVisits
    \/ StartAudit \/ ReadAudit \/ ReadInstant \/ StopReading
    \/ WriteRow \/ PurgeAudit \/ PagesTick

PagesSpec == PagesInit /\ [][PagesNext]_pageVars

-----------------------------------------------------------------------------
(* Properties.                                                              *)

Saw(r) == Cardinality({i \in DOMAIN walk.seen : walk.seen[i] = r})

\* Who reads every page sees every row that was there at the start and still is, whatever is
\* added meanwhile: each once in the audit, whose pages never end between two rows of an instant
\* ("so `before` skips none"); at least once among a link's visits, unless one was added between
\* the two queries of the last page, which its count then does not know of.
PagesMissNothing ==
    walk.step = "done" =>
        IF walk.list = "audit"
        THEN /\ \A r \in walk.owed \cap Since(purged) : Saw(r) = 1
             /\ \A r \in ListRows : Saw(r) <= 1
        ELSE ~walk.crossed => walk.owed \cap Since(walk.from) \subseteq ToSet(walk.seen)
=============================================================================
