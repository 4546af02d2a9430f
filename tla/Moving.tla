------------------------------- MODULE Moving -------------------------------
(***************************************************************************)
(* Moving from Shlink (server/tools/shlink): an export of its links and    *)
(* visits, page by page, into a snapshot, and imports of snapshots.        *)
(* Shlink changes while it is exported, may hold a link twice, and fails   *)
(* on some visits; Shurly changes while a snapshot is imported.            *)
(*                                                                         *)
(* Abstracted: a link is a code and a destination, its title, tags and     *)
(* rules left out.  The visits of one link, or of one of its ranges, are   *)
(* listed at once: only those of the export's own second can come between  *)
(* their pages.  One operator exports, then imports, and an import is one  *)
(* transaction.  Once a link's visits are recovered, Shlink fails on those *)
(* it cannot serialize only.                                               *)
(***************************************************************************)
EXTENDS Integers, Sequences, FiniteSets, SequencesExt

CONSTANTS
    ShlinkRows,  \* bound: Shlink's rows, numbered as they are made
    CodeOf,      \* CodeOf[r]: the code of row r, a number
    DestOf,      \* DestOf[r]: its destination
    HeldFirst,   \* the rows Shlink may hold at first
    OwnPaths,    \* the codes Shurly serves itself
    ListSize,    \* items of a page
    Budget,      \* RECOVERY_REQUESTS
    LastSecond,  \* bound: seconds
    MaxTheirs,   \* bound: visits at Shlink
    MaxChanges,  \* bound: those, links made or deleted, there or here, and visits here
    Absent

\* What the constants are assumed to be, where the module is instantiated.
MovingAssumption ==
    /\ ShlinkRows \subseteq Nat /\ IsFiniteSet(ShlinkRows)
    /\ HeldFirst \subseteq SUBSET ShlinkRows
    /\ CodeOf \in [ShlinkRows -> Nat] /\ DOMAIN DestOf = ShlinkRows
    /\ \A r \in ShlinkRows : DestOf[r] # Absent
    /\ {ListSize, Budget, LastSecond} \subseteq Nat \ {0} /\ MaxTheirs \in Nat

VARIABLES
    second,      \* the time
    held,        \* Shlink's rows
    theirVisits, \* Shlink's visits, as they came: their row, second, and whether it can serialize them
    export,      \* the export that runs
    snapshot,    \* the one that was written, until the next export starts, or Absent
    ourLink,     \* ourLink[c]: Shurly's link of code c: its destination, or Absent
    moved,       \* moved[v]: how many times visit v is in Shurly
    own,         \* own[c]: the last of Shurly's own visits of the link, of a known and an unknown address
    importing,   \* the import that runs, or Absent
    imported,    \* imported[c]: the last second of what was imported of c's visits
    changes

movingVars == <<second, held, theirVisits, export, snapshot, ourLink, moved, own, importing, imported, changes>>

Codes   == {CodeOf[r] : r \in ShlinkRows}
Dests   == {DestOf[r] : r \in ShlinkRows}
Seconds == 0 .. LastSecond
shlink  == <<second, held, theirVisits>>
shurly  == <<ourLink, moved, own, imported>>

NoExport  == [step |-> "idle", page |-> 1, until |-> 0, listed |-> <<>>, counts |-> {}, visits |-> FALSE,
              links |-> <<>>, entries |-> <<>>, stayed |-> {}, made |-> FALSE, gone |-> FALSE,
              pending |-> <<>>, requests |-> 0, found |-> <<>>, gaps |-> {}, owed |-> {}]
NotBefore == -1
NoOwn     == [known |-> -1, unknown |-> -1]

MovingInit ==
    /\ second = 0
    /\ held \in HeldFirst
    /\ theirVisits = <<>>
    /\ export = NoExport
    /\ snapshot = Absent
    /\ ourLink = [c \in Codes |-> Absent]
    /\ moved = [v \in 1 .. MaxTheirs |-> 0]
    /\ own = [c \in Codes |-> NoOwn]
    /\ importing = Absent
    /\ imported = [c \in Codes |-> NotBefore]
    /\ changes = 0

\* The members of S, each before those it is to come before.
Sorted(S, Before(_, _)) ==
    CHOOSE s \in [1 .. Cardinality(S) -> S] : \A i, j \in DOMAIN s : i < j => Before(s[i], s[j])

CountPages(n) == (n + ListSize - 1) \div ListSize

-----------------------------------------------------------------------------
(* The export.  First every link, in code order.                            *)

\* An earlier snapshot is not followed further: one that is imported after this export has failed
\* is as if it had not started.
StartExport ==
    /\ export.step = "idle"
    /\ importing = Absent
    /\ snapshot' = Absent
    /\ \E v \in BOOLEAN : export' = [NoExport EXCEPT !.step = "list", !.until = second, !.visits = v,
                                                     !.stayed = held]
    /\ UNCHANGED <<shlink, shurly, importing, changes>>

ByCode(r, q)  == CodeOf[r] < CodeOf[q] \/ (CodeOf[r] = CodeOf[q] /\ r < q)
Ordered(rows) == Sorted(rows, ByCode)

Total(r) == Cardinality({v \in DOMAIN theirVisits : theirVisits[v].row = r})

Listed(page) ==
    LET all  == Ordered(held)
        end  == IF page * ListSize < Len(all) THEN page * ListSize ELSE Len(all)
        rows == SubSeq(all, (page - 1) * ListSize + 1, end)
    IN  [i \in DOMAIN rows |-> [row |-> rows[i], total |-> Total(rows[i])]]

\* One page that counts what they brought is enough: a wrong version.
LastCounts(counts, brought) == brought \in counts

\* Every page counts as many as the pages brought.
Counts(counts, brought) == counts = {brought}

ListPage ==
    /\ export.step = "list"
    /\ LET listed == export.listed \o Listed(export.page)
           counts == export.counts \cup {Cardinality(held)}
           last   == export.page >= CountPages(Cardinality(held))
       IN  export' = IF ~last THEN [export EXCEPT !.listed = listed, !.counts = counts, !.page = @ + 1]
                     ELSE IF Counts(counts, Len(listed))
                     THEN [export EXCEPT !.listed = listed, !.step = "collapse"]
                     ELSE NoExport
    /\ UNCHANGED <<shlink, snapshot, shurly, importing, changes>>

CodeAt(i)    == CodeOf[export.listed[i].row]
Copies(c)    == {i \in DOMAIN export.listed : CodeAt(i) = c}
Repeated     == {c \in Codes : Cardinality(Copies(c)) > 1}
Differing(c) == \E i, j \in Copies(c) : DestOf[export.listed[i].row] # DestOf[export.listed[j].row]
Holds(c)     == Cardinality({r \in held : CodeOf[r] = c})

FirstCopies ==
    LET first == {i \in DOMAIN export.listed : \A j \in Copies(CodeAt(i)) : i <= j}
        order == Sorted(first, <)
    IN  [i \in DOMAIN order |-> export.listed[order[i]]]

\* A link listed twice is asked for again: as many copies as Shlink holds, and the same.
Collapse ==
    /\ export.step = "collapse"
    /\ export' = IF \E c \in Repeated : Differing(c) \/ Holds(c) # Cardinality(Copies(c))
                 THEN NoExport
                 ELSE [export EXCEPT !.step = "visits", !.listed = <<>>, !.counts = {}, !.page = 1,
                                     !.links = FirstCopies]
    /\ UNCHANGED <<shlink, snapshot, shurly, importing, changes>>

-----------------------------------------------------------------------------
(* Then the visits of each, up to the second the export started.  A page    *)
(* with a visit Shlink cannot serialize fails; a range that fails is cut in *)
(* two, down to a second, which is read a visit at a time.                  *)

Later(v, w) == theirVisits[v].at > theirVisits[w].at \/ (theirVisits[v].at = theirVisits[w].at /\ v > w)
LatestFirst(vs) == Sorted(vs, Later)

Serializable(v)        == theirVisits[v].good
Serializes(vs) == \A v \in vs : Serializable(v)

\* The requests a listing takes, to its end or to the first page that fails.
Asks(vs) ==
    LET all == LatestFirst(vs)
        bad == {i \in DOMAIN all : ~Serializable(all[i])}
    IN  IF bad # {} THEN CountPages(CHOOSE i \in bad : \A j \in bad : i <= j)
        ELSE IF vs = {} THEN 1 ELSE CountPages(Len(all))

\* Of a second read a visit at a time, those that serialize.  The first pages tell how many there
\* are; two that fail before any did end it.
Told(vs)      == \E i \in DOMAIN LatestFirst(vs) \cap {1, 2} : Serializable(LatestFirst(vs)[i])
OneSecond(vs) == IF Told(vs) THEN {v \in vs : Serializable(v)} ELSE {}
OneByOne(vs)  == IF Told(vs) THEN Cardinality(vs) ELSE 2

During(vs, range) == {v \in vs : range.start <= theirVisits[v].at /\ theirVisits[v].at <= range.end}

Halves(range) ==
    LET middle == (range.start + range.end) \div 2
    IN  <<[start |-> range.start, end |-> middle], [start |-> middle + 1, end |-> range.end]>>

Open == [start |-> 0, end |-> LastSecond]  \* of visits that are counted and no range reaches

\* The link whose visits are next, and those Shlink lists for it: of the row it finds for a code that
\* it holds twice.
Current  == export.links[Len(export.entries) + 1]
CodeNow  == CodeOf[Current.row]
RowOf(c) == LET rows == {r \in held : CodeOf[r] = c} IN CHOOSE r \in rows : \A q \in rows : r <= q
TheVisits ==
    {v \in DOMAIN theirVisits :
        Holds(CodeNow) > 0 /\ theirVisits[v].row = RowOf(CodeNow) /\ theirVisits[v].at <= export.until}

WithEntry(found, gaps, owed) ==
    [export EXCEPT !.step = "visits",
                   !.entries = Append(@, [code |-> CodeNow, dest |-> DestOf[Current.row],
                                          found |-> found, gaps |-> gaps, owed |-> owed]),
                   !.pending = <<>>, !.requests = 0, !.found = <<>>, !.gaps = {}, !.owed = {}]

\* Shlink may fail though it could serialize them all, and a link that is gone ends the export.
ListVisitsOf ==
    /\ export.step = "visits"
    /\ Len(export.entries) < Len(export.links)
    /\ \/ /\ ~export.visits
          /\ export' = WithEntry(<<>>, {}, {})
       \/ /\ export.visits /\ Holds(CodeNow) = 0
          /\ export' = NoExport
       \/ /\ export.visits /\ Holds(CodeNow) > 0 /\ Serializes(TheVisits)
          /\ export' = WithEntry(LatestFirst(TheVisits), {}, TheVisits)
       \/ /\ export.visits /\ Holds(CodeNow) > 0
          /\ export' = [export EXCEPT !.step = "recover", !.owed = TheVisits,
                                      !.pending = <<[start |-> 0, end |-> export.until]>>]
    /\ UNCHANGED <<shlink, snapshot, shurly, importing, changes>>

Recovering == export.step = "recover" /\ export.pending # <<>>

RecoverRange ==
    /\ Recovering
    /\ export.requests < Budget
    /\ LET range == Last(export.pending)
           vs    == During(TheVisits, range)
           asked == [export EXCEPT !.pending = Front(@), !.requests = @ + Asks(vs)]
       IN  \/ /\ Holds(CodeNow) = 0
              /\ export' = NoExport
           \/ /\ Holds(CodeNow) > 0 /\ Serializes(vs)
              /\ export' = [asked EXCEPT !.found = @ \o LatestFirst(vs)]
           \/ /\ Holds(CodeNow) > 0 /\ ~Serializes(vs) /\ range.start < range.end
              /\ export' = [asked EXCEPT !.pending = @ \o Halves(range)]
           \/ /\ Holds(CodeNow) > 0 /\ ~Serializes(vs) /\ range.start >= range.end
              /\ export' = [asked EXCEPT !.requests = @ + OneByOne(vs), !.gaps = @ \cup {range},
                                         !.found = @ \o LatestFirst(OneSecond(vs))]
    /\ UNCHANGED <<shlink, snapshot, shurly, importing, changes>>

\* What is left past the budget is lost, as it is.
GiveUpRanges ==
    /\ Recovering
    /\ export.requests >= Budget
    /\ export' = [export EXCEPT !.pending = <<>>, !.gaps = @ \cup ToSet(export.pending)]
    /\ UNCHANGED <<shlink, snapshot, shurly, importing, changes>>

EndRecovery ==
    /\ export.step = "recover" /\ export.pending = <<>>
    /\ LET fewer == export.gaps = {} /\ Len(export.found) < Current.total
       IN  export' = WithEntry(export.found, IF fewer THEN {Open} ELSE export.gaps, export.owed)
    /\ UNCHANGED <<shlink, snapshot, shurly, importing, changes>>

WriteSnapshot ==
    /\ export.step = "visits"
    /\ Len(export.entries) = Len(export.links)
    /\ snapshot' = [links |-> ToSet(export.entries), until |-> export.until, visits |-> export.visits,
                    stayed |-> export.stayed, moving |-> export.made /\ export.gone]
    /\ export' = NoExport
    /\ UNCHANGED <<shlink, shurly, importing, changes>>

ExportFails ==
    /\ export.step # "idle"
    /\ export' = NoExport
    /\ UNCHANGED <<shlink, snapshot, shurly, importing, changes>>

-----------------------------------------------------------------------------
(* Imports: what the review keeps, planned first, then written and          *)
(* committed at once.                                                       *)

Newest(times) == CHOOSE t \in times : \A u \in times : t >= u
VisitCode(v)  == CodeOf[theirVisits[v].row]
Moved(c)      == {theirVisits[v].at : v \in {v \in DOMAIN theirVisits : moved[v] > 0 /\ VisitCode(v) = c}}

\* The newest of a link's visits of no known address: imported ones have none.
Latest(c) == Newest(Moved(c) \cup {own[c].unknown})

StartImport ==
    /\ importing = Absent /\ export.step = "idle"
    /\ snapshot # Absent
    /\ \E dropped \in SUBSET {e.code : e \in snapshot.links}, withVisits \in BOOLEAN :
        LET kept == {e \in snapshot.links : e.code \notin dropped}
        IN  /\ \A e \in kept : e.code \notin OwnPaths /\ ourLink[e.code] \in {Absent, e.dest}
            /\ importing' = [plan |-> kept, new |-> {e.code : e \in {e \in kept : ourLink[e.code] = Absent}},
                             visits |-> withVisits /\ snapshot.visits, until |-> snapshot.until]
    /\ UNCHANGED <<shlink, export, snapshot, shurly, changes>>

\* The last second is taken again: a wrong version.
NotOlder(at, latest) == at >= latest

\* Not imported before: later than what was.
IsNewer(at, latest) == at > latest

Brings(e) ==
    {v \in ToSet(e.found) :
        importing.visits /\ (e.code \in importing.new \/ IsNewer(theirVisits[v].at, Latest(e.code)))}

Copied(v, s) == Cardinality({i \in DOMAIN s : s[i] = v})

CommitImport ==
    /\ importing # Absent
    /\ \A e \in importing.plan : IF e.code \in importing.new THEN ourLink[e.code] = Absent
                                 ELSE Brings(e) # {} => ourLink[e.code] # Absent
    /\ ourLink' = [c \in Codes |-> IF c \in importing.new
                                   THEN (CHOOSE e \in importing.plan : e.code = c).dest ELSE ourLink[c]]
    /\ moved' = [v \in DOMAIN moved |->
                    LET of == {e \in importing.plan : v \in Brings(e)}
                    IN  IF of = {} THEN moved[v] ELSE moved[v] + Copied(v, (CHOOSE e \in of : TRUE).found)]
    /\ imported' = [c \in Codes |->
                    IF importing.visits /\ c \in {e.code : e \in importing.plan}
                    THEN importing.until ELSE imported[c]]
    /\ importing' = Absent
    /\ UNCHANGED <<shlink, export, snapshot, own, changes>>

\* A dry run, a crash, or a link made or deleted meanwhile: all of it is rolled back.
RollbackImport ==
    /\ importing # Absent
    /\ importing' = Absent
    /\ UNCHANGED <<shlink, export, snapshot, shurly, changes>>

-----------------------------------------------------------------------------
(* Meanwhile, at Shlink.  A row's copies are made after it.                  *)

MayChange == changes + Len(theirVisits) < MaxChanges
Between   == export.step = "list" /\ export.page > 1

ShlinkMakes ==
    /\ MayChange
    /\ \E r \in ShlinkRows \ held :
        /\ \A v \in DOMAIN theirVisits : theirVisits[v].row # r
        /\ \A q \in held : CodeOf[q] = CodeOf[r] => q < r
        /\ held' = held \cup {r}
    /\ export' = [export EXCEPT !.made = @ \/ Between]
    /\ changes' = changes + 1
    /\ UNCHANGED <<second, theirVisits, snapshot, shurly, importing>>

\* What is deleted is owed no more: a link while they are listed, its visits while they are recovered.
ShlinkDeletes ==
    /\ MayChange
    /\ \E r \in held :
        /\ held' = held \ {r}
        /\ export' = [export EXCEPT !.gone = @ \/ Between,
                                    !.stayed = IF export.step = "list" THEN @ \ {r} ELSE @,
                                    !.owed = {v \in @ : theirVisits[v].row # r}]
    /\ changes' = changes + 1
    /\ UNCHANGED <<second, theirVisits, snapshot, shurly, importing>>

ShlinkVisited ==
    /\ Len(theirVisits) < MaxTheirs /\ MayChange
    /\ \E r \in held, good \in BOOLEAN :
            theirVisits' = Append(theirVisits, [row |-> r, at |-> second, good |-> good])
    /\ UNCHANGED <<second, held, export, snapshot, shurly, importing, changes>>

(* And at Shurly. *)

ShurlyMakes ==
    /\ MayChange
    /\ \E c \in Codes \ OwnPaths, d \in Dests :
        /\ ourLink[c] = Absent
        /\ ourLink' = [ourLink EXCEPT ![c] = d]
    /\ changes' = changes + 1
    /\ UNCHANGED <<shlink, export, snapshot, moved, own, imported, importing>>

ShurlyDeletes ==
    /\ MayChange
    /\ \E c \in Codes :
        /\ ourLink[c] # Absent
        /\ ourLink' = [ourLink EXCEPT ![c] = Absent]
        /\ moved' = [v \in DOMAIN moved |-> IF v \in DOMAIN theirVisits /\ VisitCode(v) = c THEN 0 ELSE moved[v]]
        /\ own' = [own EXCEPT ![c] = NoOwn]
        /\ imported' = [imported EXCEPT ![c] = NotBefore]
    /\ changes' = changes + 1
    /\ UNCHANGED <<shlink, export, snapshot, importing>>

ShurlyVisited ==
    /\ MayChange
    /\ \E c \in Codes :
        /\ ourLink[c] # Absent
        /\ \/ own' = [own EXCEPT ![c].known = second]
           \/ own' = [own EXCEPT ![c].unknown = second]
    /\ changes' = changes + 1
    /\ UNCHANGED <<shlink, export, snapshot, ourLink, moved, imported, importing>>

SecondPasses ==
    /\ second < LastSecond
    /\ second' = second + 1
    /\ UNCHANGED <<held, theirVisits, export, snapshot, shurly, importing, changes>>

MovingNext ==
    \/ StartExport \/ ListPage \/ Collapse \/ ListVisitsOf
    \/ RecoverRange \/ GiveUpRanges \/ EndRecovery \/ WriteSnapshot \/ ExportFails
    \/ StartImport \/ CommitImport \/ RollbackImport
    \/ ShlinkMakes \/ ShlinkDeletes \/ ShlinkVisited
    \/ ShurlyMakes \/ ShurlyDeletes \/ ShurlyVisited \/ SecondPasses

MovingSpec == MovingInit /\ [][MovingNext]_movingVars

-----------------------------------------------------------------------------
(* Properties.                                                              *)

Times   == Seconds \cup {NotBefore}
Theirs  == [row : ShlinkRows, at : Seconds, good : BOOLEAN]
Intervals  == [start : Nat, end : Nat]
Items   == [row : ShlinkRows, total : Nat]
Entries == [code : Codes, dest : Dests, found : Seq(Nat), gaps : SUBSET Intervals, owed : SUBSET Nat]
Exports == [step : {"idle", "list", "collapse", "visits", "recover"}, page : Nat \ {0}, until : Seconds,
            listed : Seq(Items), counts : SUBSET Nat, visits : BOOLEAN, links : Seq(Items),
            entries : Seq(Entries), stayed : SUBSET ShlinkRows, made : BOOLEAN, gone : BOOLEAN,
            pending : Seq(Intervals), requests : Nat, found : Seq(Nat), gaps : SUBSET Intervals, owed : SUBSET Nat]
Snapshots == [links : SUBSET Entries, until : Seconds, visits : BOOLEAN, stayed : SUBSET ShlinkRows,
              moving : BOOLEAN]
Imports == [plan : SUBSET Entries, new : SUBSET Codes, visits : BOOLEAN, until : Seconds]

MovingTypeOK ==
    /\ second \in Seconds /\ held \in SUBSET ShlinkRows
    /\ theirVisits \in Seq(Theirs) /\ Len(theirVisits) <= MaxTheirs
    /\ export \in Exports
    /\ snapshot # Absent => snapshot \in Snapshots
    /\ importing # Absent => importing \in Imports
    /\ ourLink \in [Codes -> Dests \cup {Absent}]
    /\ moved \in [1 .. MaxTheirs -> {0, 1}]
    /\ own \in [Codes -> [known : Times, unknown : Times]]
    /\ imported \in [Codes -> Times]
    /\ changes \in Nat

\* "An export is whole or there's none" (export.py): a snapshot lists every link Shlink held all
\* the while it was listed, each once, and with visits has each of a link's once or names a range
\* it lost it in.  But when one link is deleted and another made between two pages, the count
\* stays as it was, and a link that slid to a page read before is missed.
ExportIsWholeOrNone ==
    snapshot # Absent =>
        /\ ~snapshot.moving => \A r \in snapshot.stayed : \E e \in snapshot.links : e.code = CodeOf[r]
        /\ \A e, f \in snapshot.links : e.code = f.code => e = f
        /\ snapshot.visits => \A e \in snapshot.links :
                /\ Len(e.found) = Cardinality(ToSet(e.found))
                /\ \A v \in e.owed \ ToSet(e.found) :
                        \E gap \in e.gaps : gap.start <= theirVisits[v].at /\ theirVisits[v].at <= gap.end

\* However often snapshots are imported, a visit comes once, and those of an imported snapshot
\* are there, but those an earlier one should have had: it lost them ("a gap stays a gap"), or
\* they came later in its last second; and but those no newer than a visit of Shurly's own whose
\* address is not known, which passes for an imported one (importer.py, `_visits`).
EveryVisitMovesOnce ==
    [][(importing # Absent /\ importing' = Absent /\ imported' # imported) =>
        \A e \in importing.plan : importing.visits => \A v \in ToSet(e.found) :
            \/ moved'[v] = 1
            \/ /\ moved'[v] = 0
               /\ \/ theirVisits[v].at <= own[e.code].unknown
                  \/ theirVisits[v].at <= imported[e.code]]_movingVars
=============================================================================
