------------------------------ MODULE Orphans ------------------------------
(***************************************************************************)
(* Hits on codes no link has, by the path tried, and the links a typo was  *)
(* meant for (server/utils/orphans.py, the two routes of analytics.py, the *)
(* MCP tool of mcp_server/curated.py, and where urls.py records them).     *)
(*                                                                         *)
(* Abstracted: a path is its characters past the slash; a hit's time is    *)
(* its place in hits, so none are of one instant; an answer's queries run  *)
(* at one moment (Analytics has what comes between).                       *)
(***************************************************************************)
EXTENDS Naturals, Sequences, SequencesExt, FiniteSets, FiniteSetsExt

CONSTANTS
    LowerCase,    \* what codes are made of where they are lowercase
    Upper,        \* Upper[c]: a letter's upper case; c itself has none otherwise
    Other,        \* a character no code has
    Longest,      \* LONGEST_CODE
    Suggestions,  \* SUGGESTIONS
    Samples,      \* hits the MCP tool shows of a path
    Scanners,     \* SCANNER_WORDS
    Paths,        \* the paths people and scanners try
    Codes,        \* the codes links may have
    MaxRows       \* bound: hits and links

\* What the constants are assumed to be, where the module is extended.
OrphansAssumption ==
    /\ {Longest, Suggestions, Samples} \subseteq Nat \ {0}
    /\ DOMAIN Upper \subseteq LowerCase
    /\ Other \notin LowerCase
    /\ \A path \in Paths : path \in Seq(LowerCase \cup {Upper[c] : c \in DOMAIN Upper} \cup {Other})
    /\ \A code \in Codes : Len(code) \in 1 .. Longest
    /\ MaxRows \in Nat

VARIABLES
    loose,  \* short_url_mode: codes are lowercase
    hits,   \* orphan_visits, as they came
    links   \* the links, as they were made: code, and whether the viewer sees it

orphanVars == <<loose, hits, links>>

Kinds          == {"base_url", "invalid_short_url"}
CodeCharacters == LowerCase \cup {Upper[c] : c \in DOMAIN Upper}
Alphabet       == IF loose THEN LowerCase ELSE CodeCharacters

OrphansTypeOK ==
    /\ loose \in BOOLEAN
    /\ hits \in Seq([path : Seq(CodeCharacters \cup {Other}), bot : BOOLEAN, type : Kinds])
    /\ links \in Seq([code : Codes \cap Seq(Alphabet), seen : BOOLEAN])
    /\ Len(hits) + Len(links) <= MaxRows
    /\ \A i \in DOMAIN hits : hits[i].type = "base_url" <=> hits[i].path = <<>>

OrphansInit == loose \in BOOLEAN /\ hits = <<>> /\ links = <<>>

\* A person's or a bot's: of a path that is a link's on another domain, or in another case, too.
Hit ==
    /\ Len(hits) + Len(links) < MaxRows
    /\ \E path \in Paths, bot \in BOOLEAN :
            hits' = Append(hits, [path |-> path, bot |-> bot,
                                  type |-> IF path = <<>> THEN "base_url" ELSE "invalid_short_url"])
    /\ UNCHANGED <<loose, links>>

MakeLink ==
    /\ Len(hits) + Len(links) < MaxRows
    /\ \E code \in Codes \cap Seq(Alphabet), seen \in BOOLEAN : links' = Append(links, [code |-> code, seen |-> seen])
    /\ UNCHANGED <<loose, hits>>

OrphansNext == Hit \/ MakeLink

OrphansSpec == OrphansInit /\ [][OrphansNext]_orphanVars

-----------------------------------------------------------------------------
(* What a typo was meant for.                                               *)

Lower(code) == [i \in DOMAIN code |-> IF \E c \in DOMAIN Upper : Upper[c] = code[i]
                                      THEN CHOOSE c \in DOMAIN Upper : Upper[c] = code[i] ELSE code[i]]

IsCode(path) == Len(path) \in 1 .. Longest /\ path \in Seq(CodeCharacters)

TypedCode(path) == IF loose THEN Lower(path) ELSE path

Swapped(code, i) == [code EXCEPT ![i] = code[i + 1], ![i + 1] = code[i]]

\* Characters are inserted before another only, never at the end: a wrong version.
InsertedInside(code, alphabet) == {InsertAt(code, i, c) : i \in 1 .. Len(code), c \in alphabet}

InsertedInto(code, alphabet) == {InsertAt(code, i, c) : i \in 1 .. Len(code) + 1, c \in alphabet}

OneEditAway(code, alphabet) ==
    LET deleted  == {RemoveAt(code, i) : i \in DOMAIN code}
        swapped  == {Swapped(code, i) : i \in 1 .. Len(code) - 1}
        replaced == {[code EXCEPT ![i] = c] : i \in DOMAIN code, c \in alphabet}
    IN  {edit \in deleted \cup swapped \cup replaced \cup InsertedInto(code, alphabet) \cup {code} :
            Len(edit) \in 1 .. Longest}

\* The members of a set as ORDER BY has them.
Sorted(S, Before(_, _)) ==
    CHOOSE s \in [1 .. Cardinality(S) -> S] : \A i, j \in DOMAIN s : i < j => Before(s[i], s[j])

\* The same code first, then the newest.
Likelier(typed, i, j) ==
    \/ links[i].code = typed /\ links[j].code # typed
    \/ (links[i].code = typed <=> links[j].code = typed) /\ i > j

LikeliestFirst(typed, S) == Sorted(S, LAMBDA i, j : Likelier(typed, i, j))

DidYouMean(path) ==
    IF ~IsCode(path) THEN <<>>
    ELSE LET typed == TypedCode(path)
             near  == {i \in DOMAIN links : links[i].seen /\ links[i].code \in OneEditAway(typed, Alphabet)}
             found == LikeliestFirst(typed, near)
         IN  SubSeq(found, 1, Min({Suggestions, Len(found)}))

-----------------------------------------------------------------------------
(* The paths tried, a page at a time.                                       *)

\* A scanners' word that is a link's code, in any case, hides nothing.
ScannerPaths == Scanners \ {Lower(links[i].code) : i \in DOMAIN links}

TypoHits(shown) == {i \in shown : /\ hits[i].type = "invalid_short_url"
                                  /\ IsCode(hits[i].path)
                                  /\ Lower(hits[i].path) \notin ScannerPaths
                                  /\ ~hits[i].bot}

Tried(since, until, types) == {i \in DOMAIN hits : since <= i /\ i < until /\ hits[i].type \in types}

Shown(all, typosOnly) == IF typosOnly THEN TypoHits(all) ELSE all

PathsOf(shown) == {hits[i].path : i \in shown}

HitsOn(path, shown) == {i \in shown : hits[i].path = path}

Group(path, shown) ==
    LET of == HitsOn(path, shown)
    IN  [path |-> path, visits |-> Cardinality(of), first |-> Min(of), last |-> Max(of)]

MoreTried(g, h) == g.visits > h.visits \/ (g.visits = h.visits /\ g.last > h.last)

GroupsOf(shown) == {Group(path, shown) : path \in PathsOf(shown)}

MostTriedFirst(groups) == Sorted(groups, MoreTried)

NewestFirst(shown) == Sorted(shown, LAMBDA i, j : i > j)

HiddenPaths(all, shown) == Cardinality(PathsOf(all)) - Cardinality(PathsOf(shown))

OrphanGroups(since, until, types, typosOnly, skip, limit) ==
    LET all    == Tried(since, until, types)
        shown  == Shown(all, typosOnly)
        groups == MostTriedFirst(GroupsOf(shown))
    IN  [groups       |-> SubSeq(groups, skip + 1, Min({skip + limit, Len(groups)})),
         totalVisits  |-> Cardinality(shown),
         totalPaths   |-> Cardinality(PathsOf(shown)),
         hiddenVisits |-> Cardinality(all) - Cardinality(shown),
         hiddenPaths  |-> HiddenPaths(all, shown)]

\* The route: a page of them, how many pages there are, and what each path was meant for.
GetOrphanVisitGroups(since, until, typosOnly, page, size) ==
    LET found == OrphanGroups(since, until, {"invalid_short_url"}, typosOnly, (page - 1) * size, size)
    IN  [found |-> found,
         pages |-> (found.totalPaths + size - 1) \div size,
         didYouMean |-> [i \in DOMAIN found.groups |-> DidYouMean(found.groups[i].path)]]

\* The tool's own query: a path's newest hits, of those counted, newest first.
NewestHits(path, since, typosOnly) ==
    LET shown  == Shown(Tried(since, Len(hits) + 1, Kinds), typosOnly)
        newest == NewestFirst(HitsOn(path, shown))
    IN  SubSeq(newest, 1, Min({Samples, Len(newest)}))

\* Of every kind and until now, with samples.
ListOrphanVisitsGrouped(since, typosOnly, limit) ==
    LET found == OrphanGroups(since, Len(hits) + 1, Kinds, typosOnly, 0, limit)
    IN  [found |-> found,
         didYouMean |-> [i \in DOMAIN found.groups |-> DidYouMean(found.groups[i].path)],
         samples |-> [i \in DOMAIN found.groups |-> NewestHits(found.groups[i].path, since, typosOnly)]]

\* Every hit, newest first.
GetOrphanVisits(skip, limit) ==
    LET all == NewestFirst(DOMAIN hits)
    IN  [items |-> SubSeq(all, skip + 1, Min({skip + limit, Len(all)})), total |-> Len(hits)]

-----------------------------------------------------------------------------
(* Properties.                                                              *)

Without(code, i) == SubSeq(code, 1, i - 1) \o SubSeq(code, i + 1, Len(code))

\* One slip of the hand makes one of the other, whichever was typed.
OneSlip(a, b) ==
    \/ a = b
    \/ \E i \in DOMAIN a : Without(a, i) = b
    \/ \E i \in DOMAIN b : Without(b, i) = a
    \/ /\ Len(a) = Len(b)
       /\ \E i \in DOMAIN a :
            \/ \A j \in DOMAIN a \ {i} : a[j] = b[j]
            \/ /\ i < Len(a) /\ a[i] = b[i + 1] /\ a[i + 1] = b[i]
               /\ \A j \in DOMAIN a \ {i, i + 1} : a[j] = b[j]

Suggested(path) == ToSet(DidYouMean(path))

\* A path that could be a code's is answered with the links the viewer sees that one slip makes it
\* from, and no other link: with all of them, or with as many as there is room for, of which the
\* link it was but for its case is one; and a path no code could be is answered with none.
SuggestsWhatOneSlipMakes ==
    \A path \in PathsOf(DOMAIN hits) :
        LET meant == {i \in DOMAIN links : links[i].seen /\ OneSlip(TypedCode(path), links[i].code)}
            same  == {i \in meant : links[i].code = TypedCode(path)}
        IN  IF IsCode(path)
            THEN /\ Suggested(path) \subseteq meant
                 /\ Cardinality(Suggested(path)) = Min({Suggestions, Cardinality(meant)})
                 /\ \/ same \subseteq Suggested(path)
                    \/ Suggested(path) \subseteq same
            ELSE Suggested(path) = {}

\* The samples the MCP tool shows of a path are the newest of the hits it counts there, as the
\* list of every hit has them: three queries, of one filter, in one order.
SamplesAreCounted ==
    \A typosOnly \in BOOLEAN, since \in DOMAIN hits :
        LET tool == ListOrphanVisitsGrouped(since, typosOnly, MaxRows)
            list == GetOrphanVisits(0, MaxRows).items
        IN  \A i \in DOMAIN tool.found.groups :
                LET group   == tool.found.groups[i]
                    samples == tool.samples[i]
                    of      == {n \in DOMAIN list : /\ list[n] >= since /\ hits[list[n]].path = group.path
                                                    /\ typosOnly => ~hits[list[n]].bot}
                IN  /\ Cardinality(of) = group.visits
                    /\ list[Min(of)] = group.last /\ list[Max(of)] = group.first
                    /\ Len(samples) = Min({Samples, group.visits})
                    /\ \A k \in DOMAIN samples :
                            \E n \in of : samples[k] = list[n] /\ Cardinality({m \in of : m <= n}) = k

\* An answer's pages hold every path with a hit that is shown, once, and add up to its totals; and
\* what it says is hidden is the hits and the paths that no page shows.
PagesAddUp ==
    \A typosOnly \in BOOLEAN, size \in DOMAIN hits, until \in 1 .. Len(hits) + 1 :
        LET first  == GetOrphanVisitGroups(1, until, typosOnly, 1, size)
            page   == [n \in 1 .. first.pages |-> GetOrphanVisitGroups(1, until, typosOnly, n, size).found.groups]
            places == {at \in (1 .. first.pages) \X (1 .. size) : at[2] \in DOMAIN page[at[1]]}
            group  == [at \in places |-> page[at[1]][at[2]]]
            counts == {count \in places \X DOMAIN hits : count[2] <= group[count[1]].visits}
            all    == Tried(1, until, {"invalid_short_url"})
        IN  /\ \A at, other \in places : group[at].path = group[other].path => at = other
            /\ Cardinality(places) = first.found.totalPaths
            /\ Cardinality(counts) = first.found.totalVisits
            /\ Cardinality(all) = first.found.totalVisits + first.found.hiddenVisits
            /\ Cardinality(PathsOf(all) \ {group[at].path : at \in places}) = first.found.hiddenPaths

\* A typo's suggestions are the links one slip away, and the pages of what was tried hold each
\* path once and add up, with samples of what they count.
TyposAreAnswered == SuggestsWhatOneSlipMakes /\ SamplesAreCounted /\ PagesAddUp
=============================================================================
