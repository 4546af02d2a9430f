-------------------------------- MODULE Tags --------------------------------
(***************************************************************************)
(* Tags (server/app/tags.py, server/utils/tags.py) and what they are on:   *)
(* links (update_url_tags and bulk_tag_urls in server/app/urls.py) and a   *)
(* campaign with its links (update_campaign_tags in                        *)
(* server/app/campaigns.py).                                               *)
(*                                                                         *)
(* Every request reads, and writes in one transaction later.  Replacing a  *)
(* collection deletes the rows it loaded that are not wanted and inserts   *)
(* the ones wanted that it didn't load; a row to delete that is gone, or   *)
(* one to insert that is there, fails the request as a whole.              *)
(*                                                                         *)
(* Abstracted: colours and display names, and who may change what (module  *)
(* LinkAccess).                                                            *)
(***************************************************************************)
EXTENDS Naturals, FiniteSets

CONSTANTS
    Tags,          \* the ids tags may get
    Names,
    Predefined,    \* the names of settings.predefined_tags
    Links,
    Campaign,      \* a campaign, and
    OfCampaign,    \* those of the links that are its
    Workers,       \* requests, and starting tasks, at once
    MaxBegun,      \* bound: requests and starts of tasks
    NoName

\* What the constants are assumed to be, where the module is extended.
TagsAssumption ==
    /\ Predefined \subseteq Names /\ OfCampaign \subseteq Links
    /\ Campaign \notin Links /\ NoName \notin Names /\ MaxBegun \in Nat

VARIABLES
    tag,      \* tag[x]: its row
    alive,    \* the links there are, and the campaign
    on,       \* <<thing, tag>>: the rows of url_tags and campaign_tags
    doing,    \* doing[w]: what the request read and will write
    begun     \* requests and starts of tasks so far

tagsVars == <<tag, alive, on, doing, begun>>

Things == Links \cup {Campaign}
Tag    == [state : {"none", "live", "deleted"}, name : Names \cup {NoName}, predefined : BOOLEAN]
Doing  == [what : {"idle", "seed", "create", "rename", "delete", "replace", "add"},
           things : SUBSET Things, tags : SUBSET Tags, names : SUBSET Names,
           loaded : SUBSET (Things \X Tags)]

TagsTypeOK ==
    /\ tag \in [Tags -> Tag]
    /\ alive \subseteq Things
    /\ on \subseteq alive \X Tags
    /\ doing \in [Workers -> Doing]
    /\ begun \in 0 .. MaxBegun

Nothing == [what |-> "idle", things |-> {}, tags |-> {}, names |-> {}, loaded |-> {}]
IsLive(x)    == tag[x].state = "live"
Live         == {x \in Tags : IsLive(x)}
Taken        == {tag[x].name : x \in Live}

TagsInit ==
    /\ tag = [x \in Tags |-> [state |-> "none", name |-> NoName, predefined |-> FALSE]]
    /\ alive = Things
    /\ on = {}
    /\ doing = [w \in Workers |-> Nothing]
    /\ begun = 0

Reads(w, d) ==
    /\ doing[w] = Nothing
    /\ begun < MaxBegun /\ begun' = begun + 1
    /\ doing' = [doing EXCEPT ![w] = d]
    /\ UNCHANGED <<tag, alive, on>>

\* The rows become `rows`, and w's request is over.
Leaves(w, rows) ==
    /\ on' = rows
    /\ doing' = [doing EXCEPT ![w] = Nothing]
    /\ UNCHANGED begun

Fails(w) == Leaves(w, on) /\ UNCHANGED <<tag, alive>>

-----------------------------------------------------------------------------
\* initialize_predefined_tags, in a task that starts: the names that have no tag.
Seed(w) == Reads(w, [Nothing EXCEPT !.what = "seed", !.names = Predefined \ Taken])

\* create_tag: "Tag already exists", when it does.
Create(w, n) == n \notin Taken /\ Reads(w, [Nothing EXCEPT !.what = "create", !.names = {n}])

\* Both insert: a name taken meanwhile is a unique violation, which nothing catches.
InsertTags(w) ==
    /\ doing[w].what \in {"seed", "create"}
    /\ LET new == doing[w].names IN
       IF new \cap Taken # {} THEN Fails(w)
       ELSE \E f \in [new -> {x \in Tags : tag[x].state = "none"}] :
               /\ \A m, n \in new : f[m] = f[n] => m = n
               /\ tag' = [x \in Tags |->
                     IF \E n \in new : f[n] = x
                     THEN [state |-> "live", name |-> CHOOSE n \in new : f[n] = x,
                           predefined |-> doing[w].what = "seed"]
                     ELSE tag[x]]
               /\ Leaves(w, on)
               /\ UNCHANGED alive

\* update_tag: a predefined tag keeps its name, and a taken one is refused.  The name it has is
\* not written.
Rename(w, x, n) ==
    /\ IsLive(x) /\ ~tag[x].predefined
    /\ n # tag[x].name => n \notin Taken
    /\ Reads(w, [Nothing EXCEPT !.what = "rename", !.tags = {x}, !.names = {n} \ {tag[x].name}])

CommitRename(w) ==
    /\ doing[w].what = "rename"
    /\ \/ doing[w].names = {} /\ Fails(w)
       \/ \E x \in doing[w].tags, n \in doing[w].names :
             IF ~IsLive(x) \/ \E y \in Live \ {x} : tag[y].name = n THEN Fails(w)
             ELSE /\ tag' = [tag EXCEPT ![x].name = n]
                  /\ Leaves(w, on)
                  /\ UNCHANGED alive

\* delete_tag: what the tag is on is loaded, to delete those rows first.
Delete(w, x) ==
    /\ IsLive(x) /\ ~tag[x].predefined
    /\ Reads(w, [Nothing EXCEPT !.what = "delete", !.tags = {x},
                                !.loaded = on \cap (Things \X {x})])

\* Then the tag, and by the cascade the rows that came meanwhile.
CommitDelete(w) ==
    /\ doing[w].what = "delete"
    /\ IF ~(doing[w].loaded \subseteq on) THEN Fails(w)
       ELSE /\ tag' = [x \in Tags |-> IF x \in doing[w].tags THEN [tag[x] EXCEPT !.state = "deleted"]
                                      ELSE tag[x]]
            /\ Leaves(w, on \ (Things \X doing[w].tags))
            /\ UNCHANGED alive

Replaces(w, things, tags) ==
    Reads(w, [Nothing EXCEPT !.what = "replace", !.things = things, !.tags = tags,
                             !.loaded = on \cap (things \X Tags)])

\* update_url_tags: a link's; any of the tags not found, nothing is done.
ReplaceOfLink(w, l, tags) == l \in alive /\ Replaces(w, {l}, tags)

\* update_campaign_tags: the campaign's and all its links'.
ReplaceOfCampaign(w, tags) ==
    Campaign \in alive /\ Replaces(w, ({Campaign} \cup OfCampaign) \cap alive, tags)

\* bulk_tag_urls: the tags are added to each link.
Add(w, links, tags) ==
    /\ links \subseteq Links \cap alive /\ links # {}
    /\ Reads(w, [Nothing EXCEPT !.what = "add", !.things = links, !.tags = tags,
                                !.loaded = on \cap (links \X Tags)])

Wanted(d)  == d.things \X d.tags
TakesOffAll(d) == IF d.what = "replace"    \* a wrong version: whatever they are on by now
                  THEN (on \cap (d.things \X Tags)) \ Wanted(d) ELSE {}
TakesOff(d)    == IF d.what = "replace" THEN d.loaded \ Wanted(d) ELSE {}
PutsOn(d)      == Wanted(d) \ d.loaded

\* Some row to insert is there already or has lost its thing or its tag, or one to delete is gone.
IsStale(d) ==
    \/ ~(TakesOff(d) \subseteq on)
    \/ PutsOn(d) \cap on # {}
    \/ \E p \in PutsOn(d) : p[1] \notin alive \/ ~IsLive(p[2])

CommitTags(w) ==
    /\ doing[w].what \in {"replace", "add"}
    /\ LET d == doing[w] IN
       IF IsStale(d) THEN Fails(w)
       ELSE Leaves(w, (on \ TakesOff(d)) \cup PutsOn(d)) /\ UNCHANGED <<tag, alive>>

\* delete_url, delete_campaign.
DeleteThings(things) ==
    /\ things \in {{l} : l \in Links} \cup {{Campaign} \cup OfCampaign}
    /\ things \cap alive # {}
    /\ alive' = alive \ things
    /\ on' = on \ (things \X Tags)
    /\ UNCHANGED <<tag, doing, begun>>

TagsNext ==
    \/ \E things \in SUBSET Things : DeleteThings(things)
    \/ \E w \in Workers :
          \/ Seed(w) \/ InsertTags(w) \/ CommitRename(w) \/ CommitDelete(w) \/ CommitTags(w)
          \/ \E n \in Names : Create(w, n) \/ \E x \in Tags : Rename(w, x, n)
          \/ \E x \in Tags : Delete(w, x)
          \/ \E tags \in SUBSET Live :
                \/ ReplaceOfCampaign(w, tags)
                \/ \E l \in Links : ReplaceOfLink(w, l, tags)
                \/ \E links \in SUBSET Links : Add(w, links, tags)

TagsSpec == TagsInit /\ [][TagsNext]_tagsVars

-----------------------------------------------------------------------------
\* A request decides on the rows it saw and undoes nobody else's change: when it ends, the rows
\* nobody changed meanwhile are as it asked, and the others as they were left ("Replaces all
\* existing tags", update_url_tags; "doesn't replace existing tags", bulk_tag_urls).
ReplacesWhatItSaw ==
    [][\A w \in Workers :
         LET d == doing[w] IN
         (d.what \in {"replace", "add"} /\ doing'[w] = Nothing /\ on' # on) =>
             \A p \in Things \X Tags :
                 IF p[1] \in d.things /\ (p \in on <=> p \in d.loaded)
                 THEN p \in on' <=> (p[2] \in d.tags \/ (d.what = "add" /\ p \in on))
                 ELSE p \in on' <=> p \in on]_tagsVars
=============================================================================
