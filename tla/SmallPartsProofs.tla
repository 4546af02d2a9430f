-------------------------- MODULE SmallPartsProofs --------------------------
(***************************************************************************)
(* Theorems of the small parts, each of its own specification and none of  *)
(* the others':                                                            *)
(*   - the waitlist keeps who signed up, whatever sign-ups, removals and   *)
(*     purges cross, for any years and any time a request may take;        *)
(*   - a request's end undoes nobody else's change of tags;                *)
(*   - no connection is made to an address that is not public;             *)
(*   - a request is its client's, with headers of any length;              *)
(*   - the limits counted before implement FixedWindow, and failed         *)
(*     passwords overshoot theirs by fewer than there are threads;         *)
(*   - what was tried is answered with the links one slip away, and with   *)
(*     pages and samples of all that is counted, for any paths and codes.  *)
(***************************************************************************)
EXTENDS Waitlist, Tags, Fetch, Addresses, RateLimits, Orphans,
        FiniteSetTheorems, SequenceTheorems, WellFoundedInduction, TLAPS

-----------------------------------------------------------------------------
(* The waitlist.                                                            *)

\* A sign-up under way is as old as a request may be, at most.
InTime == \A s \in Signers : signing[s].step # "idle" => /\ signing[s].since <= day
                                                         /\ day <= signing[s].since + Lasts

\* The entry's consent is the latest sign-up's, or one's that crossed it.
ConsentIsRecent ==
    \A e \in Emails : joined[e] # Null =>
        /\ joined[e] <= day
        /\ entry[e] # Null => joined[e] <= entry[e].consent + Lasts

\* The inductive invariant.
WaitlistInv == WaitlistTypeOK /\ InTime /\ ConsentIsRecent /\ SignUpsLastAYear

LEMMA IdleSigner ==
    ASSUME WaitlistAssumption
    PROVE  Idle \in Signing /\ Idle.step = "idle"
  <1>1. PICK e \in Emails : e = (CHOOSE f \in Emails : TRUE)  BY DEF WaitlistAssumption
  <1>2. 0 \in Days  BY DEF WaitlistAssumption, Days
  <1> QED  BY <1>1, <1>2 DEF Idle, Signing, Answers

LEMMA InitWaitlist == ASSUME WaitlistAssumption, WaitlistInit PROVE WaitlistInv
  <1>1. 0 \in Days  BY DEF WaitlistAssumption, Days
  <1>2. WaitlistTypeOK
    BY <1>1, IdleSigner DEF WaitlistInit, WaitlistTypeOK, WaitlistAssumption
  <1> QED
    BY <1>2, IdleSigner DEF WaitlistInit, WaitlistInv, InTime, ConsentIsRecent, SignUpsLastAYear

\* A sign-up that begins or ends, or goes on with what it has, is in time.
LEMMA GoesInTime ==
    ASSUME WaitlistTypeOK, InTime, NEW s \in Signers, NEW to \in Signing, Goes(s, to),
           day' = day, to.step # "idle" => to.since <= day /\ day <= to.since + Lasts
    PROVE  signing' \in [Signers -> Signing] /\ InTime'
  BY DEF WaitlistTypeOK, InTime, Goes

LEMMA JoinKeeps ==
    ASSUME WaitlistAssumption, WaitlistInv, NEW s \in Signers, NEW e \in Emails,
           AskRemoval(s, e) \/ \E a \in Answers : Join(s, e, a)
    PROVE  WaitlistInv'
  <1>1. PICK to \in Signing : Goes(s, to) /\ to.since = day
    <2>1. entry[e] \in Entry \cup {Null} /\ day \in Days  BY DEF WaitlistInv, WaitlistTypeOK
    <2>2. CASE AskRemoval(s, e)
      <3> DEFINE asks == [Idle EXCEPT !.step = "remove", !.email = e, !.since = day,
                                      !.loaded = entry[e]]
      <3>1. asks \in Signing /\ asks.since = day  BY <2>1, IdleSigner DEF Signing
      <3>2. Goes(s, asks)  BY <2>2 DEF AskRemoval
      <3> QED  BY <3>1, <3>2
    <2>3. ASSUME NEW a \in Answers, Join(s, e, a)
          PROVE  \E to \in Signing : Goes(s, to) /\ to.since = day
      BY <2>1, <2>3 DEF Join, Signing
    <2> QED  BY <2>2, <2>3
  <1>2. UNCHANGED <<day, entry, made, joined>>  BY DEF AskRemoval, Join
  <1>3. signing' \in [Signers -> Signing] /\ InTime'
    BY <1>1, <1>2, GoesInTime DEF WaitlistInv, WaitlistTypeOK, WaitlistAssumption, Days
  <1> QED
    BY <1>2, <1>3 DEF WaitlistInv, WaitlistTypeOK, ConsentIsRecent, SignUpsLastAYear

\* A sign-up answered: the entry has its moment, and it is in time.
LEMMA AnsweredKeeps ==
    ASSUME WaitlistAssumption, WaitlistInv, NEW s \in Signers, signing[s].step # "idle",
           NEW new \in Entry, new.consent = signing[s].since,
           entry' = [entry EXCEPT ![signing[s].email] = new], Answered(s),
           day' = day, made' \in 0 .. MaxEntries,
           Goes(s, Idle)
    PROVE  WaitlistInv'
  <1> DEFINE f == signing[s].email
             t == signing[s].since
  <1>1. /\ f \in Emails /\ t \in Days /\ day \in Days /\ t <= day /\ day <= t + Lasts
        /\ Lasts \in Nat /\ Year \in Nat /\ Days \subseteq Nat /\ Null \notin Nat /\ new # Null
        /\ joined \in [Emails -> Days \cup {Null}] /\ entry \in [Emails -> Entry \cup {Null}]
    BY DEF WaitlistInv, WaitlistTypeOK, InTime, Signing, WaitlistAssumption, Days
  <1>2. /\ joined'[f] \in Days /\ joined'[f] <= day /\ joined'[f] <= new.consent + Lasts
        /\ entry'[f] = new
        /\ \A e \in Emails \ {f} : joined'[e] = joined[e] /\ entry'[e] = entry[e]
    <2>1. joined'[f] \in {joined[f], t} /\ (joined[f] = Null => joined'[f] = t)
      BY <1>1 DEF Answered
    <2>2. joined[f] # Null => joined[f] \in Days /\ joined[f] <= day
      BY <1>1 DEF WaitlistInv, ConsentIsRecent
    <2>3. joined'[f] \in Days /\ joined'[f] <= day  BY <1>1, <2>1, <2>2
    <2>4. joined'[f] \in Nat /\ t \in Nat /\ day \in Nat /\ new.consent = t
      BY <1>1, <2>3
    <2>5. joined'[f] <= new.consent + Lasts  BY <1>1, <2>3, <2>4
    <2> QED  BY <1>1, <2>3, <2>5 DEF Answered
  <1>3. WaitlistTypeOK' /\ InTime'
    <2>1. signing' \in [Signers -> Signing] /\ InTime'
      BY IdleSigner, GoesInTime DEF WaitlistInv
    <2>2. joined' \in [Emails -> Days \cup {Null}] /\ entry' \in [Emails -> Entry \cup {Null}]
      BY <1>1, <1>2 DEF Answered
    <2> QED  BY <2>1, <2>2 DEF WaitlistInv, WaitlistTypeOK
  <1>4. ConsentIsRecent'  BY <1>1, <1>2 DEF WaitlistInv, ConsentIsRecent
  <1>5. SignUpsLastAYear'  BY <1>1, <1>2 DEF WaitlistInv, SignUpsLastAYear
  <1> QED  BY <1>3, <1>4, <1>5 DEF WaitlistInv

\* One that goes on or ends and changes nothing.
LEMMA NothingAnswered ==
    ASSUME WaitlistAssumption, WaitlistInv, NEW s \in Signers, signing[s].step # "idle",
           UNCHANGED <<day, entry, made, joined>>,
           NEW to \in Signing, Goes(s, to), to.step = "idle" \/ to.since = signing[s].since
    PROVE  WaitlistInv'
  <1>1. signing' \in [Signers -> Signing] /\ InTime'
    BY GoesInTime DEF WaitlistInv, InTime
  <1> QED  BY <1>1 DEF WaitlistInv, WaitlistTypeOK, ConsentIsRecent, SignUpsLastAYear

LEMMA InsertEntryKeeps ==
    ASSUME WaitlistAssumption, WaitlistInv, NEW s \in Signers, InsertEntry(s)
    PROVE  WaitlistInv'
  <1> DEFINE r == signing[s]
             new == [id |-> made + 1, kind |-> r.answers.kind, company |-> r.answers.company,
                     consent |-> r.since]
  <1>1. r \in Signing /\ made \in 0 .. MaxEntries /\ MaxEntries \in Nat /\ r.step = "insert"
    BY DEF WaitlistInv, WaitlistTypeOK, WaitlistAssumption, InsertEntry
  <1>2. CASE entry[r.email] = Null
    <2>1. /\ made < MaxEntries /\ made' = made + 1 /\ Answered(s) /\ Goes(s, Idle) /\ day' = day
          /\ entry' = [entry EXCEPT ![r.email] = new]
      BY <1>2 DEF InsertEntry
    <2>2. new \in Entry /\ new.consent = r.since
      BY <1>1, <2>1 DEF Signing, Answers, Entry, Ids
    <2>3. made' \in 0 .. MaxEntries  BY <1>1, <2>1
    <2> HIDE DEF new
    <2> QED  BY <1>1, <2>1, <2>2, <2>3, AnsweredKeeps
  <1>3. CASE entry[r.email] # Null
    <2>1. Goes(s, [r EXCEPT !.step = "again"]) /\ UNCHANGED <<day, entry, made, joined>>
      BY <1>3 DEF InsertEntry
    <2>2. [r EXCEPT !.step = "again"] \in Signing /\ [r EXCEPT !.step = "again"].since = r.since
      BY <1>1 DEF Signing
    <2> QED  BY <1>1, <2>1, <2>2, NothingAnswered
  <1> QED  BY <1>2, <1>3

LEMMA ReadAgainKeeps ==
    ASSUME WaitlistAssumption, WaitlistInv, NEW s \in Signers, ReadAgain(s)
    PROVE  WaitlistInv'
  <1> DEFINE r == signing[s]
             to == IF entry[r.email] = Null THEN Idle
                   ELSE [r EXCEPT !.step = "update", !.loaded = entry[r.email]]
  <1>1. /\ Goes(s, to) /\ UNCHANGED <<day, entry, made, joined>> /\ r.step = "again" /\ r \in Signing
        /\ entry[r.email] \in Entry \cup {Null}
    BY DEF ReadAgain, WaitlistInv, WaitlistTypeOK, Signing
  <1>2. to \in Signing /\ (to.step = "idle" \/ to.since = r.since)
    BY <1>1, IdleSigner DEF Signing
  <1> HIDE DEF to
  <1> QED  BY <1>1, <1>2, NothingAnswered

LEMMA UpdateKeeps ==
    ASSUME WaitlistAssumption, WaitlistInv, NEW s \in Signers, Update(s)
    PROVE  WaitlistInv'
  <1> DEFINE r == signing[s]
             e == entry[r.email]
             new == Updated(r, e)
  <1>1. /\ r \in Signing /\ e \in Entry \cup {Null} /\ r.step = "update" /\ Goes(s, Idle)
        /\ UNCHANGED <<day, made>> /\ made \in 0 .. MaxEntries
    BY DEF WaitlistInv, WaitlistTypeOK, Signing, Update
  <1>2. CASE e # Null /\ e.id = r.loaded.id
    <2>1. entry' = [entry EXCEPT ![r.email] = new] /\ Answered(s)  BY <1>2 DEF Update
    <2>2. /\ Written(r.loaded.kind, r.answers.kind, e.kind) \in {"individual", "company"}
          /\ Written(r.loaded.company, r.answers.company, e.company) \in Companies \cup {Null}
          /\ e \in Entry /\ r.since \in Days
      BY <1>1, <1>2 DEF Written, Signing, Answers, Entry
    <2>3. new \in Entry /\ new.consent = r.since
      BY <2>2 DEF Updated, Entry, Consent
    <2> HIDE DEF new
    <2> QED  BY <1>1, <2>1, <2>3, AnsweredKeeps
  <1>3. CASE ~(e # Null /\ e.id = r.loaded.id)
    BY <1>1, <1>3, IdleSigner, NothingAnswered DEF Update
  <1> QED  BY <1>2, <1>3

LEMMA RemoveEntryKeeps ==
    ASSUME WaitlistAssumption, WaitlistInv, NEW s \in Signers, RemoveEntry(s)
    PROVE  WaitlistInv'
  <1> DEFINE f == signing[s].email
  <1>1. /\ f \in Emails /\ Goes(s, Idle) /\ UNCHANGED <<day, made>> /\ signing[s].step = "remove"
        /\ joined \in [Emails -> Days \cup {Null}] /\ entry \in [Emails -> Entry \cup {Null}]
    BY DEF WaitlistInv, WaitlistTypeOK, Signing, RemoveEntry
  <1>2. CASE UNCHANGED <<entry, joined>>
    BY <1>1, <1>2, IdleSigner, NothingAnswered
  <1>3. CASE /\ entry' = [entry EXCEPT ![f] = Null] /\ joined' = [joined EXCEPT ![f] = Null]
    <2>1. signing' \in [Signers -> Signing] /\ InTime'
      BY <1>1, IdleSigner, GoesInTime DEF WaitlistInv
    <2>2. /\ joined' \in [Emails -> Days \cup {Null}] /\ entry' \in [Emails -> Entry \cup {Null}]
          /\ joined'[f] = Null
          /\ \A e \in Emails \ {f} : joined'[e] = joined[e] /\ entry'[e] = entry[e]
      BY <1>1, <1>3
    <2> QED
      BY <1>1, <2>1, <2>2
         DEF WaitlistInv, WaitlistTypeOK, ConsentIsRecent, SignUpsLastAYear
  <1> QED  BY <1>2, <1>3 DEF RemoveEntry

\* What is purged had its consent more than a year ago: so had the latest sign-up, but for Lasts.
LEMMA PurgeKeeps == ASSUME WaitlistAssumption, WaitlistInv, Purge PROVE WaitlistInv'
  <1>1. /\ entry' = [e \in Emails |-> IF IsOver(e) THEN Null ELSE entry[e]]
        /\ UNCHANGED <<day, made, signing, joined>>
    BY DEF Purge
  <1>2. WaitlistTypeOK' /\ InTime' /\ ConsentIsRecent'
    BY <1>1 DEF WaitlistInv, WaitlistTypeOK, InTime, ConsentIsRecent
  <1>3. SignUpsLastAYear'
    <2> SUFFICES ASSUME NEW e \in Emails, joined[e] # Null, day + Lasts <= joined[e] + Year
                 PROVE  entry'[e] # Null
      BY <1>1 DEF SignUpsLastAYear
    <2>1. /\ entry[e] # Null /\ entry[e] \in Entry /\ joined[e] \in Nat /\ day \in Nat
          /\ joined[e] <= entry[e].consent + Lasts /\ Lasts \in Nat /\ Year \in Nat
      BY DEF WaitlistInv, WaitlistTypeOK, ConsentIsRecent, SignUpsLastAYear, WaitlistAssumption, Days
    <2>2. entry[e].consent \in Nat  BY <2>1 DEF Entry, Days
    <2>3. ~IsOver(e)  BY <2>1, <2>2 DEF IsOver
    <2> QED  BY <1>1, <2>1, <2>3
  <1> QED  BY <1>2, <1>3 DEF WaitlistInv

LEMMA PassesKeeps == ASSUME WaitlistAssumption, WaitlistInv, Passes PROVE WaitlistInv'
  <1>1. /\ day \in Days /\ day < LastDay /\ day' = day + 1 /\ UNCHANGED <<entry, made, signing, joined>>
        /\ LastDay \in Nat /\ Lasts \in Nat /\ Year \in Nat
    BY DEF Passes, WaitlistInv, WaitlistTypeOK, WaitlistAssumption
  <1>2. day \in Nat /\ day' \in Days  BY <1>1 DEF Days
  <1>3. WaitlistTypeOK'  BY <1>1, <1>2 DEF WaitlistInv, WaitlistTypeOK
  <1>4. InTime'
    <2> SUFFICES ASSUME NEW s \in Signers, signing[s].step # "idle"
                 PROVE  signing[s].since <= day + 1 /\ day + 1 <= signing[s].since + Lasts
      BY <1>1 DEF InTime
    <2>1. signing[s].since \in Nat /\ signing[s].since <= day /\ day < signing[s].since + Lasts
      BY DEF WaitlistInv, WaitlistTypeOK, Signing, Days, InTime, Passes
    <2> QED  BY <1>1, <1>2, <2>1
  <1>5. ConsentIsRecent' /\ SignUpsLastAYear'
    <2> SUFFICES ASSUME NEW e \in Emails, joined[e] # Null
                 PROVE  /\ joined[e] <= day + 1
                        /\ entry[e] # Null => joined[e] <= entry[e].consent + Lasts
                        /\ day + 1 + Lasts <= joined[e] + Year => entry[e] # Null
      BY <1>1 DEF ConsentIsRecent, SignUpsLastAYear
    <2>1. joined[e] \in Nat  BY DEF WaitlistInv, WaitlistTypeOK, Days
    <2> QED  BY <1>1, <1>2, <2>1 DEF WaitlistInv, ConsentIsRecent, SignUpsLastAYear
  <1> QED  BY <1>3, <1>4, <1>5 DEF WaitlistInv

\* Who signed up and was answered stays on the waitlist for a year, less what a request takes,
\* whatever sign-ups, removals and purges cross (waitlist.py, purge_waitlist).
THEOREM SignedUpForAYear ==
    ASSUME WaitlistAssumption
    PROVE  WaitlistSpec => []SignUpsLastAYear
  <1>1. WaitlistInit => WaitlistInv  BY InitWaitlist
  <1>2. WaitlistInv /\ [WaitlistNext]_waitlistVars => WaitlistInv'
    <2> SUFFICES ASSUME WaitlistInv, [WaitlistNext]_waitlistVars PROVE WaitlistInv'  OBVIOUS
    <2>1. CASE UNCHANGED waitlistVars
      BY <2>1 DEF waitlistVars, WaitlistInv, WaitlistTypeOK, InTime, ConsentIsRecent, SignUpsLastAYear
    <2> QED
      BY <2>1, JoinKeeps, InsertEntryKeeps, ReadAgainKeeps, UpdateKeeps, RemoveEntryKeeps, PurgeKeeps,
         PassesKeeps DEF WaitlistNext
  <1>3. WaitlistInv => SignUpsLastAYear  BY DEF WaitlistInv
  <1> QED  BY <1>1, <1>2, <1>3, PTL DEF WaitlistSpec

-----------------------------------------------------------------------------
(* Tags.                                                                    *)

\* A request knows the rows it loaded of the things it changes, and no others.
LoadedIsAsked ==
    \A w \in Workers : doing[w].what \in {"replace", "add"} =>
        doing[w].loaded \subseteq doing[w].things \X Tags

\* The inductive invariant: what requests do is typed, and LoadedIsAsked.
TagsInv == doing \in [Workers -> Doing] /\ LoadedIsAsked

LEMMA NoTask == Nothing \in Doing /\ Nothing.what = "idle"
  BY DEF Nothing, Doing

LEMMA InitTags == TagsInit => TagsInv
  BY NoTask DEF TagsInit, TagsInv, LoadedIsAsked

\* A request that reads what it should begins.
LEMMA ReadsKeeps ==
    ASSUME TagsInv, NEW w \in Workers, NEW d \in Doing, Reads(w, d),
           d.what \in {"replace", "add"} => d.loaded \subseteq d.things \X Tags
    PROVE  TagsInv'
  BY DEF TagsInv, LoadedIsAsked, Reads

LEMMA LeavesKeeps ==
    ASSUME TagsInv, NEW w \in Workers, doing' = [doing EXCEPT ![w] = Nothing]
    PROVE  TagsInv'
  BY NoTask DEF TagsInv, LoadedIsAsked

LEMMA AskingForATag ==
    ASSUME TagsAssumption, TagsInv, NEW w \in Workers,
           \/ Seed(w)
           \/ \E n \in Names : Create(w, n) \/ \E x \in Tags : Rename(w, x, n)
           \/ \E x \in Tags : Delete(w, x)
    PROVE  TagsInv'
  <1>1. PICK d \in Doing : Reads(w, d) /\ d.what \notin {"replace", "add"}
    <2>1. CASE Seed(w)
      <3> DEFINE d == [Nothing EXCEPT !.what = "seed", !.names = Predefined \ Taken]
      <3>1. d \in Doing /\ d.what = "seed"  BY NoTask DEF Doing, TagsAssumption
      <3> QED  BY <2>1, <3>1 DEF Seed
    <2>2. ASSUME NEW n \in Names, Create(w, n)
          PROVE  \E d \in Doing : Reads(w, d) /\ d.what \notin {"replace", "add"}
      <3> DEFINE d == [Nothing EXCEPT !.what = "create", !.names = {n}]
      <3>1. d \in Doing /\ d.what = "create"  BY NoTask DEF Doing
      <3> QED  BY <2>2, <3>1 DEF Create
    <2>3. ASSUME NEW n \in Names, NEW x \in Tags, Rename(w, x, n)
          PROVE  \E d \in Doing : Reads(w, d) /\ d.what \notin {"replace", "add"}
      <3> DEFINE d == [Nothing EXCEPT !.what = "rename", !.tags = {x},
                                      !.names = {n} \ {tag[x].name}]
      <3>1. d \in Doing /\ d.what = "rename"  BY NoTask DEF Doing
      <3> QED  BY <2>3, <3>1 DEF Rename
    <2>4. ASSUME NEW x \in Tags, Delete(w, x)
          PROVE  \E d \in Doing : Reads(w, d) /\ d.what \notin {"replace", "add"}
      <3> DEFINE d == [Nothing EXCEPT !.what = "delete", !.tags = {x},
                                      !.loaded = on \cap (Things \X {x})]
      <3>1. on \cap (Things \X {x}) \in SUBSET (Things \X Tags)  OBVIOUS
      <3>2. d \in Doing /\ d.what = "delete"  BY <3>1, NoTask DEF Doing
      <3> QED  BY <2>4, <3>2 DEF Delete
    <2> QED  BY <2>1, <2>2, <2>3, <2>4
  <1> QED  BY <1>1, ReadsKeeps

LEMMA AskingForThings ==
    ASSUME TagsAssumption, TagsInv, NEW w \in Workers, NEW tags \in SUBSET Live,
           \/ ReplaceOfCampaign(w, tags)
           \/ \E l \in Links : ReplaceOfLink(w, l, tags)
           \/ \E some \in SUBSET Links : Add(w, some, tags)
    PROVE  TagsInv'
  <1>1. PICK things \in SUBSET Things, what \in {"replace", "add"} :
           Reads(w, [Nothing EXCEPT !.what = what, !.things = things, !.tags = tags,
                                    !.loaded = on \cap (things \X Tags)])
    <2>1. CASE ReplaceOfCampaign(w, tags)
      <3>1. ({Campaign} \cup OfCampaign) \cap alive \in SUBSET Things
        BY DEF Things, TagsAssumption
      <3> QED  BY <2>1, <3>1 DEF ReplaceOfCampaign, Replaces
    <2>2. CASE \E l \in Links : ReplaceOfLink(w, l, tags)
      BY <2>2 DEF ReplaceOfLink, Replaces, Things
    <2>3. CASE \E some \in SUBSET Links : Add(w, some, tags)
      BY <2>3 DEF Add, Things
    <2> QED  BY <2>1, <2>2, <2>3
  <1> DEFINE d == [Nothing EXCEPT !.what = what, !.things = things, !.tags = tags,
                                  !.loaded = on \cap (things \X Tags)]
  <1>2. tags \in SUBSET Tags  BY DEF Live
  <1>3. on \cap (things \X Tags) \in SUBSET (Things \X Tags)  OBVIOUS
  <1>4. d \in Doing /\ d.loaded \subseteq d.things \X Tags
    BY <1>2, <1>3, NoTask DEF Doing, Nothing
  <1> HIDE DEF d
  <1> QED  BY <1>1, <1>4, ReadsKeeps DEF d

\* Everything that ends a request, and what ends none.
LEMMA EndingATask ==
    ASSUME TagsInv, NEW w \in Workers,
           InsertTags(w) \/ CommitRename(w) \/ CommitDelete(w) \/ CommitTags(w)
    PROVE  doing' = [doing EXCEPT ![w] = Nothing]
  BY DEF InsertTags, CommitRename, CommitDelete, CommitTags, Fails, Leaves

LEMMA TagsInvariance == ASSUME TagsAssumption PROVE TagsSpec => []TagsInv
  <1>1. TagsInv /\ [TagsNext]_tagsVars => TagsInv'
    <2> SUFFICES ASSUME TagsInv, [TagsNext]_tagsVars PROVE TagsInv'  OBVIOUS
    <2>1. CASE UNCHANGED tagsVars  BY <2>1 DEF tagsVars, TagsInv, LoadedIsAsked
    <2>2. ASSUME NEW things \in SUBSET Things, DeleteThings(things) PROVE TagsInv'
      BY <2>2 DEF DeleteThings, TagsInv, LoadedIsAsked
    <2> QED
      BY <2>1, <2>2, AskingForATag, AskingForThings, EndingATask, LeavesKeeps DEF TagsNext
  <1> QED  BY <1>1, InitTags, PTL DEF TagsSpec

\* What a request's end makes of each row.
LEMMA AsItSawIt ==
    ASSUME TagsInv, NEW w \in Workers, CommitTags(w), on' # on, NEW p \in Things \X Tags
    PROVE  LET d == doing[w] IN
           IF p[1] \in d.things /\ (p \in on <=> p \in d.loaded)
           THEN p \in on' <=> (p[2] \in d.tags \/ (d.what = "add" /\ p \in on))
           ELSE p \in on' <=> p \in on
  <1> DEFINE d == doing[w]
  <1>1. /\ d.what \in {"replace", "add"} /\ d.loaded \subseteq d.things \X Tags
        /\ ~IsStale(d) /\ on' = (on \ TakesOff(d)) \cup PutsOn(d)
    BY DEF TagsInv, LoadedIsAsked, CommitTags, Fails, Leaves
  <1>2. TakesOff(d) \subseteq on /\ PutsOn(d) \cap on = {}
    BY <1>1 DEF IsStale
  <1>3. p \in Wanted(d) <=> p[1] \in d.things /\ p[2] \in d.tags
    BY DEF Wanted
  <1>4. p \in TakesOff(d) <=> d.what = "replace" /\ p \in d.loaded /\ p \notin Wanted(d)
    BY DEF TakesOff
  <1>5. p \in PutsOn(d) <=> p \in Wanted(d) /\ p \notin d.loaded
    BY DEF PutsOn
  <1>6. p \in d.loaded => p[1] \in d.things
    BY <1>1
  <1> HIDE DEF d
  <1>7. CASE p[1] \in d.things /\ (p \in on <=> p \in d.loaded)
    BY <1>1, <1>3, <1>4, <1>5, <1>7 DEF d
  <1>8. CASE ~(p[1] \in d.things /\ (p \in on <=> p \in d.loaded))
    BY <1>1, <1>2, <1>3, <1>4, <1>5, <1>6, <1>8 DEF d
  <1> QED  BY <1>7, <1>8 DEF d

\* A request's end undoes nobody else's change of tags: the rows nobody changed since it read are
\* as it asked, and the others as they were left (update_url_tags, update_campaign_tags,
\* bulk_tag_urls).
THEOREM TagsAreReplacedAsSeen ==
    ASSUME TagsAssumption
    PROVE  TagsSpec => ReplacesWhatItSaw
  <1> DEFINE AsAsked(w) ==
        LET d == doing[w] IN
        (d.what \in {"replace", "add"} /\ doing'[w] = Nothing /\ on' # on) =>
            \A p \in Things \X Tags :
                IF p[1] \in d.things /\ (p \in on <=> p \in d.loaded)
                THEN p \in on' <=> (p[2] \in d.tags \/ (d.what = "add" /\ p \in on))
                ELSE p \in on' <=> p \in on
  <1>1. TagsInv /\ [TagsNext]_tagsVars => [\A w \in Workers : AsAsked(w)]_tagsVars
    <2> SUFFICES ASSUME TagsInv, TagsNext, NEW w \in Workers,
                        doing[w].what \in {"replace", "add"}, doing'[w] = Nothing, on' # on
                 PROVE  CommitTags(w)
      BY AsItSawIt
    <2>1. doing \in [Workers -> Doing] /\ doing[w] # Nothing  BY NoTask DEF TagsInv
    <2>2. ASSUME NEW v \in Workers, NEW d, Reads(v, d) PROVE FALSE
      BY <2>2 DEF Reads
    <2>3. ASSUME NEW things \in SUBSET Things, DeleteThings(things) PROVE FALSE
      BY <2>1, <2>3 DEF DeleteThings
    <2>4. ASSUME NEW v \in Workers,
                 InsertTags(v) \/ CommitRename(v) \/ CommitDelete(v) \/ CommitTags(v)
          PROVE  v = w /\ CommitTags(w)
      <3>1. v = w  BY <2>1, <2>4, EndingATask
      <3> QED  BY <2>4, <3>1 DEF InsertTags, CommitRename, CommitDelete
    <2> QED
      BY <2>2, <2>3, <2>4
         DEF TagsNext, Seed, Create, Rename, Delete, Replaces, ReplaceOfLink, ReplaceOfCampaign, Add
  <1> QED  BY <1>1, TagsInvariance, PTL DEF TagsSpec, ReplacesWhatItSaw

-----------------------------------------------------------------------------
(* Fetching pages.                                                          *)

\* What is to be connected to was checked, be it the first address or the next.
WasChecked ==
    (fetch # Nil /\ fetch.step = "connect") => fetch.checked \in Seq(Public) /\ fetch.checked # <<>>

\* The inductive invariant.
FetchInv == FetchTypeOK /\ WasChecked /\ ConnectsToThePublicOnly

\* The orders in which a host's addresses may be tried are sequences of them.
LEMMA OrdersOfSome ==
    ASSUME NEW S, IsFiniteSet(S), S # {}, NEW order \in SetToSeqs(S)
    PROVE  order \in Seq(S) /\ order # <<>>
  <1>1. Cardinality(S) \in Nat /\ Cardinality(S) # 0  BY FS_CardinalityType, FS_EmptySet
  <1>2. order \in [1 .. Cardinality(S) -> S]  BY DEF SetToSeqs
  <1> QED  BY <1>1, <1>2

LEMMA InitFetch == ASSUME FetchAssumption, FetchInit PROVE FetchInv
  BY DEF FetchInit, FetchInv, FetchTypeOK, WasChecked, ConnectsToThePublicOnly

\* A fetch that goes on, with nothing to connect to yet, or that ends.
LEMMA GoesOn ==
    ASSUME FetchInv, names' \in [Hosts -> SUBSET Reached],
           connected' \in {connected, Nil},
           fetch' # Nil => fetch' \in Fetch /\ fetch'.step # "connect"
    PROVE  FetchInv'
  BY DEF FetchInv, FetchTypeOK, WasChecked, ConnectsToThePublicOnly

LEMMA TriesIcon ==
    ASSUME FetchAssumption, NEW f \in Fetch, TryIcon(f), fetch' # Nil
    PROVE  fetch' \in Fetch /\ fetch'.step # "connect"
  <1>1. f.origins \in Seq(Hosts) /\ f.origins # <<>>  BY DEF TryIcon, Fetch
  <1>2. Head(f.origins) \in Hosts /\ Tail(f.origins) \in Seq(Hosts)  BY <1>1
  <1>3. 0 \in 0 .. MaxRedirects /\ <<>> \in Seq(Reached)  BY DEF FetchAssumption
  <1>4. fetch' = [f EXCEPT !.want = "icon", !.at = Head(f.origins), !.origins = Tail(f.origins),
                           !.hops = 0, !.step = "resolve", !.checked = <<>>]
    BY <1>1 DEF TryIcon
  <1> QED  BY <1>2, <1>3, <1>4 DEF Fetch

LEMMA BeginKeeps == ASSUME FetchAssumption, FetchInv, Begin PROVE FetchInv'
  <1>1. PICK h \in Hosts :
            fetch' = [url |-> h, base |-> h, want |-> "page", at |-> h, hops |-> 0, step |-> "resolve",
                      checked |-> <<>>, origins |-> <<>>]
    BY DEF Begin
  <1>2. 0 \in 0 .. MaxRedirects  BY DEF FetchAssumption
  <1>3. fetch' \in Fetch /\ fetch'.step # "connect"  BY <1>1, <1>2 DEF Fetch
  <1> QED  BY <1>3, GoesOn DEF Begin, FetchInv, FetchTypeOK

LEMMA ResolveHostKeeps == ASSUME FetchAssumption, FetchInv, ResolveHost PROVE FetchInv'
  <1> DEFINE S == names[fetch.at]
  <1>1. fetch # Nil /\ fetch \in Fetch /\ S # {} /\ S \subseteq Public /\ IsFiniteSet(Reached)
    BY DEF ResolveHost, FetchInv, FetchTypeOK, ArePublic, FetchAssumption
  <1>2. S \subseteq Reached  BY <1>1 DEF FetchInv, FetchTypeOK, Fetch
  <1>3. IsFiniteSet(S)  BY <1>1, <1>2, FS_Subset
  <1>4. PICK order \in SetToSeqs(S) : fetch' = [fetch EXCEPT !.step = "connect", !.checked = order]
    BY DEF ResolveHost
  <1>5. order \in Seq(S) /\ order # <<>>
    <2> HIDE DEF S
    <2> QED  BY <1>1, <1>3, OrdersOfSome
  <1>6. order \in Seq(Public) /\ order \in Seq(Reached)  BY <1>1, <1>2, <1>5
  <1>7. fetch' \in Fetch /\ fetch'.checked = order  BY <1>1, <1>4, <1>6 DEF Fetch
  <1> QED
    BY <1>5, <1>6, <1>7
       DEF ResolveHost, FetchInv, FetchTypeOK, WasChecked, ConnectsToThePublicOnly

\* What is connected to is the first of the addresses checked.
LEMMA ConnectKeeps == ASSUME FetchAssumption, FetchInv, Connect \/ Unreachable PROVE FetchInv'
  <1>1. /\ fetch # Nil /\ fetch \in Fetch /\ fetch.checked \in Seq(Public) /\ fetch.checked # <<>>
        /\ fetch.checked \in Seq(Reached) /\ Public \subseteq Reached
    BY DEF Connect, Unreachable, FetchInv, FetchTypeOK, WasChecked, FetchAssumption, Fetch
  <1>2. connected' = Head(fetch.checked)  BY DEF Connect, Unreachable, Connects, Target
  <1>3. connected' \in Public  BY <1>1, <1>2
  <1>4. CASE Connect
    <2>1. fetch' = [fetch EXCEPT !.step = "answered", !.checked = <<>>]
      BY <1>4 DEF Connect, Connects
    <2>2. <<>> \in Seq(Reached)  OBVIOUS
    <2>3. fetch' \in Fetch /\ fetch'.step # "connect"  BY <1>1, <2>1, <2>2 DEF Fetch
    <2> QED
      BY <1>1, <1>3, <1>4, <2>3
         DEF Connect, FetchInv, FetchTypeOK, WasChecked, ConnectsToThePublicOnly
  <1>5. CASE Unreachable
    <2>1. Tail(fetch.checked) \in Seq(Public) /\ Tail(fetch.checked) # <<>>
      <3> DEFINE s == fetch.checked
      <3>1. s \in Seq(Public) /\ Len(s) > 1  BY <1>1, <1>5 DEF Unreachable
      <3> HIDE DEF s
      <3>2. Tail(s) \in Seq(Public) /\ Len(Tail(s)) = Len(s) - 1 /\ Len(s) \in Nat  BY <3>1
      <3>3. Len(Tail(s)) # Len(<<>>)  BY <3>1, <3>2
      <3>4. Tail(s) # <<>>  BY <3>3
      <3> QED  BY <3>2, <3>4 DEF s
    <2>2. Tail(fetch.checked) \in Seq(Reached)  BY <1>1
    <2>3. fetch' = [fetch EXCEPT !.checked = Tail(fetch.checked)]  BY <1>5 DEF Unreachable, Connects
    <2>4. fetch' \in Fetch /\ fetch'.checked = Tail(fetch.checked)
      BY <1>1, <2>2, <2>3 DEF Fetch
    <2> QED
      BY <1>1, <1>3, <1>5, <2>1, <2>4
         DEF Unreachable, FetchInv, FetchTypeOK, WasChecked, ConnectsToThePublicOnly
  <1> QED  BY <1>4, <1>5

LEMMA AnswerKeeps ==
    ASSUME FetchAssumption, FetchInv, Redirected \/ GivesUp \/ PageAnswers \/ IconAnswers
    PROVE  FetchInv'
  <1>1. /\ fetch # Nil /\ fetch \in Fetch /\ UNCHANGED <<names, connected>>
        /\ names \in [Hosts -> SUBSET Reached]
    BY DEF Redirected, GivesUp, PageAnswers, IconAnswers, FetchInv, FetchTypeOK
  <1>2. ASSUME Redirected PROVE fetch' \in Fetch /\ fetch'.step # "connect"
    <2>1. PICK h \in Hosts : fetch' = [fetch EXCEPT !.at = h, !.hops = @ + 1, !.step = "resolve"]
      BY <1>2 DEF Redirected
    <2>2. PICK n \in 0 .. MaxRedirects : n = fetch.hops  BY <1>1 DEF Fetch
    <2>3. n < MaxRedirects  BY <1>2, <2>2 DEF Redirected
    <2>4. n + 1 \in 0 .. MaxRedirects  BY <2>2, <2>3 DEF FetchAssumption
    <2> QED  BY <1>1, <2>1, <2>2, <2>4 DEF Fetch
  <1>3. ASSUME TryIcon(fetch), fetch' # Nil PROVE fetch' \in Fetch /\ fetch'.step # "connect"
    BY <1>1, <1>3, TriesIcon
  <1>4. ASSUME PageAnswers, fetch' # Nil PROVE fetch' \in Fetch /\ fetch'.step # "connect"
    <2> DEFINE f == [fetch EXCEPT !.base = fetch.at, !.origins = Origins(fetch.url, fetch.at)]
    <2>1. fetch.url \in Hosts /\ fetch.at \in Hosts  BY <1>1 DEF Fetch
    <2>2. Origins(fetch.url, fetch.at) \in Seq(Hosts)  BY <2>1 DEF Origins
    <2>3. f \in Fetch  BY <1>1, <2>1, <2>2 DEF Fetch
    <2>4. TryIcon(f)  BY <1>4 DEF PageAnswers
    <2> HIDE DEF f
    <2> QED  BY <1>4, <2>3, <2>4, TriesIcon
  <1> QED  BY <1>1, <1>2, <1>3, <1>4, GoesOn DEF GivesUp, IconAnswers

\* Whatever names resolve to from one moment to the next, and wherever answers redirect, no
\* connection is made to an address that is not public: what is connected to is what was checked,
\* on every hop (opengraph.py).
THEOREM OnlyThePublicIsReached ==
    ASSUME FetchAssumption
    PROVE  FetchSpec => []ConnectsToThePublicOnly
  <1>1. FetchInit => FetchInv  BY InitFetch
  <1>2. FetchInv /\ [FetchNext]_fetchVars => FetchInv'
    <2> SUFFICES ASSUME FetchInv, [FetchNext]_fetchVars PROVE FetchInv'  OBVIOUS
    <2>1. CASE UNCHANGED fetchVars
      BY <2>1 DEF fetchVars, FetchInv, FetchTypeOK, WasChecked, ConnectsToThePublicOnly
    <2>2. CASE NameChanges
      BY <2>2 DEF NameChanges, FetchInv, FetchTypeOK, WasChecked, ConnectsToThePublicOnly
    <2> QED
      BY <2>1, <2>2, BeginKeeps, ResolveHostKeeps, ConnectKeeps, AnswerKeeps DEF FetchNext
  <1>3. FetchInv => ConnectsToThePublicOnly  BY DEF FetchInv
  <1> QED  BY <1>1, <1>2, <1>3, PTL DEF FetchSpec

-----------------------------------------------------------------------------
(* Client addresses.                                                        *)

Hops    == request.forwarded
LastHop == Hops[Len(Hops)]

\* Straight to the service: nothing was added, and the client connected there.
CameStraight == request.peer = request.from /\ ~request.secret

\* CloudFront stood at the end of the header whom it served.
LeftCloudFront ==
    /\ request.secret
    /\ adds => request.viewer = request.from

\* Where the request is, what is certain of it.
OnItsWay ==
    \/ request.at = request.way /\ CameStraight
    \/ /\ request.at = "balancer" /\ request.way = "cloudfront"
       /\ LeftCloudFront /\ request.peer \in Edges /\ Len(Hops) >= 1 /\ LastHop = request.from
    \/ /\ request.at = "service" /\ request.way = "balancer"
       /\ ~request.secret /\ request.peer \in Balancers
       /\ appends => Len(Hops) >= 1 /\ LastHop = request.from
    \/ /\ request.at = "service" /\ request.way = "cloudfront"
       /\ LeftCloudFront /\ request.peer \in Balancers
       /\ ~appends => Len(Hops) >= 1 /\ LastHop = request.from
       /\ appends => Len(Hops) >= 2 /\ LastHop \in Edges /\ Hops[Len(Hops) - 1] = request.from

\* The inductive invariant.
AddressInv ==
    /\ AddressesTypeOK
    /\ OnItsWay
    /\ found # NoAddress => request.at = "service"
    /\ NobodyElsesAddress

\* Behind a trusted proxy, the last hop is the client when no trusted proxy has it.
LEMMA LastHopIsTheClient ==
    ASSUME NEW hops \in Seq(Entries), Len(hops) >= 1, hops[Len(hops)] \notin Trusted, NEW peer \in Trusted
    PROVE  Resolve(peer, hops) = hops[Len(hops)]
  <1> DEFINE clients == {i \in DOMAIN hops : hops[i] \notin Trusted}
             last == CHOOSE i \in clients : \A j \in clients : j <= i
  <1>1. Len(hops) \in clients /\ \A j \in clients : j \in Nat /\ j <= Len(hops)
    OBVIOUS
  <1>2. \E i \in clients : \A j \in clients : j <= i
    BY <1>1
  <1>3. last \in clients /\ \A j \in clients : j <= last
    BY <1>2
  <1>4. last = Len(hops)
    BY <1>1, <1>3
  <1>5. hops # <<>> /\ clients # {}
    BY <1>1
  <1> QED
    BY <1>4, <1>5 DEF Resolve

\* A set of positions that is not empty has a last one.
LEMMA LastOfSome ==
    ASSUME NEW n \in Nat, NEW S \in SUBSET (1 .. n), S # {}
    PROVE  \E i \in S : \A j \in S : j <= i
  <1> DEFINE R == OpToRel(<, Nat)
             T == {n - i : i \in S}
  <1>1. R = {ss \in Nat \X Nat : ss[1] < ss[2]}
    BY DEF OpToRel
  <1>2. IsWellFoundedOn(R, Nat)
    BY NatLessThanWellFounded
  <1> HIDE DEF R
  <1>3. T \subseteq Nat /\ T # {}
    <2>1. \A i \in S : n - i \in Nat
      OBVIOUS
    <2> QED  BY <2>1
  <1> HIDE DEF T
  <1>4. PICK x \in T : \A y \in T : ~ (<<y, x>> \in R)
    BY <1>2, <1>3, WFMin
  <1>5. \A y \in T : ~ (y < x)
    BY <1>1, <1>3, <1>4
  <1>6. PICK i \in S : x = n - i
    BY DEF T
  <1>7. \A j \in S : n - j \in T
    BY DEF T
  <1>8. \A j \in S : j <= i
    BY <1>5, <1>6, <1>7
  <1> QED  BY <1>8

LEMMA InitAddress == ASSUME AddressesAssumption, AddressesInit PROVE AddressInv
  <1>1. PICK c \in Clients, way \in Ways, sent \in SeqOf(Entries, MaxSent), viewer \in Entries \cup {NoAddress} :
            request = [from |-> c, way |-> way, at |-> way, peer |-> c, forwarded |-> sent, viewer |-> viewer,
                       secret |-> FALSE]
    BY DEF AddressesInit
  <1>2. sent \in Seq(Entries)
    BY DEF SeqOf, AddressesAssumption
  <1> QED
    BY <1>1, <1>2 DEF AddressesInit, AddressInv, AddressesTypeOK, OnItsWay, CameStraight, NobodyElsesAddress, Addresses

LEMMA CloudFrontKeeps == ASSUME AddressesAssumption, AddressInv, CloudFront PROVE AddressInv'
  <1>1. PICK edge \in Edges :
            request' = [request EXCEPT !.at = "balancer", !.peer = edge, !.forwarded = Append(@, request.peer),
                                       !.viewer = IF adds THEN request.peer ELSE @, !.secret = TRUE]
    BY DEF CloudFront
  <1>2. /\ request.way = "cloudfront" /\ CameStraight /\ found = NoAddress
        /\ request.from \in Clients /\ request.viewer \in Entries \cup {NoAddress}
        /\ Hops \in Seq(Entries)
    BY DEF CloudFront, AddressInv, AddressesTypeOK, OnItsWay, Hops
  <1>3. /\ request'.from = request.from /\ request'.way = "cloudfront" /\ request'.at = "balancer"
        /\ request'.peer = edge /\ request'.secret = TRUE /\ Hops' = Append(Hops, request.from)
        /\ request'.viewer = IF adds THEN request.from ELSE request.viewer
    BY <1>1, <1>2 DEF AddressInv, AddressesTypeOK, Hops, CameStraight
  <1>4. Hops' \in Seq(Entries) /\ Len(Hops') >= 1 /\ LastHop' = request.from
    BY <1>2, <1>3 DEF LastHop, Entries, Addresses
  <1>5. AddressesTypeOK'
    BY <1>1, <1>2, <1>3, <1>4 DEF CloudFront, AddressInv, AddressesTypeOK, Addresses, Entries, Ways, Hops
  <1>6. OnItsWay'
    BY <1>3, <1>4 DEF CloudFront, OnItsWay, LeftCloudFront
  <1> QED
    BY <1>2, <1>5, <1>6 DEF CloudFront, AddressInv, NobodyElsesAddress

LEMMA BalancerKeeps == ASSUME AddressesAssumption, AddressInv, Balancer PROVE AddressInv'
  <1>1. PICK balancer \in Balancers :
            request' = [request EXCEPT !.at = "service", !.peer = balancer,
                                       !.forwarded = IF appends THEN Append(@, request.peer) ELSE @]
    BY DEF Balancer
  <1>2. /\ request.at = "balancer" /\ found = NoAddress /\ Hops \in Seq(Entries) /\ request.peer \in Addresses
        /\ \/ request.way = "balancer" /\ CameStraight
           \/ /\ request.way = "cloudfront" /\ LeftCloudFront /\ request.peer \in Edges
              /\ Len(Hops) >= 1 /\ LastHop = request.from
    BY DEF Balancer, AddressInv, AddressesTypeOK, OnItsWay, Hops
  <1>3. /\ request'.from = request.from /\ request'.way = request.way /\ request'.at = "service"
        /\ request'.peer = balancer /\ request'.secret = request.secret /\ request'.viewer = request.viewer
        /\ Hops' = IF appends THEN Append(Hops, request.peer) ELSE Hops
    BY <1>1 DEF AddressInv, AddressesTypeOK, Hops
  <1>4. Hops' \in Seq(Entries)
    BY <1>2, <1>3 DEF Entries
  <1>5. appends => Len(Hops') = Len(Hops) + 1 /\ LastHop' = request.peer
    BY <1>2, <1>3 DEF LastHop, Entries
  <1>6. appends /\ Len(Hops) >= 1 => Hops'[Len(Hops') - 1] = LastHop
    BY <1>2, <1>3 DEF LastHop, Entries
  <1>7. AddressesTypeOK'
    BY <1>1, <1>3, <1>4 DEF Balancer, AddressInv, AddressesTypeOK, Addresses, Ways, Hops
  <1>8. OnItsWay'
    <2>1. CASE request.way = "balancer" /\ CameStraight
      BY <1>2, <1>3, <1>5, <2>1 DEF Balancer, OnItsWay, CameStraight
    <2>2. CASE request.way = "cloudfront" /\ LeftCloudFront /\ request.peer \in Edges
               /\ Len(Hops) >= 1 /\ LastHop = request.from
      <3>1. LeftCloudFront'
        BY <1>3, <2>2 DEF Balancer, LeftCloudFront
      <3>2. ~appends => Len(Hops') >= 1 /\ LastHop' = request.from
        BY <1>3, <2>2 DEF LastHop
      <3>3. appends => Len(Hops') >= 2 /\ LastHop' \in Edges /\ Hops'[Len(Hops') - 1] = request.from
        BY <1>2, <1>5, <1>6, <2>2
      <3> QED  BY <1>3, <2>2, <3>1, <3>2, <3>3 DEF Balancer, OnItsWay
    <2> QED  BY <1>2, <2>1, <2>2
  <1> QED
    BY <1>2, <1>7, <1>8 DEF Balancer, AddressInv, NobodyElsesAddress

\* What the service finds is what NobodyElsesAddress says, each way a request may have come.
LEMMA ServeKeeps == ASSUME AddressesAssumption, AddressInv, Serve PROVE AddressInv'
  <1> DEFINE viewer == IF request.secret THEN CloudFrontViewer(request.viewer, Hops) ELSE NoAddress
             resolved == Resolve(request.peer, Hops)
  <1>1. found' = (IF viewer # NoAddress THEN viewer ELSE resolved)
    BY DEF Serve, ClientIp, Hops
  <1>2. /\ request.from \in Clients /\ request.viewer \in Entries \cup {NoAddress} /\ request.at = "service"
        /\ Hops \in Seq(Entries) /\ request.peer \in Addresses /\ OnItsWay
    BY DEF Serve, AddressInv, AddressesTypeOK, Hops
  <1>3. request.from \notin Trusted /\ Balancers \subseteq Trusted /\ NoAddress # request.from
        /\ \A edge \in Edges : edge \notin Trusted /\ edge # NoAddress
    BY <1>2 DEF AddressesAssumption, Entries, Addresses
  <1>4. /\ viewer \in Addresses \cup {NoAddress}
        /\ viewer # NoAddress => viewer = request.viewer /\ request.secret /\ Len(Hops) >= 2 /\ viewer = Hops[Len(Hops) - 1]
    BY DEF CloudFrontViewer
  <1>5. resolved \in Entries
    <2>1. CASE Hops = <<>> \/ request.peer \notin Trusted
      BY <1>2, <2>1 DEF Resolve, Entries
    <2>2. CASE ~(Hops = <<>> \/ request.peer \notin Trusted)
      <3> DEFINE clients == {i \in DOMAIN Hops : Hops[i] \notin Trusted}
                 last == CHOOSE i \in clients : \A j \in clients : j <= i
      <3>1. Hops[1] \in Entries
        BY <1>2, <2>2
      <3>2. clients \in SUBSET (1 .. Len(Hops)) /\ Len(Hops) \in Nat
        BY <1>2
      <3>3. clients # {} => last \in clients
        <4> HIDE DEF clients
        <4> QED  BY <3>2, LastOfSome
      <3>4. clients # {} => Hops[last] \in Entries
        BY <1>2, <3>3
      <3> QED  BY <2>2, <3>1, <3>4 DEF Resolve
    <2> QED  BY <2>1, <2>2
  <1> HIDE DEF viewer, resolved
  <1>6. request.way = "service" => found' = request.from
    <2>1. request.way = "service" => CameStraight
      BY <1>2 DEF OnItsWay
    <2>2. request.way = "service" => viewer = NoAddress /\ resolved = request.from
      BY <1>2, <1>3, <2>1 DEF CameStraight, Resolve, viewer, resolved
    <2> QED  BY <1>1, <2>2
  <1>7. request.way = "balancer" /\ appends => found' = request.from
    <2> SUFFICES ASSUME request.way = "balancer", appends PROVE found' = request.from
      OBVIOUS
    <2>1. CASE CameStraight /\ request.at = "balancer"
      BY <1>2, <2>1
    <2>2. CASE ~request.secret /\ request.peer \in Balancers /\ Len(Hops) >= 1 /\ LastHop = request.from
      <3>1. viewer = NoAddress
        BY <2>2 DEF viewer
      <3>2. resolved = request.from
        BY <1>2, <1>3, <2>2, LastHopIsTheClient DEF resolved, LastHop
      <3> QED  BY <1>1, <3>1, <3>2
    <2> QED  BY <1>2, <2>1, <2>2 DEF OnItsWay
  <1>8. request.way = "cloudfront" =>
            /\ appends => found' = request.from \/ (~adds /\ found' \in Edges)
            /\ adds => found' = request.from
    <2> SUFFICES ASSUME request.way = "cloudfront"
                 PROVE  /\ appends => found' = request.from \/ (~adds /\ found' \in Edges)
                        /\ adds => found' = request.from
      OBVIOUS
    <2>1. /\ LeftCloudFront /\ request.peer \in Trusted
          /\ ~appends => Len(Hops) >= 1 /\ LastHop = request.from
          /\ appends => Len(Hops) >= 2 /\ LastHop \in Edges /\ Hops[Len(Hops) - 1] = request.from
      BY <1>2, <1>3 DEF OnItsWay
    <2>2. CASE appends
      <3>1. resolved \in Edges
        BY <1>2, <1>3, <2>1, <2>2, LastHopIsTheClient DEF resolved, LastHop
      <3>2. viewer # NoAddress => viewer = request.from
        BY <1>4, <2>1, <2>2
      <3>3. adds => viewer = request.from
        BY <1>2, <1>3, <2>1, <2>2 DEF LeftCloudFront, viewer, CloudFrontViewer, Addresses
      <3> QED  BY <1>1, <1>3, <2>2, <3>1, <3>2, <3>3
    <2>3. CASE ~appends
      <3>1. resolved = request.from
        BY <1>2, <1>3, <2>1, <2>3, LastHopIsTheClient DEF resolved, LastHop
      <3>2. adds /\ viewer # NoAddress => viewer = request.from
        BY <1>4, <2>1 DEF LeftCloudFront
      <3> QED  BY <1>1, <2>3, <3>1, <3>2
    <2> QED  BY <2>2, <2>3
  <1>9. found' \in Entries
    BY <1>1, <1>4, <1>5 DEF Entries
  <1>10. UNCHANGED <<adds, appends, request>>
    BY DEF Serve
  <1>11. AddressesTypeOK' /\ OnItsWay'
    BY <1>9, <1>10 DEF AddressInv, AddressesTypeOK, OnItsWay, CameStraight, LeftCloudFront, LastHop, Hops
  <1>12. request.way \in Ways
    BY DEF AddressInv, AddressesTypeOK
  <1>13. NobodyElsesAddress'
    <2>1. CASE request.way = "service"
      BY <1>6, <1>10, <2>1 DEF NobodyElsesAddress
    <2>2. CASE request.way = "balancer"
      BY <1>7, <1>10, <2>2 DEF NobodyElsesAddress
    <2>3. CASE request.way = "cloudfront"
      BY <1>8, <1>10, <2>3 DEF NobodyElsesAddress
    <2> QED  BY <1>12, <2>1, <2>2, <2>3 DEF Ways
  <1> QED
    BY <1>2, <1>10, <1>11, <1>13 DEF AddressInv

LEMMA AddressStutters == ASSUME AddressInv, UNCHANGED addressVars PROVE AddressInv'
  BY DEF addressVars, AddressInv, AddressesTypeOK, OnItsWay, CameStraight, LeftCloudFront, LastHop, Hops,
         NobodyElsesAddress

LEMMA AddressInvariance == ASSUME AddressesAssumption PROVE AddressesSpec => []AddressInv
  <1>1. AddressesInit => AddressInv
    BY InitAddress
  <1>2. AddressInv /\ [AddressesNext]_addressVars => AddressInv'
    BY CloudFrontKeeps, BalancerKeeps, ServeKeeps, AddressStutters DEF AddressesNext
  <1> QED  BY <1>1, <1>2, PTL DEF AddressesSpec

\* What a request carries, and the address found, are what they should be (network.py), for headers
\* of any length.
THEOREM AddressesTypeCorrect ==
    ASSUME AddressesAssumption
    PROVE  AddressesSpec => []AddressesTypeOK
  <1>1. AddressInv => AddressesTypeOK
    BY DEF AddressInv
  <1> QED  BY <1>1, AddressInvariance, PTL

\* get_client_ip (network.py) takes nobody else for the client but the edge, whatever headers a
\* request came with and however long they are.
THEOREM NobodyElsesAddressIsTaken ==
    ASSUME AddressesAssumption
    PROVE  AddressesSpec => []NobodyElsesAddress
  <1>1. AddressInv => NobodyElsesAddress
    BY DEF AddressInv
  <1> QED  BY <1>1, AddressInvariance, PTL

-----------------------------------------------------------------------------
(* Rate limits.                                                             *)

\* The guesses that may still be counted in the settled window without asking about it: they were
\* let through to the comparison, or will be by the count of an earlier window.
Late ==
    {t \in Threads : /\ asking[t].use = "failures" /\ ~asking[t].waved
                     /\ \/ asking[t].step \in {"compare", "count"}
                        \/ asking[t].step = "check" /\ asking[t].start # settled}

Settled == settled # None => Current(asking, time) = {settled}

\* What was let through is in the row, unless nothing was.
InTheRow == \A u \in Uses : letIn[u] # 0 => /\ row[u] # None
                                            /\ row[u].start = settled
                                            /\ letIn[u] <= row[u].count

GuessesAreFailures == \A t \in Threads : asking[t].step \in {"check", "compare"} => asking[t].use = "failures"

\* Limit - 1 failures leave room for one guess of each thread.
RoomForTheLate == letIn["failures"] + Cardinality(Late) <= Limit - 1 + Cardinality(Threads)

\* The inductive invariant.
RateInv ==
    /\ RateTypeOK
    /\ Settled
    /\ settled = None => letIn = [u \in Uses |-> 0]
    /\ InTheRow
    /\ letIn["requests"] <= Limit
    /\ GuessesAreFailures
    /\ RoomForTheLate

-----------------------------------------------------------------------------
(* Windows.                                                                 *)

LEMMA WindowStart ==
    ASSUME NEW c \in Nat, NEW w \in Nat \ {0}
    PROVE  c - (c % w) \in 0 .. c
  OBVIOUS

LEMMA StartIsATime ==
    ASSUME RateLimitsAssumption, NEW t \in Threads, NEW now \in 0 .. MaxTime
    PROVE  StartAt(t, now) \in Times
  <1> DEFINE c == IF t \in Fast THEN now + Skew ELSE now
  <1>1. c \in Nat /\ c <= MaxTime + Skew /\ Window \in Nat \ {0} /\ MaxTime + Skew \in Nat
    BY DEF RateLimitsAssumption
  <1>2. StartAt(t, now) = c - (c % Window)
    BY DEF StartAt
  <1> HIDE DEF c
  <1>3. c - (c % Window) \in 0 .. c
    BY <1>1, WindowStart
  <1> QED  BY <1>1, <1>2, <1>3 DEF Times

\* A set of windows in which everybody is may be counted, and taken apart when it is one.
LEMMA OneWindow ==
    ASSUME RateLimitsAssumption, NEW a \in [Threads -> Asking], NEW now \in 0 .. MaxTime,
           Cardinality(Current(a, now)) = 1
    PROVE  \E w \in Times : Current(a, now) = {w}
  <1> DEFINE clocks == {StartAt(t, now) : t \in Threads}
             counting == {u \in Threads : a[u].step = "count"}
             taken == {a[t].start : t \in counting}
  <1>1. IsFiniteSet(Threads)
    BY DEF RateLimitsAssumption
  <1> DEFINE clock == [t \in Threads |-> StartAt(t, now)]
             takes == [t \in counting |-> a[t].start]
  <1>2. IsFiniteSet(clocks)
    <2>1. clock \in Surjection(Threads, clocks)
      BY DEF Surjection
    <2> QED  BY <1>1, <2>1, FS_Surjection
  <1>3. IsFiniteSet(counting)
    BY <1>1, FS_Subset
  <1>4. IsFiniteSet(taken)
    <2> HIDE DEF counting
    <2>1. takes \in Surjection(counting, taken)
      BY DEF Surjection
    <2> QED  BY <1>3, <2>1, FS_Surjection
  <1>5. Current(a, now) = clocks \cup taken
    BY DEF Current
  <1>6. IsFiniteSet(Current(a, now))
    <2> HIDE DEF clocks, taken
    <2> QED  BY <1>2, <1>4, <1>5, FS_Union
  <1>7. Current(a, now) \subseteq Times
    BY <1>5, StartIsATime DEF Asking
  <1>8. PICK w : Current(a, now) = {w}
    BY <1>6, FS_Singleton
  <1> QED  BY <1>7, <1>8

\* What Tells leaves: a window everybody is in, or none, and a count that goes on only in the same.
LEMMA Told ==
    ASSUME RateLimitsAssumption, asking' \in [Threads -> Asking], time' \in 0 .. MaxTime,
           letIn \in [Uses -> Nat], NEW n \in {0, 1}, NEW u \in Uses, Tells(n, u)
    PROVE  /\ settled' \in Times \cup {None}
           /\ Settled'
           /\ letIn' \in [Uses -> Nat]
           /\ (settled' = settled /\ settled # None) => letIn' = [letIn EXCEPT ![u] = @ + n]
           /\ ~(settled' = settled /\ settled # None) => letIn' = [v \in Uses |-> 0]
  <1>1. CASE Cardinality(Current(asking', time')) = 1
    <2>1. PICK w \in Times : Current(asking', time') = {w}
      BY <1>1, OneWindow
    <2>2. settled' = w
      BY <1>1, <2>1 DEF Tells
    <2> QED  BY <2>1, <2>2 DEF Tells, Settled
  <1>2. CASE Cardinality(Current(asking', time')) # 1
    BY <1>2 DEF Tells, Settled
  <1> QED  BY <1>1, <1>2

LEMMA LateAreFew ==
    ASSUME RateLimitsAssumption
    PROVE  /\ Cardinality(Late) \in Nat /\ Cardinality(Late) <= Cardinality(Threads)
           /\ Cardinality(Threads) \in Nat /\ IsFiniteSet(Late)
  <1>1. IsFiniteSet(Threads) /\ Late \in SUBSET Threads
    BY DEF RateLimitsAssumption, Late
  <1> QED  BY <1>1, FS_Subset, FS_CardinalityType

LEMMA LateAreFewThen ==
    ASSUME RateLimitsAssumption
    PROVE  /\ Cardinality(Late') \in Nat /\ Cardinality(Late') <= Cardinality(Threads)
           /\ IsFiniteSet(Late')
  <1>1. IsFiniteSet(Threads) /\ Late' \in SUBSET Threads
    BY DEF RateLimitsAssumption, Late
  <1> QED  BY <1>1, FS_Subset, FS_CardinalityType

\* What a step has to show of itself, whatever becomes of the window.
Sound(n, u) ==
    /\ asking' \in [Threads -> Asking] /\ time' \in 0 .. MaxTime /\ row' \in [Uses -> Row \cup {None}]
    /\ GuessesAreFailures'
    /\ Tells(n, u)

\* Nothing is let through: then, in the same window, the rows of it stay and nobody is late anew.
LEMMA NothingLetIn ==
    ASSUME RateLimitsAssumption, RateInv, NEW u \in Uses, Sound(0, u),
           (settled' = settled /\ settled # None) => row' = row /\ RoomForTheLate'
    PROVE  RateInv'
  <1>1. letIn \in [Uses -> Nat] /\ Limit \in Nat \ {0} /\ None \notin Nat
    BY DEF RateInv, RateTypeOK, RateLimitsAssumption
  <1>2. /\ settled' \in Times \cup {None}
        /\ Settled'
        /\ letIn' \in [Uses -> Nat]
        /\ (settled' = settled /\ settled # None) => letIn' = [letIn EXCEPT ![u] = @ + 0]
        /\ ~(settled' = settled /\ settled # None) => letIn' = [v \in Uses |-> 0]
    BY <1>1, Told DEF Sound
  <1>3. RateTypeOK'
    BY <1>2 DEF Sound, RateTypeOK
  <1>4. CASE settled' = settled /\ settled # None
    <2>1. letIn' = letIn
      BY <1>1, <1>2, <1>4
    <2> QED
      BY <1>2, <1>3, <1>4, <2>1 DEF RateInv, Sound, InTheRow
  <1>5. CASE ~(settled' = settled /\ settled # None)
    <2>1. InTheRow' /\ letIn'["requests"] <= Limit /\ letIn'["failures"] = 0
      BY <1>1, <1>2, <1>5 DEF InTheRow, Uses
    <2>2. RoomForTheLate'
      BY <1>1, <2>1, LateAreFew, LateAreFewThen DEF RoomForTheLate
    <2> QED
      BY <1>2, <1>3, <1>5, <2>1, <2>2 DEF RateInv, Sound
  <1> QED  BY <1>4, <1>5

LEMMA NobodyLateAnew ==
    ASSUME RateLimitsAssumption, RateInv, Late' \subseteq Late, letIn'["failures"] = letIn["failures"]
    PROVE  RoomForTheLate'
  <1>1. Cardinality(Late') <= Cardinality(Late)
    BY LateAreFew, FS_Subset
  <1>2. letIn["failures"] \in Nat /\ Limit \in Nat
    BY DEF RateInv, RateTypeOK, Uses, RateLimitsAssumption
  <1> QED
    BY <1>1, <1>2, LateAreFew, LateAreFewThen DEF RateInv, RoomForTheLate

\* So in the same window it is enough that nobody is late anew.
LEMMA NothingLetInAndNobodyLate ==
    ASSUME RateLimitsAssumption, RateInv, NEW u \in Uses, Sound(0, u), row' = row,
           (settled' = settled /\ settled # None) => Late' \subseteq Late
    PROVE  RateInv'
  <1>1. letIn \in [Uses -> Nat]
    BY DEF RateInv, RateTypeOK
  <1>2. CASE settled' = settled /\ settled # None
    <2>1. letIn' = letIn
      BY <1>1, <1>2, Told DEF Sound
    <2>2. RoomForTheLate'
      BY <1>2, <2>1, NobodyLateAnew
    <2> QED  BY <2>2, NothingLetIn
  <1>3. CASE ~(settled' = settled /\ settled # None)
    BY <1>3, NothingLetIn
  <1> QED  BY <1>2, <1>3

-----------------------------------------------------------------------------
(* The steps.                                                               *)

LEMMA InitRate == ASSUME RateLimitsAssumption, RateInit PROVE RateInv
  <1>1. NotAsking \in Asking
    BY DEF NotAsking, Asking, Uses, Times, RateLimitsAssumption
  <1>2. RateTypeOK
    BY <1>1 DEF RateInit, RateTypeOK, RateLimitsAssumption
  <1>3. letIn["failures"] = 0 /\ letIn["requests"] = 0 /\ Limit \in Nat \ {0}
    BY DEF RateInit, Uses, RateLimitsAssumption
  <1>4. RoomForTheLate
    BY <1>3, LateAreFew DEF RoomForTheLate
  <1>5. GuessesAreFailures
    BY DEF RateInit, NotAsking, GuessesAreFailures
  <1> QED
    BY <1>2, <1>3, <1>4, <1>5 DEF RateInit, RateInv, Settled, InTheRow

\* A step of one thread, that makes its request a.
LEMMA Done ==
    ASSUME RateInv, NEW t \in Threads, NEW a \in Asking, Does(t, a),
           a.step \in {"check", "compare"} => a.use = "failures"
    PROVE  /\ asking' \in [Threads -> Asking] /\ GuessesAreFailures'
           /\ asking'[t] = a /\ \A v \in Threads \ {t} : asking'[v] = asking[v]
  BY DEF RateInv, RateTypeOK, Does, GuessesAreFailures

\* Nobody is late anew when the thread that did something is not.
LEMMA LateBut ==
    ASSUME NEW t \in Threads, \A v \in Threads \ {t} : asking'[v] = asking[v], settled' = settled,
           t \in Late' => t \in Late
    PROVE  Late' \subseteq Late
  BY DEF Late

LEMMA AskKeeps == ASSUME RateLimitsAssumption, RateInv, NEW t \in Threads, Ask(t) PROVE RateInv'
  <1> DEFINE a == [asking[t] EXCEPT !.step = "count", !.use = "requests", !.start = Start(t)]
  <1>1. asking[t] \in Asking /\ time \in 0 .. MaxTime /\ row \in [Uses -> Row \cup {None}]
    BY DEF RateInv, RateTypeOK
  <1>2. Start(t) \in Times
    BY <1>1, StartIsATime DEF Start
  <1>3. a \in Asking /\ a.step = "count" /\ a.use = "requests"
    BY <1>1, <1>2 DEF Asking, Uses
  <1>4. Does(t, a) /\ time' = time /\ row' = row /\ Tells(0, "requests")
    BY DEF Ask, Hits
  <1> HIDE DEF a
  <1>5. Sound(0, "requests")
    BY <1>1, <1>3, <1>4, Done DEF Sound
  <1>6. settled' = settled => Late' \subseteq Late
    <2>1. t \notin Late'
      BY <1>3, <1>4, Done DEF Late
    <2> QED  BY <1>3, <1>4, <2>1, Done, LateBut
  <1> QED
    BY <1>4, <1>5, <1>6, NothingLetInAndNobodyLate DEF Uses

LEMMA GuessKeeps == ASSUME RateLimitsAssumption, RateInv, NEW t \in Threads, Guess(t) PROVE RateInv'
  <1> DEFINE a == [NotAsking EXCEPT !.step = "check", !.use = "failures", !.start = Start(t)]
  <1>1. time \in 0 .. MaxTime /\ row \in [Uses -> Row \cup {None}] /\ letIn \in [Uses -> Nat]
    BY DEF RateInv, RateTypeOK
  <1>2. Start(t) \in Times
    BY <1>1, StartIsATime DEF Start
  <1>3. a \in Asking /\ a.step = "check" /\ a.use = "failures" /\ a.start = Start(t)
    BY <1>2 DEF Asking, Uses, NotAsking
  <1>4. Does(t, a) /\ time' = time /\ row' = row /\ Tells(0, "failures")
    BY DEF Guess
  <1> HIDE DEF a
  <1>5. Sound(0, "failures")
    BY <1>1, <1>3, <1>4, Done DEF Sound
  <1>6. ASSUME settled' = settled, settled # None PROVE Late' \subseteq Late
    <2>1. Settled'
      BY <1>1, <1>5, Told DEF Sound, Uses
    <2>2. Start(t) = settled
      BY <1>4, <1>6, <2>1 DEF Settled, Current, Start
    <2>3. t \notin Late'
      BY <1>3, <1>4, <1>6, <2>2, Done DEF Late
    <2> QED  BY <1>3, <1>4, <1>6, <2>3, Done, LateBut
  <1> QED
    BY <1>4, <1>5, <1>6, NothingLetInAndNobodyLate DEF Uses

LEMMA CheckKeeps == ASSUME RateLimitsAssumption, RateInv, NEW t \in Threads, Check(t) PROVE RateInv'
  <1>1. /\ asking[t] \in Asking /\ asking[t].use = "failures" /\ asking[t].step = "check"
        /\ time \in 0 .. MaxTime /\ row \in [Uses -> Row \cup {None}] /\ letIn \in [Uses -> Nat]
        /\ Limit \in Nat
    BY DEF RateInv, RateTypeOK, GuessesAreFailures, Check, RateLimitsAssumption
  <1>2. time' = time /\ row' = row /\ Tells(0, "failures") /\ "failures" \in Uses
    BY DEF Check, Uses
  <1>3. CASE CountIn("failures", asking[t].start) < Limit
    <2> DEFINE a == [asking[t] EXCEPT !.step = "compare"]
    <2>1. a \in Asking /\ a.step = "compare" /\ a.use = "failures" /\ a.waved = asking[t].waved
      BY <1>1 DEF Asking
    <2>2. Does(t, a)
      BY <1>3 DEF Check
    <2> HIDE DEF a
    <2>3. Sound(0, "failures")
      BY <1>1, <1>2, <2>1, <2>2, Done DEF Sound
    <2>4. ASSUME settled' = settled, settled # None PROVE RoomForTheLate'
      <3>1. letIn' = letIn
        BY <1>1, <1>2, <2>3, <2>4, Told DEF Sound
      <3>2. CASE asking[t].start = settled
        <4>1. letIn["failures"] <= Limit - 1
          <5>1. CASE letIn["failures"] = 0
            BY <5>1 DEF RateLimitsAssumption
          <5>2. CASE letIn["failures"] # 0
            <6>1. row["failures"] # None /\ row["failures"].start = settled /\ letIn["failures"] <= row["failures"].count
              BY <1>2, <5>2 DEF RateInv, InTheRow
            <6>2. row["failures"].count \in Nat
              BY <1>1, <1>2, <6>1 DEF Row
            <6> QED  BY <1>1, <1>2, <1>3, <3>2, <6>1, <6>2 DEF CountIn
          <5> QED  BY <5>1, <5>2
        <4> QED
          BY <1>1, <1>2, <3>1, <4>1, LateAreFew, LateAreFewThen DEF RoomForTheLate
      <3>3. CASE asking[t].start # settled
        <4>1. t \in Late' => t \in Late
          BY <1>1, <2>1, <2>2, <3>3, Done DEF Late
        <4>2. Late' \subseteq Late
          BY <2>1, <2>2, <2>4, <4>1, Done, LateBut
        <4> QED  BY <3>1, <4>2, NobodyLateAnew
      <3> QED  BY <3>2, <3>3
    <2> QED
      BY <1>2, <2>3, <2>4, NothingLetIn
  <1>4. CASE ~(CountIn("failures", asking[t].start) < Limit)
    <2>1. NotAsking \in Asking /\ NotAsking.step = "idle"
      BY DEF NotAsking, Asking, Uses, Times, RateLimitsAssumption
    <2>2. Does(t, NotAsking)
      BY <1>4 DEF Check
    <2>3. Sound(0, "failures")
      BY <1>1, <1>2, <2>1, <2>2, Done DEF Sound
    <2>4. settled' = settled => Late' \subseteq Late
      <3>1. t \notin Late'
        BY <2>1, <2>2, Done DEF Late
      <3> QED  BY <2>1, <2>2, <3>1, Done, LateBut
    <2> QED
      BY <1>2, <2>3, <2>4, NothingLetInAndNobodyLate
  <1> QED  BY <1>3, <1>4

\* A request that ends, counted or not.
LEMMA Over ==
    ASSUME RateLimitsAssumption
    PROVE  NotAsking \in Asking /\ NotAsking.step = "idle"
  BY DEF NotAsking, Asking, Uses, Times, RateLimitsAssumption

\* A step that leaves the rows, after which only who was late is.
LEMMA ThreadGoesOn ==
    ASSUME RateLimitsAssumption, RateInv, NEW t \in Threads, NEW a \in Asking, Does(t, a), NEW u \in Uses,
           UNCHANGED <<time, row>>, Tells(0, u),
           a.step \in {"check", "compare"} => a.use = "failures",
           t \in Late' => t \in Late
    PROVE  RateInv'
  <1>1. time \in 0 .. MaxTime /\ row \in [Uses -> Row \cup {None}]
    BY DEF RateInv, RateTypeOK
  <1>2. Sound(0, u)
    BY <1>1, Done DEF Sound
  <1>3. settled' = settled => Late' \subseteq Late
    BY Done, LateBut
  <1> QED
    BY <1>2, <1>3, NothingLetInAndNobodyLate

LEMMA CompareKeeps == ASSUME RateLimitsAssumption, RateInv, NEW t \in Threads, Compare(t) PROVE RateInv'
  <1>1. /\ asking[t] \in Asking /\ asking[t].use = "failures" /\ asking[t].step = "compare"
        /\ time \in 0 .. MaxTime /\ UNCHANGED <<time, row>> /\ Tells(0, "failures") /\ "failures" \in Uses
    BY DEF RateInv, RateTypeOK, GuessesAreFailures, Compare, Uses
  <1>2. CASE Does(t, NotAsking)
    <2>1. t \notin Late'
      BY <1>2, Over, Done DEF Late
    <2> QED  BY <1>1, <1>2, <2>1, Over, ThreadGoesOn
  <1>3. CASE Hits(t, "failures")
    <2> DEFINE a == [asking[t] EXCEPT !.step = "count", !.use = "failures", !.start = Start(t)]
    <2>1. Start(t) \in Times
      BY <1>1, StartIsATime DEF Start
    <2>2. a \in Asking /\ a.step = "count" /\ a.waved = asking[t].waved
      BY <1>1, <2>1 DEF Asking, Uses
    <2>3. Does(t, a)
      BY <1>3 DEF Hits
    <2> HIDE DEF a
    <2>4. t \in Late' => t \in Late
      BY <1>1, <2>2, <2>3, Done DEF Late
    <2> QED  BY <1>1, <2>2, <2>3, <2>4, ThreadGoesOn
  <1> QED  BY <1>2, <1>3 DEF Compare

LEMMA StoreFailsKeeps == ASSUME RateLimitsAssumption, RateInv, NEW t \in Threads, StoreFails(t) PROVE RateInv'
  <1>1. /\ asking[t] \in Asking /\ asking[t].use \in Uses
        /\ asking[t].step = "check" => asking[t].use = "failures"
        /\ UNCHANGED <<time, row>> /\ Tells(0, asking[t].use)
    BY DEF RateInv, RateTypeOK, Asking, GuessesAreFailures, StoreFails
  <1>2. CASE asking[t].step = "check"
    <2> DEFINE a == [asking[t] EXCEPT !.step = "compare", !.waved = TRUE]
    <2>1. a \in Asking /\ a.waved /\ a.use = "failures"
      BY <1>1, <1>2 DEF Asking
    <2>2. Does(t, a)
      BY <1>2 DEF StoreFails
    <2> HIDE DEF a
    <2>3. t \notin Late'
      BY <2>1, <2>2, Done DEF Late
    <2> QED  BY <1>1, <2>1, <2>2, <2>3, ThreadGoesOn
  <1>3. CASE asking[t].step # "check"
    <2>1. Does(t, NotAsking)
      BY <1>3 DEF StoreFails
    <2>2. t \notin Late'
      BY <2>1, Over, Done DEF Late
    <2> QED  BY <1>1, <2>1, <2>2, Over, ThreadGoesOn
  <1> QED  BY <1>2, <1>3

LEMMA TickKeeps == ASSUME RateLimitsAssumption, RateInv, Tick PROVE RateInv'
  <1>1. /\ time \in 0 .. MaxTime /\ MaxTime \in Nat /\ time < MaxTime /\ time' = time + 1
        /\ asking' = asking /\ row' = row /\ Tells(0, "requests") /\ "requests" \in Uses
    BY DEF RateInv, RateTypeOK, Tick, Uses, RateLimitsAssumption
  <1>2. Sound(0, "requests")
    BY <1>1 DEF RateInv, RateTypeOK, Sound, GuessesAreFailures
  <1>3. settled' = settled => Late' \subseteq Late
    BY <1>1 DEF Late
  <1> QED
    BY <1>1, <1>2, <1>3, NothingLetInAndNobodyLate

\* The rows a count leaves, the one counted in and the others.
LEMMA CountedRow ==
    ASSUME RateLimitsAssumption, row \in [Uses -> Row \cup {None}], NEW u \in Uses, NEW w \in Times
    PROVE  /\ Counted(u, w) \in Row
           /\ Counted(u, w).start = w
           /\ Counted(u, w).count = IF row[u] # None /\ row[u].start = w THEN row[u].count + 1 ELSE 1
           /\ Kept(w) \in [Uses -> Row \cup {None}]
           /\ \A v \in Uses : row[v] # None /\ row[v].start = w => Kept(w)[v] = row[v]
  <1>1. w \in Nat /\ Keep \in Nat /\ \A x \in Times : x \in Nat
    BY DEF Times, RateLimitsAssumption
  <1>2. Kept(w) \in [Uses -> Row \cup {None}] /\ \A v \in Uses : row[v] # None /\ row[v].start = w => Kept(w)[v] = row[v]
    BY <1>1 DEF Kept
  <1>3. Kept(w)[u] # None => Kept(w)[u] = row[u] /\ row[u] # None
    BY DEF Kept
  <1>4. row[u] # None => row[u].count \in Nat
    BY DEF Row
  <1>5. Counted(u, w).start = w
    BY DEF Counted
  <1>6. Counted(u, w).count = IF row[u] # None /\ row[u].start = w THEN row[u].count + 1 ELSE 1
    BY <1>2, <1>3 DEF Counted
  <1>7. Counted(u, w).count \in Nat \ {0}
    BY <1>4, <1>6
  <1>8. Counted(u, w) = [start |-> w, count |-> Counted(u, w).count]
    BY DEF Counted
  <1>9. Counted(u, w) \in Row
    BY <1>7, <1>8 DEF Row
  <1> QED  BY <1>2, <1>5, <1>6, <1>9

LEMMA CountKeeps == ASSUME RateLimitsAssumption, RateInv, NEW t \in Threads, Count(t) PROVE RateInv'
  <1> DEFINE u == asking[t].use
             w == asking[t].start
             new == Counted(u, w)
             n == IF LetsThrough(asking[t], new.count) THEN 1 ELSE 0
  <1>1. /\ asking[t] \in Asking /\ asking[t].step = "count" /\ u \in Uses /\ w \in Times
        /\ row \in [Uses -> Row \cup {None}] /\ letIn \in [Uses -> Nat] /\ time \in 0 .. MaxTime /\ Limit \in Nat \ {0}
    BY DEF RateInv, RateTypeOK, Count, Asking, RateLimitsAssumption
  <1>2. row' = [Kept(w) EXCEPT ![u] = new] /\ Does(t, NotAsking) /\ time' = time /\ Tells(n, u) /\ n \in {0, 1}
    BY DEF Count
  <1>3. /\ asking' \in [Threads -> Asking] /\ GuessesAreFailures' /\ asking'[t] = NotAsking
        /\ \A v \in Threads \ {t} : asking'[v] = asking[v]
    BY <1>2, Over, Done
  <1>4. /\ new \in Row /\ new.start = w
        /\ new.count = IF row[u] # None /\ row[u].start = w THEN row[u].count + 1 ELSE 1
        /\ Kept(w) \in [Uses -> Row \cup {None}]
        /\ \A v \in Uses : row[v] # None /\ row[v].start = w => Kept(w)[v] = row[v]
    BY <1>1, CountedRow
  <1>5. row' \in [Uses -> Row \cup {None}] /\ row'[u] = new /\ \A v \in Uses \ {u} : row'[v] = Kept(w)[v]
    BY <1>1, <1>2, <1>4
  <1>6. n = 1 => (u = "requests" => new.count <= Limit) /\ (u = "failures" => ~asking[t].waved)
    BY DEF LetsThrough
  <1>7. t \notin Late' /\ (settled' = settled => Late' \subseteq Late)
    <2>1. t \notin Late'
      BY <1>3, Over DEF Late
    <2> QED  BY <1>3, <2>1, LateBut
  <1>8. settled # None => settled = w
    BY <1>1 DEF RateInv, Settled, Current
  <1> HIDE DEF u, w, new, n
  <1>9. /\ settled' \in Times \cup {None}
        /\ Settled'
        /\ letIn' \in [Uses -> Nat]
        /\ (settled' = settled /\ settled # None) => letIn' = [letIn EXCEPT ![u] = @ + n]
        /\ ~(settled' = settled /\ settled # None) => letIn' = [v \in Uses |-> 0]
    BY <1>1, <1>2, <1>3, Told
  <1>10. RateTypeOK'
    BY <1>1, <1>2, <1>3, <1>5, <1>9 DEF RateTypeOK
  <1>11. CASE ~(settled' = settled /\ settled # None)
    <2>1. InTheRow' /\ letIn'["requests"] <= Limit /\ letIn'["failures"] = 0
      BY <1>1, <1>9, <1>11 DEF InTheRow, Uses
    <2>2. RoomForTheLate'
      BY <1>1, <2>1, LateAreFew, LateAreFewThen DEF RoomForTheLate
    <2> QED
      BY <1>3, <1>9, <1>10, <1>11, <2>1, <2>2 DEF RateInv
  <1>12. CASE settled' = settled /\ settled # None
    <2>1. letIn' = [letIn EXCEPT ![u] = @ + n] /\ settled = w
      BY <1>8, <1>9, <1>12
    <2>2. letIn[u] # 0 => new.count >= letIn[u] + 1
      <3>1. letIn[u] # 0 => row[u] # None /\ row[u].start = w /\ letIn[u] <= row[u].count
        BY <1>1, <2>1 DEF RateInv, InTheRow
      <3>2. row[u] # None => row[u].count \in Nat
        BY <1>1 DEF Row
      <3> QED  BY <1>1, <1>4, <3>1, <3>2
    <2>3. new.count \in Nat /\ new.count >= 1
      BY <1>4 DEF Row
    <2>4. letIn'[u] <= new.count /\ letIn'[u] = letIn[u] + n /\ \A v \in Uses \ {u} : letIn'[v] = letIn[v]
      BY <1>1, <1>2, <2>1, <2>2, <2>3
    <2>5. InTheRow'
      <3>1. ASSUME NEW v \in Uses, letIn'[v] # 0
            PROVE  row'[v] # None /\ row'[v].start = settled' /\ letIn'[v] <= row'[v].count
        <4>1. CASE v = u
          <5>1. new # None
            BY <1>4 DEF RateLimitsAssumption
          <5> QED  BY <1>4, <1>5, <1>12, <2>1, <2>4, <4>1, <5>1
        <4>2. CASE v # u
          <5>1. row[v] # None /\ row[v].start = w /\ letIn[v] <= row[v].count
            BY <2>1, <2>4, <3>1, <4>2 DEF RateInv, InTheRow
          <5> QED  BY <1>4, <1>5, <1>12, <2>1, <2>4, <4>2, <5>1
        <4> QED  BY <4>1, <4>2
      <3> QED  BY <3>1 DEF InTheRow
    <2>6. letIn'["requests"] <= Limit
      <3>1. "requests" \in Uses /\ letIn["requests"] <= Limit /\ letIn["requests"] \in Nat
        BY <1>1 DEF RateInv, Uses
      <3>2. CASE u = "requests" /\ n = 1
        BY <1>1, <1>6, <2>3, <2>4, <3>2
      <3>3. CASE ~(u = "requests" /\ n = 1)
        BY <1>2, <2>4, <3>1, <3>3
      <3> QED  BY <3>2, <3>3
    <2>7. RoomForTheLate'
      <3>1. letIn["failures"] \in Nat /\ "failures" \in Uses
        BY <1>1 DEF Uses
      <3>2. CASE u = "failures" /\ n = 1
        <4>1. t \in Late
          BY <1>1, <1>6, <3>2 DEF Late, u
        <4>2. Late' \subseteq Late \ {t}
          BY <1>7, <1>12
        <4>3. Cardinality(Late') <= Cardinality(Late) - 1
          <5>1. IsFiniteSet(Late \ {t}) /\ Cardinality(Late \ {t}) = Cardinality(Late) - 1
            BY <4>1, LateAreFew, FS_RemoveElement
          <5> QED  BY <4>2, <5>1, FS_Subset
        <4>4. letIn'["failures"] = letIn["failures"] + 1
          BY <2>4, <3>2
        <4> QED
          BY <1>1, <3>1, <4>3, <4>4, LateAreFew, LateAreFewThen DEF RateInv, RoomForTheLate
      <3>3. CASE ~(u = "failures" /\ n = 1)
        <4>1. letIn'["failures"] = letIn["failures"]
          BY <1>2, <2>4, <3>1, <3>3
        <4> QED  BY <1>7, <1>12, <4>1, NobodyLateAnew
      <3> QED  BY <3>2, <3>3
    <2> QED
      BY <1>3, <1>9, <1>10, <1>12, <2>5, <2>6, <2>7 DEF RateInv
  <1> QED  BY <1>11, <1>12

LEMMA RateStutters == ASSUME RateInv, UNCHANGED rateVars PROVE RateInv'
  BY DEF rateVars, RateInv, RateTypeOK, Settled, Current, InTheRow, GuessesAreFailures, RoomForTheLate, Late

LEMMA RateInvariance == ASSUME RateLimitsAssumption PROVE RateSpec => []RateInv
  <1>1. RateInit => RateInv
    BY InitRate
  <1>2. RateInv /\ [RateNext]_rateVars => RateInv'
    BY AskKeeps, GuessKeeps, CheckKeeps, CompareKeeps, CountKeeps, StoreFailsKeeps, TickKeeps, RateStutters DEF RateNext
  <1> QED  BY <1>1, <1>2, PTL DEF RateSpec

-----------------------------------------------------------------------------
(* Theorems.                                                                *)

\* The rows, the requests and what they let through are what rate_limit.py keeps.
THEOREM RateTypeCorrect ==
    ASSUME RateLimitsAssumption
    PROVE  RateSpec => []RateTypeOK
  <1>1. RateInv => RateTypeOK
    BY DEF RateInv
  <1> QED  BY <1>1, RateInvariance, PTL

\* Failed passwords checked before and counted after the comparison (auth.py) overshoot the limit by
\* fewer than there are threads.
THEOREM GuessesOvershootByAFew ==
    ASSUME RateLimitsAssumption
    PROVE  RateSpec => []FailuresOvershootByAFew
  <1>1. RateInv => FailuresOvershootByAFew
    <2> SUFFICES ASSUME RateInv PROVE FailuresOvershootByAFew
      OBVIOUS
    <2>1. letIn["failures"] \in Nat /\ Limit \in Nat
      BY DEF RateInv, RateTypeOK, Uses, RateLimitsAssumption
    <2> QED
      BY <2>1, LateAreFew DEF RateInv, RoomForTheLate, FailuresOvershootByAFew
  <1> QED  BY <1>1, RateInvariance, PTL

\* Every step tells of one more or none, of some use.
LEMMA EveryStepTells ==
    ASSUME RateLimitsAssumption, RateInv, RateNext
    PROVE  \E n \in {0, 1}, u \in Uses : Tells(n, u)
  <1>1. \A t \in Threads : asking[t].use \in Uses
    BY DEF RateInv, RateTypeOK, Asking
  <1>2. "requests" \in Uses /\ "failures" \in Uses
    BY DEF Uses
  <1>3. CASE Tick
    BY <1>2, <1>3 DEF Tick
  <1>4. ASSUME NEW t \in Threads, Ask(t) PROVE \E n \in {0, 1}, u \in Uses : Tells(n, u)
    BY <1>2, <1>4 DEF Ask
  <1>5. ASSUME NEW t \in Threads, Guess(t) \/ Check(t) \/ Compare(t) PROVE \E n \in {0, 1}, u \in Uses : Tells(n, u)
    BY <1>2, <1>5 DEF Guess, Check, Compare
  <1>6. ASSUME NEW t \in Threads, Count(t) \/ StoreFails(t) PROVE \E n \in {0, 1}, u \in Uses : Tells(n, u)
    BY <1>1, <1>6 DEF Count, StoreFails
  <1> QED  BY <1>3, <1>4, <1>5, <1>6 DEF RateNext

\* The limits counted before are fixed windows: every step of them is one of FixedWindow, or none.
THEOREM LimitsAreFixedWindows ==
    ASSUME RateLimitsAssumption
    PROVE  RateSpec => FixedWindows
  <1>1. RateInit => Windowed!Init
    BY DEF RateInit, Windowed!Init, Uses
  <1>2. ASSUME RateInv, RateInv', [RateNext]_rateVars
        PROVE  [Windowed!Next]_<<settled, letIn["requests"]>>
    <2>1. CASE RateNext
      <3>1. PICK n \in {0, 1}, u \in Uses : Tells(n, u)
        BY <1>2, <2>1, EveryStepTells
      <3>2. /\ letIn \in [Uses -> Nat] /\ settled' \in Times \cup {None} /\ "requests" \in Uses
            /\ letIn' \in [Uses -> Nat] /\ letIn'["requests"] <= Limit /\ Limit \in Nat
            /\ settled = None => letIn["requests"] = 0
        BY <1>2 DEF RateInv, RateTypeOK, Uses, RateLimitsAssumption
      <3>3. CASE settled' = settled /\ settled # None
        <4>1. letIn' = [letIn EXCEPT ![u] = @ + n]
          BY <3>1, <3>3 DEF Tells
        <4>2. letIn'["requests"] \in {letIn["requests"], letIn["requests"] + 1}
          BY <3>2, <4>1
        <4> QED  BY <3>2, <3>3, <4>2 DEF Windowed!Next, Windowed!LetOne
      <3>4. CASE ~(settled' = settled /\ settled # None)
        <4>1. letIn'["requests"] = 0
          BY <3>1, <3>2, <3>4 DEF Tells
        <4> QED
          BY <3>2, <3>4, <4>1 DEF Windowed!Next, Windowed!Open, Windowed!Close, Windowed!Turn
      <3> QED  BY <3>3, <3>4
    <2>2. CASE UNCHANGED rateVars
      BY <2>2 DEF rateVars
    <2> QED  BY <1>2, <2>1, <2>2
  <1> QED
    BY <1>1, <1>2, RateInvariance, PTL DEF RateSpec, FixedWindows, Windowed!Spec

-----------------------------------------------------------------------------
(* What is tried, and the links there are.                                  *)

LEMMA OrphansStart ==
    ASSUME OrphansAssumption, OrphansInit
    PROVE  OrphansTypeOK
  <1>1. Len(<<>>) = 0 /\ MaxRows \in Nat  BY DEF OrphansAssumption
  <1> QED  BY <1>1 DEF OrphansInit, OrphansTypeOK

LEMMA HitStep ==
    ASSUME OrphansAssumption, OrphansTypeOK, Hit
    PROVE  OrphansTypeOK'
  <1> DEFINE HitRows == [path : Seq(CodeCharacters \cup {Other}), bot : BOOLEAN, type : Kinds]
             Known == [code : Codes \cap Seq(Alphabet), seen : BOOLEAN]
  <1>1. PICK path \in Paths, bot \in BOOLEAN :
           hits' = Append(hits, [path |-> path, bot |-> bot,
                                 type |-> IF path = <<>> THEN "base_url" ELSE "invalid_short_url"])
    BY DEF Hit
  <1> DEFINE hit == [path |-> path, bot |-> bot,
                     type |-> IF path = <<>> THEN "base_url" ELSE "invalid_short_url"]
  <1>2. hits \in Seq(HitRows) /\ links \in Seq(Known) /\ Len(hits) + Len(links) < MaxRows /\ MaxRows \in Nat
    BY DEF OrphansTypeOK, Hit, OrphansAssumption
  <1>3. hit \in HitRows
    <2>1. path \in Seq(CodeCharacters \cup {Other})  BY DEF OrphansAssumption, CodeCharacters
    <2> QED  BY <2>1 DEF Kinds
  <1> HIDE DEF HitRows, hit
  <1>4. /\ hits' \in Seq(HitRows) /\ Len(hits') = Len(hits) + 1
        /\ \A i \in DOMAIN hits' : (i \in DOMAIN hits /\ hits'[i] = hits[i]) \/ hits'[i] = hit
    BY <1>1, <1>2, <1>3 DEF hit
  <1>5. \A i \in DOMAIN hits' : hits'[i].type = "base_url" <=> hits'[i].path = <<>>
    BY <1>4 DEF hit, OrphansTypeOK
  <1>6. Len(hits') + Len(links) <= MaxRows
    <2> HIDE DEF Known
    <2>1. Len(hits) \in Nat /\ Len(links) \in Nat  BY <1>2
    <2> QED  BY <1>2, <1>4, <2>1
  <1>7. links' = links /\ loose' = loose /\ Alphabet' = Alphabet  BY DEF Hit, Alphabet
  <1> QED  BY <1>4, <1>5, <1>6, <1>7 DEF HitRows, OrphansTypeOK

LEMMA MakeLinkStep ==
    ASSUME OrphansAssumption, OrphansTypeOK, MakeLink
    PROVE  OrphansTypeOK'
  <1> DEFINE Known == [code : Codes \cap Seq(Alphabet), seen : BOOLEAN]
  <1>1. PICK link \in Known : links' = Append(links, link)
    BY DEF MakeLink
  <1>2. links \in Seq(Known) /\ hits \in Seq([path : Seq(CodeCharacters \cup {Other}), bot : BOOLEAN, type : Kinds])
    BY DEF OrphansTypeOK
  <1>3. Len(hits) + Len(links) < MaxRows /\ MaxRows \in Nat
    BY DEF MakeLink, OrphansAssumption
  <1> HIDE DEF Known
  <1>4. links' \in Seq(Known) /\ Len(links') = Len(links) + 1
    BY <1>1, <1>2
  <1>5. Len(hits) + Len(links') <= MaxRows
    <2>1. Len(hits) \in Nat /\ Len(links) \in Nat  BY <1>2
    <2> QED  BY <1>3, <1>4, <2>1
  <1>6. hits' = hits /\ loose' = loose /\ Alphabet' = Alphabet  BY DEF MakeLink, Alphabet
  <1> QED  BY <1>4, <1>5, <1>6 DEF Known, OrphansTypeOK

LEMMA OrphansStep ==
    ASSUME OrphansAssumption, OrphansTypeOK, [OrphansNext]_orphanVars
    PROVE  OrphansTypeOK'
  <1>1. CASE UNCHANGED orphanVars
    BY <1>1 DEF orphanVars, OrphansTypeOK, Alphabet
  <1> QED  BY <1>1, HitStep, MakeLinkStep DEF OrphansNext

-----------------------------------------------------------------------------
(* One edit is one slip.                                                    *)

LEMMA RemovedIs ==
    ASSUME NEW C, NEW s \in Seq(C), NEW i \in DOMAIN s
    PROVE  /\ Without(s, i) \in Seq(C) /\ Len(Without(s, i)) = Len(s) - 1
           /\ \A j \in 1 .. Len(s) - 1 : Without(s, i)[j] = IF j < i THEN s[j] ELSE s[j + 1]
           /\ Without(s, i) = RemoveAt(s, i)
  <1>1. Len(s) \in Nat /\ i \in 1 .. Len(s)  OBVIOUS
  <1> DEFINE front == SubSeq(s, 1, i - 1)
             back  == SubSeq(s, i + 1, Len(s))
  <1>2. front \in Seq(C) /\ Len(front) = i - 1 /\ \A j \in 1 .. i - 1 : front[j] = s[j]
    BY <1>1
  <1>3. back \in Seq(C) /\ Len(back) = Len(s) - i /\ \A j \in 1 .. Len(s) - i : back[j] = s[j + i]
    BY <1>1
  <1>4. Without(s, i) = front \o back /\ RemoveAt(s, i) = front \o back  BY DEF Without, RemoveAt
  <1> HIDE DEF front, back
  <1>5. /\ front \o back \in Seq(C) /\ Len(front \o back) = Len(s) - 1
        /\ \A j \in 1 .. Len(s) - 1 : (front \o back)[j] = IF j < i THEN front[j] ELSE back[j - (i - 1)]
    BY <1>1, <1>2, <1>3
  <1>6. \A j \in 1 .. Len(s) - 1 : (front \o back)[j] = IF j < i THEN s[j] ELSE s[j + 1]
    <2> SUFFICES ASSUME NEW j \in 1 .. Len(s) - 1
                 PROVE  (front \o back)[j] = IF j < i THEN s[j] ELSE s[j + 1]
      OBVIOUS
    <2>1. CASE j < i  BY <1>1, <1>2, <1>5, <2>1
    <2>2. CASE ~(j < i)
      <3>1. j - (i - 1) \in 1 .. Len(s) - i /\ j - (i - 1) + i = j + 1  BY <1>1, <2>2
      <3> QED  BY <1>3, <1>5, <2>2, <3>1
    <2> QED  BY <2>1, <2>2
  <1> QED  BY <1>4, <1>5, <1>6

LEMMA InsertedIs ==
    ASSUME NEW C, NEW s \in Seq(C), NEW i \in 1 .. Len(s) + 1, NEW c \in C
    PROVE  /\ InsertAt(s, i, c) \in Seq(C) /\ Len(InsertAt(s, i, c)) = Len(s) + 1
           /\ \A j \in 1 .. Len(s) + 1 :
                 InsertAt(s, i, c)[j] = IF j < i THEN s[j] ELSE IF j = i THEN c ELSE s[j - 1]
  <1>1. Len(s) \in Nat  OBVIOUS
  <1> DEFINE front == SubSeq(s, 1, i - 1)
             one   == <<c>>
             back  == SubSeq(s, i, Len(s))
  <1>2. front \in Seq(C) /\ Len(front) = i - 1 /\ \A j \in 1 .. i - 1 : front[j] = s[j]
    BY <1>1
  <1>3. back \in Seq(C) /\ Len(back) = Len(s) - i + 1 /\ \A j \in 1 .. Len(s) - i + 1 : back[j] = s[j + i - 1]
    BY <1>1
  <1>4. one \in Seq(C) /\ Len(one) = 1 /\ one[1] = c  OBVIOUS
  <1>5. InsertAt(s, i, c) = (front \o one) \o back  BY DEF InsertAt
  <1> HIDE DEF front, back, one
  <1> DEFINE start == front \o one
  <1>6. /\ start \in Seq(C) /\ Len(start) = i
        /\ \A j \in 1 .. i : start[j] = IF j < i THEN s[j] ELSE c
    <2>1. /\ start \in Seq(C) /\ Len(start) = Len(front) + Len(one)
          /\ \A j \in 1 .. Len(front) + Len(one) :
                start[j] = IF j <= Len(front) THEN front[j] ELSE one[j - Len(front)]
      BY <1>2, <1>4, ConcatProperties
    <2> HIDE DEF start
    <2>2. Len(start) = i  BY <1>1, <1>2, <1>4, <2>1
    <2>3. ASSUME NEW j \in 1 .. i PROVE start[j] = IF j < i THEN s[j] ELSE c
      <3>1. CASE j < i  BY <1>1, <1>2, <1>4, <2>1, <3>1
      <3>2. CASE j = i
        <4>1. j - Len(front) = 1 /\ ~(j <= Len(front)) /\ j \in 1 .. Len(front) + Len(one)
          BY <1>1, <1>2, <1>4, <3>2
        <4> QED  BY <1>4, <2>1, <3>2, <4>1
      <3> QED  BY <1>1, <3>1, <3>2
    <2> QED  BY <2>1, <2>2, <2>3
  <1> HIDE DEF start
  <1>7. /\ start \o back \in Seq(C) /\ Len(start \o back) = Len(s) + 1
        /\ \A j \in 1 .. Len(s) + 1 : (start \o back)[j] = IF j <= i THEN start[j] ELSE back[j - i]
    <2>1. /\ start \o back \in Seq(C) /\ Len(start \o back) = Len(start) + Len(back)
          /\ \A j \in 1 .. Len(start) + Len(back) :
                (start \o back)[j] = IF j <= Len(start) THEN start[j] ELSE back[j - Len(start)]
      BY <1>3, <1>6, ConcatProperties
    <2>2. Len(start) + Len(back) = Len(s) + 1  BY <1>1, <1>3, <1>6
    <2> QED  BY <1>6, <2>1, <2>2
  <1>8. ASSUME NEW j \in 1 .. Len(s) + 1
        PROVE  (start \o back)[j] = IF j < i THEN s[j] ELSE IF j = i THEN c ELSE s[j - 1]
    <2>1. CASE j <= i  BY <1>1, <1>6, <1>7, <2>1
    <2>2. CASE ~(j <= i)
      <3>1. j - i \in 1 .. Len(s) - i + 1 /\ j - i + i - 1 = j - 1  BY <1>1, <2>2
      <3> QED  BY <1>3, <1>7, <2>2, <3>1
    <2> QED  BY <2>1, <2>2
  <1> QED  BY <1>5, <1>7, <1>8 DEF start

\* What was inserted is what would be removed.
LEMMA InsertedOrRemoved ==
    ASSUME NEW C, NEW a \in Seq(C), NEW b \in Seq(C)
    PROVE  b \in InsertedInto(a, C) <=> \E i \in DOMAIN b : Without(b, i) = a
  <1>1. /\ Len(a) \in Nat /\ DOMAIN a = 1 .. Len(a) /\ Len(b) \in Nat /\ DOMAIN b = 1 .. Len(b)
        /\ \A i \in DOMAIN b : b[i] \in C
    OBVIOUS
  <1>2. ASSUME NEW i \in 1 .. Len(a) + 1, NEW c \in C
        PROVE  LET v == InsertAt(a, i, c)
               IN  /\ v \in Seq(C) /\ Len(v) = Len(a) + 1
                   /\ \A j \in 1 .. Len(a) + 1 : v[j] = IF j < i THEN a[j] ELSE IF j = i THEN c ELSE a[j - 1]
    BY InsertedIs
  <1>3. ASSUME NEW i \in 1 .. Len(a) + 1, NEW c \in C, b = InsertAt(a, i, c)
        PROVE  i \in DOMAIN b /\ Without(b, i) = a
    <2>1. /\ Len(b) = Len(a) + 1
          /\ \A j \in 1 .. Len(a) + 1 : b[j] = IF j < i THEN a[j] ELSE IF j = i THEN c ELSE a[j - 1]
      <3>1. b = InsertAt(a, i, c)  BY <1>3
      <3>2. /\ Len(InsertAt(a, i, c)) = Len(a) + 1
            /\ \A j \in 1 .. Len(a) + 1 :
                  InsertAt(a, i, c)[j] = IF j < i THEN a[j] ELSE IF j = i THEN c ELSE a[j - 1]
        BY <1>2
      <3> QED  BY <3>1, <3>2
    <2>2. i \in DOMAIN b  BY <1>1, <2>1
    <2> DEFINE w == Without(b, i)
    <2>3. /\ w \in Seq(C) /\ Len(w) = Len(a)
          /\ \A j \in 1 .. Len(a) : w[j] = IF j < i THEN b[j] ELSE b[j + 1]
      <3>1. /\ Without(b, i) \in Seq(C) /\ Len(Without(b, i)) = Len(b) - 1
            /\ \A j \in 1 .. Len(b) - 1 : Without(b, i)[j] = IF j < i THEN b[j] ELSE b[j + 1]
        BY <2>2, RemovedIs
      <3> HIDE DEF w
      <3>2. Len(b) - 1 = Len(a)  BY <1>1, <2>1
      <3> QED  BY <3>1, <3>2 DEF w
    <2> HIDE DEF w
    <2>4. ASSUME NEW j \in 1 .. Len(a) PROVE w[j] = a[j]
      <3>1. j + 1 \in 1 .. Len(a) + 1 /\ j \in 1 .. Len(a) + 1 /\ j + 1 - 1 = j  BY <1>1
      <3>2. ~(j < i) => ~(j + 1 < i) /\ j + 1 # i  BY <1>1
      <3> QED  BY <2>1, <2>3, <3>1, <3>2
    <2>5. w = a  BY <2>3, <2>4, SeqEqual
    <2> QED  BY <2>2, <2>5 DEF w
  <1>4. ASSUME NEW i \in DOMAIN b, Without(b, i) = a
        PROVE  i \in 1 .. Len(a) + 1 /\ b = InsertAt(a, i, b[i])
    <2>1. /\ Len(a) = Len(b) - 1
          /\ \A j \in 1 .. Len(b) - 1 : a[j] = IF j < i THEN b[j] ELSE b[j + 1]
      BY <1>4, RemovedIs
    <2>2. i \in 1 .. Len(a) + 1 /\ b[i] \in C  BY <1>1, <2>1
    <2> DEFINE w == InsertAt(a, i, b[i])
    <2>3. /\ w \in Seq(C) /\ Len(w) = Len(b)
          /\ \A j \in 1 .. Len(b) : w[j] = IF j < i THEN a[j] ELSE IF j = i THEN b[i] ELSE a[j - 1]
      <3>1. PICK c \in C : c = b[i]  BY <2>2
      <3> DEFINE v == InsertAt(a, i, c)
      <3> HIDE DEF w
      <3>2. /\ v \in Seq(C) /\ Len(v) = Len(a) + 1
            /\ \A j \in 1 .. Len(a) + 1 : v[j] = IF j < i THEN a[j] ELSE IF j = i THEN c ELSE a[j - 1]
        BY <1>2, <2>2 DEF v
      <3>3. v = w  BY <3>1 DEF w
      <3> HIDE DEF v, w
      <3>4. Len(a) + 1 = Len(b)  BY <1>1, <2>1
      <3> QED  BY <3>1, <3>2, <3>3, <3>4
    <2> HIDE DEF w
    <2>4. ASSUME NEW j \in 1 .. Len(b) PROVE w[j] = b[j]
      <3>1. CASE j < i
        <4>1. j \in 1 .. Len(b) - 1  BY <1>1, <2>1, <2>2, <3>1
        <4> QED  BY <2>1, <2>3, <3>1, <4>1
      <3>2. CASE j = i  BY <2>3, <3>2
      <3>3. CASE j > i
        <4>1. j - 1 \in 1 .. Len(b) - 1 /\ ~(j - 1 < i) /\ j - 1 + 1 = j /\ ~(j < i) /\ j # i
          BY <1>1, <2>2, <3>3
        <4> QED  BY <2>1, <2>3, <4>1
      <3> QED  BY <1>1, <2>2, <3>1, <3>2, <3>3
    <2>5. w = b  BY <2>3, <2>4, SeqEqual
    <2> QED  BY <2>2, <2>5 DEF w
  <1> QED  BY <1>1, <1>3, <1>4 DEF InsertedInto

LEMMA SameLength ==
    ASSUME NEW m \in Nat, NEW n \in Nat, 1 .. m = 1 .. n
    PROVE  m = n
  <1>1. \A i \in Nat \ {0} : i <= m <=> i <= n
    <2>1. \A i : i \in 1 .. m <=> i \in 1 .. n  OBVIOUS
    <2>2. \A i \in Nat \ {0} : (i \in 1 .. m <=> i <= m) /\ (i \in 1 .. n <=> i <= n)  OBVIOUS
    <2> QED  BY <2>1, <2>2
  <1> QED  BY <1>1

LEMMA ReplacedIs ==
    ASSUME NEW C, NEW a \in Seq(C), NEW b \in Seq(C)
    PROVE  (\E i \in DOMAIN a, c \in C : b = [a EXCEPT ![i] = c]) <=>
              Len(a) = Len(b) /\ \E i \in DOMAIN a : \A j \in DOMAIN a \ {i} : a[j] = b[j]
  <1>1. /\ Len(a) \in Nat /\ DOMAIN a = 1 .. Len(a) /\ Len(b) \in Nat /\ DOMAIN b = 1 .. Len(b)
        /\ \A i \in DOMAIN b : b[i] \in C
        /\ a = [j \in 1 .. Len(a) |-> a[j]] /\ b = [j \in 1 .. Len(b) |-> b[j]]
    OBVIOUS
  <1>2. ASSUME NEW i \in DOMAIN a, NEW c \in C, b = [a EXCEPT ![i] = c]
        PROVE  Len(a) = Len(b) /\ \A j \in DOMAIN a \ {i} : a[j] = b[j]
    <2>1. DOMAIN b = DOMAIN a  BY <1>2
    <2>2. Len(a) = Len(b)  BY <1>1, <2>1, SameLength
    <2> QED  BY <1>2, <2>2
  <1>3. ASSUME NEW i \in DOMAIN a, Len(a) = Len(b), \A j \in DOMAIN a \ {i} : a[j] = b[j]
        PROVE  b[i] \in C /\ b = [a EXCEPT ![i] = b[i]]
    BY <1>1, <1>3
  <1> QED  BY <1>2, <1>3

\* The codes one edit from a code are those one slip makes of it, however long they are.
LEMMA OneEditIsOneSlip ==
    ASSUME NEW C, NEW a \in Seq(C), NEW b \in Seq(C), Len(b) \in 1 .. Longest
    PROVE  b \in OneEditAway(a, C) <=> OneSlip(a, b)
  <1>1. b \in {RemoveAt(a, i) : i \in DOMAIN a} <=> \E i \in DOMAIN a : Without(a, i) = b
    BY DEF Without, RemoveAt
  <1> DEFINE deleted  == {RemoveAt(a, i) : i \in DOMAIN a}
             swapped  == {Swapped(a, i) : i \in 1 .. Len(a) - 1}
             replaced == {[a EXCEPT ![i] = c] : i \in DOMAIN a, c \in C}
  <1>2. b \in OneEditAway(a, C) <=>
           b \in deleted \/ b \in swapped \/ b \in replaced \/ b \in InsertedInto(a, C) \/ a = b
    BY DEF OneEditAway
  <1>3. b \in InsertedInto(a, C) <=> \E i \in DOMAIN b : Without(b, i) = a
    BY InsertedOrRemoved
  <1>4. b \in replaced <=> \E i \in DOMAIN a, c \in C : b = [a EXCEPT ![i] = c]
    OBVIOUS
  <1>5. b \in swapped <=> \E i \in 1 .. Len(a) - 1 : b = Swapped(a, i)
    OBVIOUS
  <1> HIDE DEF deleted, swapped, replaced
  <1>6. b \in replaced <=> Len(a) = Len(b) /\ \E i \in DOMAIN a : \A j \in DOMAIN a \ {i} : a[j] = b[j]
    BY <1>4, ReplacedIs
  <1>7. b \in swapped <=> /\ Len(a) = Len(b)
                          /\ \E i \in DOMAIN a : /\ i < Len(a) /\ a[i] = b[i + 1] /\ a[i + 1] = b[i]
                                                 /\ \A j \in DOMAIN a \ {i, i + 1} : a[j] = b[j]
    <2>1. /\ Len(a) \in Nat /\ DOMAIN a = 1 .. Len(a) /\ Len(b) \in Nat /\ DOMAIN b = 1 .. Len(b)
          /\ \A i \in DOMAIN b : b[i] \in C
          /\ a = [j \in 1 .. Len(a) |-> a[j]] /\ b = [j \in 1 .. Len(b) |-> b[j]]
      OBVIOUS
    <2>2. ASSUME NEW i \in 1 .. Len(a) - 1, b = Swapped(a, i)
          PROVE  /\ Len(a) = Len(b) /\ i \in DOMAIN a /\ i < Len(a) /\ a[i] = b[i + 1] /\ a[i + 1] = b[i]
                 /\ \A j \in DOMAIN a \ {i, i + 1} : a[j] = b[j]
      <3>1. b = [a EXCEPT ![i] = a[i + 1], ![i + 1] = a[i]]  BY <2>2 DEF Swapped
      <3>2. DOMAIN b = DOMAIN a  BY <3>1
      <3>3. Len(a) = Len(b)  BY <2>1, <3>2, SameLength
      <3>4. i \in DOMAIN a /\ i + 1 \in DOMAIN a /\ i # i + 1 /\ i < Len(a)  BY <2>1
      <3> QED  BY <3>1, <3>3, <3>4
    <2>3. ASSUME NEW i \in DOMAIN a, Len(a) = Len(b), i < Len(a), a[i] = b[i + 1], a[i + 1] = b[i],
                 \A j \in DOMAIN a \ {i, i + 1} : a[j] = b[j]
          PROVE  i \in 1 .. Len(a) - 1 /\ b = Swapped(a, i)
      <3>1. i \in 1 .. Len(a) - 1 /\ i + 1 \in DOMAIN a /\ i # i + 1  BY <2>1, <2>3
      <3> DEFINE s == [a EXCEPT ![i] = a[i + 1], ![i + 1] = a[i]]
      <3>2. s = [j \in 1 .. Len(a) |-> IF j = i THEN a[i + 1] ELSE IF j = i + 1 THEN a[i] ELSE a[j]]
        BY <2>1, <3>1
      <3>3. \A j \in 1 .. Len(a) : s[j] = b[j]
        BY <2>1, <2>3, <3>2
      <3> HIDE DEF s
      <3>4. s = b  BY <2>1, <2>3, <3>2, <3>3
      <3> QED  BY <3>1, <3>4 DEF s, Swapped
    <2> QED  BY <1>5, <2>2, <2>3
  <1>8. b \in deleted <=> \E i \in DOMAIN a : Without(a, i) = b
    BY <1>1 DEF deleted
  <1> QED  BY <1>2, <1>3, <1>6, <1>7, <1>8 DEF OneSlip

-----------------------------------------------------------------------------
(* What is sorted.                                                          *)

\* A strict order of the members of S, as the pairs it holds of.
Orders(O, S) ==
    /\ \A x, y \in S : x # y => (<<x, y>> \in O \/ <<y, x>> \in O)
    /\ \A x, y \in S : <<x, y>> \in O => <<y, x>> \notin O
    /\ \A x, y, z \in S : <<x, y>> \in O /\ <<y, z>> \in O => <<x, z>> \in O

\* s is S in that order.
InOrder(s, S, O) == s \in [1 .. Cardinality(S) -> S] /\ \A i, j \in DOMAIN s : i < j => <<s[i], s[j]>> \in O

\* A finite set has an order of its members: each at the place that those before it leave it.
LEMMA CanBeSorted ==
    ASSUME NEW S, IsFiniteSet(S), NEW O, Orders(O, S)
    PROVE  \E s : InOrder(s, S, O)
  <1> DEFINE before(x) == {y \in S : <<y, x>> \in O}
             f == [x \in S |-> Cardinality(before(x)) + 1]
             n == Cardinality(S)
  <1>1. n \in Nat  BY FS_CardinalityType
  <1>2. ASSUME NEW x \in S
        PROVE  /\ IsFiniteSet(before(x)) /\ Cardinality(before(x)) \in Nat /\ Cardinality(before(x)) < n
    <2>1. before(x) \in SUBSET S /\ x \notin before(x)
      BY DEF Orders
    <2> HIDE DEF before
    <2>2. /\ IsFiniteSet(before(x)) /\ Cardinality(before(x)) \in Nat
          /\ Cardinality(before(x)) <= n /\ Cardinality(before(x)) # n
      BY <1>1, <2>1, FS_Subset, FS_CardinalityType
    <2> QED  BY <1>1, <2>2
  <1>3. ASSUME NEW x \in S, NEW y \in S, <<x, y>> \in O PROVE f[x] < f[y]
    <2>1. before(x) \in SUBSET before(y) /\ x \in before(y) /\ x \notin before(x)
      BY <1>3 DEF Orders
    <2>2. /\ IsFiniteSet(before(y)) /\ Cardinality(before(y)) \in Nat /\ Cardinality(before(x)) \in Nat
      BY <1>2
    <2> HIDE DEF before
    <2>3. Cardinality(before(x)) <= Cardinality(before(y)) /\ Cardinality(before(x)) # Cardinality(before(y))
      BY <2>1, <2>2, FS_Subset
    <2> QED  BY <2>2, <2>3
  <1>4. f \in [S -> 1 .. n]
    <2>1. \A x \in S : Cardinality(before(x)) \in Nat /\ Cardinality(before(x)) < n  BY <1>2
    <2> HIDE DEF before
    <2> QED  BY <1>1, <2>1
  <1> HIDE DEF f, before
  <1>5. f \in Injection(S, 1 .. n)
    <2> SUFFICES ASSUME NEW x \in S, NEW y \in S, f[x] = f[y] PROVE x = y
      BY <1>4 DEF Injection, IsInjective
    <2>1. f[x] \in Int /\ f[y] \in Int  BY <1>4
    <2>2. <<x, y>> \notin O /\ <<y, x>> \notin O  BY <1>3, <2>1
    <2> QED  BY <2>2 DEF Orders
  <1>6. \A i \in 1 .. n : \E x \in S : f[x] = i
    <2>1. IsFiniteSet(1 .. n) /\ Cardinality(1 .. n) = n  BY <1>1, FS_Interval
    <2>2. f \in Surjection(S, 1 .. n)  BY <1>5, <2>1, FS_Injection
    <2> QED  BY <2>2 DEF Surjection
  <1> DEFINE s == [i \in 1 .. n |-> CHOOSE x \in S : f[x] = i]
  <1>7. s \in [1 .. n -> S] /\ \A i \in 1 .. n : f[s[i]] = i
    BY <1>6
  <1>8. ASSUME NEW i \in 1 .. n, NEW j \in 1 .. n, i < j PROVE <<s[i], s[j]>> \in O
    <2>1. s[i] \in S /\ s[j] \in S /\ f[s[i]] = i /\ f[s[j]] = j  BY <1>7
    <2> HIDE DEF s
    <2>2. i \in Int /\ j \in Int  OBVIOUS
    <2>3. s[i] # s[j] /\ <<s[j], s[i]>> \notin O  BY <1>3, <1>8, <2>1, <2>2
    <2> QED  BY <2>1, <2>3 DEF Orders
  <1> HIDE DEF s
  <1>9. DOMAIN s = 1 .. n  BY <1>7
  <1> QED  BY <1>1, <1>7, <1>8, <1>9 DEF InOrder

\* All of S, each once.
Lists(s, S) ==
    /\ s \in Seq(S) /\ Len(s) = Cardinality(S) /\ Cardinality(S) \in Nat /\ DOMAIN s = 1 .. Len(s)
    /\ ToSet(s) = S
    /\ \A i, j \in DOMAIN s : s[i] = s[j] => i = j

LEMMA OrderedLists ==
    ASSUME NEW S, IsFiniteSet(S), NEW O, Orders(O, S), NEW s, InOrder(s, S, O)
    PROVE  Lists(s, S)
  <1> DEFINE n == Cardinality(S)
  <1>1. n \in Nat  BY FS_CardinalityType
  <1>2. s \in [1 .. n -> S]  BY DEF InOrder
  <1>3. \A i, j \in 1 .. n : i < j => s[i] # s[j]  BY <1>2 DEF InOrder, Orders
  <1>4. \A i, j \in 1 .. n : s[i] = s[j] => i = j  BY <1>1, <1>3
  <1>5. s \in Injection(1 .. n, S)  BY <1>2, <1>4 DEF Injection, IsInjective
  <1>6. \A x \in S : \E i \in 1 .. n : s[i] = x
    <2>1. Cardinality(1 .. n) = n  BY <1>1, FS_Interval
    <2>2. s \in Surjection(1 .. n, S)  BY <1>1, <1>5, <2>1, FS_Injection
    <2> QED  BY <2>2 DEF Surjection
  <1>7. s \in Seq(S) /\ Len(s) = n /\ DOMAIN s = 1 .. n  BY <1>1, <1>2
  <1>8. ToSet(s) = S
    <2>1. \A i \in 1 .. n : s[i] \in S  BY <1>2
    <2> HIDE DEF n
    <2> QED  BY <1>6, <1>7, <2>1 DEF ToSet
  <1>9. \A i, j \in DOMAIN s : s[i] = s[j] => i = j  BY <1>4, <1>7
  <1> QED  BY <1>1, <1>7, <1>8, <1>9 DEF Lists

\* The first so many of a list: each once, and as many.
LEMMA FirstOfList ==
    ASSUME NEW S, NEW s, Lists(s, S), NEW k \in 0 .. Len(s)
    PROVE  /\ SubSeq(s, 1, k) \in Seq(S) /\ Len(SubSeq(s, 1, k)) = k
           /\ \A i \in 1 .. k : i \in DOMAIN s /\ SubSeq(s, 1, k)[i] = s[i]
           /\ \A x : x \in ToSet(SubSeq(s, 1, k)) <=> \E i \in 1 .. k : x = s[i]
           /\ IsFiniteSet(ToSet(SubSeq(s, 1, k))) /\ Cardinality(ToSet(SubSeq(s, 1, k))) = k
  <1>1. /\ s \in Seq(S) /\ Len(s) \in Nat /\ DOMAIN s = 1 .. Len(s) /\ k \in Nat
        /\ \A i, j \in DOMAIN s : s[i] = s[j] => i = j
    BY DEF Lists
  <1> DEFINE t == SubSeq(s, 1, k)
             image == {s[i] : i \in 1 .. k}
             f == [i \in 1 .. k |-> s[i]]
  <1>2. t \in Seq(S) /\ Len(t) = k /\ \A i \in 1 .. k : i \in DOMAIN s /\ t[i] = s[i]
    BY <1>1
  <1>3. ToSet(t) = image
    <2>1. DOMAIN t = 1 .. k  BY <1>2
    <2> HIDE DEF t
    <2> QED  BY <1>2, <2>1 DEF ToSet
  <1>4. f \in Bijection(1 .. k, image)
    <2>1. f \in [1 .. k -> image]  OBVIOUS
    <2>2. \A i, j \in 1 .. k : f[i] = f[j] => i = j  BY <1>1, <1>2
    <2>3. \A x \in image : \E i \in 1 .. k : f[i] = x  OBVIOUS
    <2> HIDE DEF f, image
    <2> QED  BY <2>1, <2>2, <2>3 DEF Bijection, Injection, Surjection, IsInjective
  <1> HIDE DEF f, image
  <1>5. IsFiniteSet(1 .. k) /\ Cardinality(1 .. k) = k  BY <1>1, FS_Interval
  <1>6. IsFiniteSet(image) /\ Cardinality(image) = k
    <2> DEFINE R == 1 .. k
    <2>1. IsFiniteSet(R) /\ Cardinality(R) = k /\ f \in Bijection(R, image)  BY <1>4, <1>5
    <2> HIDE DEF R
    <2>2. IsFiniteSet(image) /\ Cardinality(image) = Cardinality(R)  BY <2>1, FS_Bijection DEF ExistsBijection
    <2> QED  BY <2>1, <2>2
  <1> QED  BY <1>2, <1>3, <1>6 DEF image

LEMMA MinOfTwo ==
    ASSUME NEW m \in Int, NEW n \in Int
    PROVE  /\ Min({m, n}) \in {m, n} /\ Min({m, n}) <= m /\ Min({m, n}) <= n
           /\ Min({m, n}) = IF m <= n THEN m ELSE n
  <1>1. \E x \in {m, n} : \A y \in {m, n} : x <= y  OBVIOUS
  <1>2. Min({m, n}) \in {m, n} /\ \A y \in {m, n} : Min({m, n}) <= y  BY <1>1 DEF Min
  <1> QED  BY <1>2

-----------------------------------------------------------------------------
(* The links a path was meant for.                                          *)

LEMMA TheRows ==
    ASSUME OrphansAssumption, OrphansTypeOK
    PROVE  /\ Len(links) \in Nat /\ DOMAIN links = 1 .. Len(links) /\ IsFiniteSet(DOMAIN links)
           /\ \A i \in DOMAIN links : links[i].code \in Seq(Alphabet) /\ Len(links[i].code) \in 1 .. Longest
           /\ Len(hits) \in Nat /\ DOMAIN hits = 1 .. Len(hits) /\ IsFiniteSet(DOMAIN hits)
           /\ Len(hits) <= MaxRows /\ MaxRows \in Nat
           /\ Longest \in Nat \ {0} /\ Suggestions \in Nat \ {0} /\ Samples \in Nat \ {0}
  <1> DEFINE Known == [code : Codes \cap Seq(Alphabet), seen : BOOLEAN]
             HitRows == [path : Seq(CodeCharacters \cup {Other}), bot : BOOLEAN, type : Kinds]
  <1>1. links \in Seq(Known) /\ hits \in Seq(HitRows) /\ Len(hits) + Len(links) <= MaxRows
    BY DEF OrphansTypeOK
  <1>2. \A link \in Known : link.code \in Codes /\ link.code \in Seq(Alphabet)  OBVIOUS
  <1> HIDE DEF Known, HitRows
  <1>3. /\ Len(links) \in Nat /\ DOMAIN links = 1 .. Len(links)
        /\ Len(hits) \in Nat /\ DOMAIN hits = 1 .. Len(hits)
        /\ \A i \in DOMAIN links : links[i] \in Known
    BY <1>1
  <1>4. IsFiniteSet(DOMAIN links) /\ IsFiniteSet(DOMAIN hits)  BY <1>3, FS_Interval
  <1>5. \A i \in DOMAIN links : links[i].code \in Seq(Alphabet) /\ Len(links[i].code) \in 1 .. Longest
    BY <1>2, <1>3 DEF OrphansAssumption
  <1> QED  BY <1>1, <1>3, <1>4, <1>5 DEF OrphansAssumption

LEMMA TypedIsCode ==
    ASSUME OrphansAssumption, OrphansTypeOK, NEW path, IsCode(path)
    PROVE  TypedCode(path) \in Seq(Alphabet)
  <1>1. path \in Seq(CodeCharacters)  BY DEF IsCode
  <1>2. CASE ~loose  BY <1>1, <1>2 DEF TypedCode, Alphabet
  <1>3. CASE loose
    <2>1. Len(path) \in Nat /\ DOMAIN path = 1 .. Len(path) /\ \A i \in 1 .. Len(path) : path[i] \in CodeCharacters
      BY <1>1
    <2>2. ASSUME NEW i \in 1 .. Len(path)
          PROVE  (IF \E c \in DOMAIN Upper : Upper[c] = path[i]
                  THEN CHOOSE c \in DOMAIN Upper : Upper[c] = path[i] ELSE path[i]) \in LowerCase
      <3>1. path[i] \in LowerCase \/ \E c \in DOMAIN Upper : Upper[c] = path[i]
        BY <2>1 DEF CodeCharacters
      <3> QED  BY <3>1 DEF OrphansAssumption
    <2>3. Lower(path) \in [1 .. Len(path) -> LowerCase]  BY <2>1, <2>2 DEF Lower
    <2>4. Lower(path) \in Seq(LowerCase)  BY <2>1, <2>3
    <2> QED  BY <1>3, <2>4 DEF TypedCode, Alphabet
  <1> QED  BY <1>2, <1>3 DEF OrphansTypeOK

LEMMA LikelierIsAnOrder ==
    ASSUME OrphansAssumption, OrphansTypeOK, NEW typed, NEW R \in SUBSET DOMAIN links
    PROVE  LET ranked == LikeliestFirst(typed, R)
           IN  Lists(ranked, R) /\ \A i, j \in DOMAIN ranked : i < j => Likelier(typed, ranked[i], ranked[j])
  <1> DEFINE O == {p \in R \X R : Likelier(typed, p[1], p[2])}
             ranked == LikeliestFirst(typed, R)
  <1>1. IsFiniteSet(R) /\ \A r \in R : r \in Nat
    BY TheRows, FS_Subset
  <1>2. Orders(O, R)
    <2>1. \A x, y \in R : <<x, y>> \in O <=> Likelier(typed, x, y)  OBVIOUS
    <2> HIDE DEF O
    <2>2. \A x, y \in R : x # y => Likelier(typed, x, y) \/ Likelier(typed, y, x)  BY <1>1 DEF Likelier
    <2>3. \A x, y \in R : Likelier(typed, x, y) => ~Likelier(typed, y, x)  BY <1>1 DEF Likelier
    <2>4. \A x, y, z \in R : Likelier(typed, x, y) /\ Likelier(typed, y, z) => Likelier(typed, x, z)
      BY <1>1 DEF Likelier
    <2> QED  BY <2>1, <2>2, <2>3, <2>4 DEF Orders
  <1>3. \E s \in [1 .. Cardinality(R) -> R] : \A i, j \in DOMAIN s : i < j => Likelier(typed, s[i], s[j])
    <2>1. PICK s : InOrder(s, R, O)  BY <1>1, <1>2, CanBeSorted
    <2> QED  BY <2>1 DEF InOrder
  <1>4. /\ ranked \in [1 .. Cardinality(R) -> R]
        /\ \A i, j \in DOMAIN ranked : i < j => Likelier(typed, ranked[i], ranked[j])
    BY <1>3 DEF LikeliestFirst, Sorted
  <1> HIDE DEF ranked
  <1>5. InOrder(ranked, R, O)  BY <1>4 DEF InOrder
  <1>6. Lists(ranked, R)  BY <1>1, <1>2, <1>5, OrderedLists
  <1> QED  BY <1>4, <1>6 DEF ranked

\* The links a path is answered with.
LEMMA SuggestedAre ==
    ASSUME OrphansAssumption, OrphansTypeOK, NEW path, IsCode(path)
    PROVE  LET meant == {i \in DOMAIN links : links[i].seen /\ OneSlip(TypedCode(path), links[i].code)}
               same  == {i \in meant : links[i].code = TypedCode(path)}
           IN  /\ Suggested(path) \subseteq meant
               /\ Cardinality(Suggested(path)) = Min({Suggestions, Cardinality(meant)})
               /\ \/ same \subseteq Suggested(path)
                  \/ Suggested(path) \subseteq same
  <1> DEFINE typed == TypedCode(path)
             meant == {i \in DOMAIN links : links[i].seen /\ OneSlip(typed, links[i].code)}
             same  == {i \in meant : links[i].code = typed}
             near  == {i \in DOMAIN links : links[i].seen /\ links[i].code \in OneEditAway(typed, Alphabet)}
             ranked == LikeliestFirst(typed, near)
             k     == Min({Suggestions, Len(ranked)})
  <1>1. near = meant
    <2>1. typed \in Seq(Alphabet)  BY TypedIsCode
    <2> HIDE DEF typed
    <2>2. \A i \in DOMAIN links : links[i].code \in OneEditAway(typed, Alphabet) <=> OneSlip(typed, links[i].code)
      BY <2>1, TheRows, OneEditIsOneSlip
    <2> QED  BY <2>2
  <1>2. Suggested(path) = ToSet(SubSeq(ranked, 1, k))
    BY DEF Suggested, DidYouMean
  <1>3. Lists(ranked, near) /\ \A i, j \in DOMAIN ranked : i < j => Likelier(typed, ranked[i], ranked[j])
    <2>1. near \in SUBSET DOMAIN links  OBVIOUS
    <2> HIDE DEF near, typed
    <2> QED  BY <2>1, LikelierIsAnOrder
  <1> HIDE DEF ranked, near, typed
  <1>4. /\ Len(ranked) \in Nat /\ Len(ranked) = Cardinality(near)
        /\ DOMAIN ranked = 1 .. Len(ranked) /\ ToSet(ranked) = near
    BY <1>3 DEF Lists
  <1>5. k \in 0 .. Len(ranked)
    <2>1. Suggestions \in Nat  BY TheRows
    <2> DEFINE n == Len(ranked)
    <2>2. n \in Nat  BY <1>4
    <2> HIDE DEF n
    <2>3. Min({Suggestions, n}) \in {Suggestions, n} /\ Min({Suggestions, n}) <= n  BY <2>1, <2>2, MinOfTwo
    <2>4. Min({Suggestions, n}) \in 0 .. n  BY <2>1, <2>2, <2>3
    <2> QED  BY <2>4 DEF n
  <1> HIDE DEF k
  <1>6. /\ \A x : x \in Suggested(path) <=> \E i \in 1 .. k : x = ranked[i]
        /\ Cardinality(Suggested(path)) = k
    <2>1. Lists(ranked, near)  BY <1>3
    <2>2. /\ \A x : x \in ToSet(SubSeq(ranked, 1, k)) <=> \E i \in 1 .. k : x = ranked[i]
          /\ Cardinality(ToSet(SubSeq(ranked, 1, k))) = k
      BY <1>5, <2>1, FirstOfList
    <2> QED  BY <1>2, <2>2
  <1>7. k = Min({Suggestions, Cardinality(meant)})  BY <1>1, <1>4 DEF k
  <1>8. \A i \in DOMAIN ranked : ranked[i] \in meant  BY <1>1, <1>4 DEF ToSet
  <1>9. \A i \in 1 .. k : i \in DOMAIN ranked  BY <1>4, <1>5
  <1>10. Suggested(path) \subseteq meant  BY <1>6, <1>8, <1>9
  <1>11. ASSUME NEW x \in same, x \notin Suggested(path) PROVE Suggested(path) \subseteq same
    <2>1. PICK n \in DOMAIN ranked : ranked[n] = x  BY <1>1, <1>4, <1>11 DEF ToSet
    <2>2. k < n  BY <1>4, <1>5, <1>6, <1>11, <2>1
    <2>3. ASSUME NEW i \in 1 .. k PROVE ranked[i] \in same
      <3>1. i < n /\ i \in DOMAIN ranked  BY <1>4, <1>5, <1>9, <2>2
      <3>2. Likelier(typed, ranked[i], x)  BY <1>3, <2>1, <3>1
      <3>3. links[ranked[i]].code = typed  BY <1>11, <3>2 DEF Likelier
      <3> QED  BY <1>8, <3>1, <3>3
    <2> QED  BY <1>6, <2>3
  <1> HIDE DEF meant
  <1>12. same \subseteq Suggested(path) \/ Suggested(path) \subseteq same  BY <1>11
  <1> QED  BY <1>6, <1>7, <1>10, <1>12 DEF meant, typed

LEMMA SlipsAreSuggested ==
    ASSUME OrphansAssumption, OrphansTypeOK
    PROVE  SuggestsWhatOneSlipMakes
  <1> SUFFICES ASSUME NEW path \in PathsOf(DOMAIN hits)
               PROVE  LET meant == {i \in DOMAIN links : links[i].seen /\ OneSlip(TypedCode(path), links[i].code)}
                          same  == {i \in meant : links[i].code = TypedCode(path)}
                      IN  IF IsCode(path)
                          THEN /\ Suggested(path) \subseteq meant
                               /\ Cardinality(Suggested(path)) = Min({Suggestions, Cardinality(meant)})
                               /\ \/ same \subseteq Suggested(path)
                                  \/ Suggested(path) \subseteq same
                          ELSE Suggested(path) = {}
    BY DEF SuggestsWhatOneSlipMakes
  <1>1. CASE IsCode(path)  BY <1>1, SuggestedAre
  <1>2. CASE ~IsCode(path)
    <2>1. Suggested(path) = ToSet(<<>>)  BY <1>2 DEF Suggested, DidYouMean
    <2> QED  BY <1>2, <2>1 DEF ToSet
  <1> QED  BY <1>1, <1>2

-----------------------------------------------------------------------------
(* The hits of a path, the newest first.                                    *)

\* As many on one side as on the other.
LEMMA OneToOne ==
    ASSUME NEW S, IsFiniteSet(S), NEW T, NEW f, \A x \in S : f[x] \in T,
           \A x, y \in S : f[x] = f[y] => x = y, \A t \in T : \E x \in S : f[x] = t
    PROVE  IsFiniteSet(T) /\ Cardinality(T) = Cardinality(S)
  <1> DEFINE g == [x \in S |-> f[x]]
  <1>1. g \in Bijection(S, T)
    <2>1. g \in [S -> T] /\ \A x \in S : g[x] = f[x]  OBVIOUS
    <2> HIDE DEF g
    <2> QED  BY <2>1 DEF Bijection, Injection, Surjection, IsInjective
  <1> HIDE DEF g
  <1> QED  BY <1>1, FS_Bijection DEF ExistsBijection

LEMMA NewestFirstIs ==
    ASSUME NEW R \in SUBSET Nat, IsFiniteSet(R)
    PROVE  /\ Lists(NewestFirst(R), R)
           /\ \A i, j \in DOMAIN NewestFirst(R) : i < j => NewestFirst(R)[i] > NewestFirst(R)[j]
  <1> DEFINE O == {p \in R \X R : p[1] > p[2]}
             ranked == NewestFirst(R)
  <1>1. \A r \in R : r \in Nat  OBVIOUS
  <1>2. Orders(O, R)
    <2>1. \A x, y \in R : <<x, y>> \in O <=> x > y  OBVIOUS
    <2> HIDE DEF O
    <2> QED  BY <1>1, <2>1 DEF Orders
  <1>3. \E s \in [1 .. Cardinality(R) -> R] : \A i, j \in DOMAIN s : i < j => s[i] > s[j]
    <2>1. PICK s : InOrder(s, R, O)  BY <1>2, CanBeSorted
    <2> QED  BY <2>1 DEF InOrder
  <1>4. /\ ranked \in [1 .. Cardinality(R) -> R]
        /\ \A i, j \in DOMAIN ranked : i < j => ranked[i] > ranked[j]
    BY <1>3 DEF NewestFirst, Sorted
  <1> HIDE DEF ranked
  <1>5. InOrder(ranked, R, O)  BY <1>4 DEF InOrder
  <1>6. Lists(ranked, R)  BY <1>2, <1>5, OrderedLists
  <1> QED  BY <1>4, <1>6 DEF ranked

LEMMA NewestAndOldest ==
    ASSUME NEW R \in SUBSET Nat, IsFiniteSet(R), R # {}
    PROVE  /\ Max(R) \in R /\ \A x \in R : x <= Max(R)
           /\ Min(R) \in R /\ \A x \in R : Min(R) <= x
           /\ Cardinality(R) \in Nat \ {0}
  <1> DEFINE s == NewestFirst(R)
             n == Len(s)
  <1>1. Lists(s, R) /\ \A i, j \in DOMAIN s : i < j => s[i] > s[j]  BY NewestFirstIs
  <1> HIDE DEF s
  <1>2. /\ n \in Nat /\ DOMAIN s = 1 .. n /\ n = Cardinality(R)
        /\ \A x : x \in R <=> \E i \in 1 .. n : x = s[i]
    BY <1>1 DEF Lists, ToSet
  <1> HIDE DEF n
  <1>3. n # 0  BY <1>2
  <1>4. 1 \in 1 .. n /\ n \in 1 .. n  BY <1>2, <1>3
  <1>5. \A i \in 1 .. n : s[i] \in Nat  BY <1>2
  <1>6. s[1] \in R /\ s[n] \in R  BY <1>2, <1>4
  <1>7. \A i \in 1 .. n : s[n] <= s[i] /\ s[i] <= s[1]
    <2> SUFFICES ASSUME NEW i \in 1 .. n PROVE s[n] <= s[i] /\ s[i] <= s[1]  OBVIOUS
    <2>1. i = 1 \/ 1 < i  OBVIOUS
    <2>2. i = n \/ i < n  BY <1>2
    <2>3. s[i] <= s[1]  BY <1>1, <1>2, <1>4, <1>5, <2>1
    <2>4. s[n] <= s[i]  BY <1>1, <1>2, <1>4, <1>5, <2>2
    <2> QED  BY <2>3, <2>4
  <1>8. \A x \in R : s[n] <= x /\ x <= s[1]  BY <1>2, <1>7
  <1>9. Max(R) \in R /\ \A x \in R : x <= Max(R)
    <2>1. \E x \in R : \A y \in R : x >= y  BY <1>6, <1>8
    <2>2. Max(R) \in R /\ \A y \in R : Max(R) >= y  BY <2>1 DEF Max
    <2> QED  BY <2>2
  <1>10. Min(R) \in R /\ \A x \in R : Min(R) <= x
    BY <1>6, <1>8 DEF Min
  <1> QED  BY <1>2, <1>3, <1>9, <1>10 DEF n

\* A hit has as many that are as new as its place says.
LEMMA PlaceOfHit ==
    ASSUME NEW R \in SUBSET Nat, IsFiniteSet(R), NEW k \in DOMAIN NewestFirst(R)
    PROVE  /\ NewestFirst(R)[k] \in R
           /\ IsFiniteSet({x \in R : x >= NewestFirst(R)[k]})
           /\ Cardinality({x \in R : x >= NewestFirst(R)[k]}) = k
  <1> DEFINE s == NewestFirst(R)
             first == ToSet(SubSeq(s, 1, k))
  <1>1. Lists(s, R) /\ \A i, j \in DOMAIN s : i < j => s[i] > s[j]  BY NewestFirstIs
  <1>2. k \in DOMAIN s  OBVIOUS
  <1> HIDE DEF s
  <1>3. /\ Len(s) \in Nat /\ DOMAIN s = 1 .. Len(s)
        /\ \A x : x \in R <=> \E i \in DOMAIN s : x = s[i]
    BY <1>1 DEF Lists, ToSet
  <1>4. k \in 0 .. Len(s) /\ k \in Nat  BY <1>2, <1>3
  <1>5. /\ \A x : x \in first <=> \E i \in 1 .. k : x = s[i]
        /\ IsFiniteSet(first) /\ Cardinality(first) = k
    BY <1>1, <1>4, FirstOfList
  <1> HIDE DEF first
  <1>6. \A i \in DOMAIN s : s[i] \in Nat /\ s[i] \in R  BY <1>3
  <1>7. \A x : x \in first <=> x \in R /\ x >= s[k]
    <2>1. ASSUME NEW x \in first PROVE x \in R /\ x >= s[k]
      <3>1. PICK i \in 1 .. k : x = s[i]  BY <1>5
      <3>2. i \in DOMAIN s /\ (i = k \/ i < k)  BY <1>2, <1>3, <1>4
      <3> QED  BY <1>1, <1>2, <1>6, <3>1, <3>2
    <2>2. ASSUME NEW x \in R, x >= s[k] PROVE x \in first
      <3>1. PICK i \in DOMAIN s : x = s[i]  BY <1>3
      <3>2. ~(k < i)  BY <1>1, <1>2, <1>6, <2>2, <3>1
      <3>3. i \in 1 .. k  BY <1>3, <1>4, <3>1, <3>2
      <3> QED  BY <1>5, <3>1, <3>3
    <2> QED  BY <2>1, <2>2
  <1>8. first = {x \in R : x >= s[k]}  BY <1>7
  <1>9. s[k] \in R  BY <1>2, <1>6
  <1> QED  BY <1>5, <1>8, <1>9 DEF s

-----------------------------------------------------------------------------
(* The paths tried.                                                         *)

LEMMA ShownAreHits ==
    ASSUME OrphansAssumption, OrphansTypeOK, NEW since, NEW until, NEW types, NEW typosOnly
    PROVE  /\ Tried(since, until, types) \in SUBSET DOMAIN hits
           /\ Shown(Tried(since, until, types), typosOnly) \in SUBSET Tried(since, until, types)
           /\ Shown(Tried(since, until, types), typosOnly) \in SUBSET DOMAIN hits
  BY DEF Tried, Shown, TypoHits

LEMMA HitsOnAre ==
    ASSUME OrphansAssumption, OrphansTypeOK, NEW shown \in SUBSET DOMAIN hits, NEW path \in PathsOf(shown)
    PROVE  /\ HitsOn(path, shown) \in SUBSET Nat /\ HitsOn(path, shown) \in SUBSET DOMAIN hits
           /\ IsFiniteSet(HitsOn(path, shown)) /\ HitsOn(path, shown) # {}
           /\ Cardinality(HitsOn(path, shown)) \in Nat \ {0} /\ Cardinality(HitsOn(path, shown)) <= Len(hits)
  <1> DEFINE of == HitsOn(path, shown)
             n  == Len(hits)
  <1>1. n \in Nat /\ DOMAIN hits = 1 .. n /\ IsFiniteSet(1 .. n) /\ Cardinality(1 .. n) = n
    <2>1. n \in Nat /\ DOMAIN hits = 1 .. n  BY TheRows
    <2> QED  BY <2>1, FS_Interval
  <1>2. of \in SUBSET 1 .. n /\ of # {}  BY <1>1 DEF HitsOn, PathsOf
  <1> HIDE DEF of, n
  <1>3. IsFiniteSet(of) /\ Cardinality(of) <= n
    <2> DEFINE all == DOMAIN hits
    <2>1. IsFiniteSet(all) /\ Cardinality(all) = n /\ of \in SUBSET all  BY <1>1, <1>2
    <2> HIDE DEF all
    <2> QED  BY <2>1, FS_Subset
  <1>4. of \in SUBSET Nat  BY <1>1, <1>2
  <1>5. Cardinality(of) \in Nat \ {0}  BY <1>2, <1>3, FS_CardinalityType, FS_EmptySet
  <1> QED  BY <1>1, <1>2, <1>3, <1>4, <1>5 DEF of, n

LEMMA GroupIs ==
    ASSUME OrphansAssumption, OrphansTypeOK, NEW shown \in SUBSET DOMAIN hits, NEW path \in PathsOf(shown)
    PROVE  LET g  == Group(path, shown)
               of == HitsOn(path, shown)
           IN  /\ g.path = path /\ g.visits = Cardinality(of) /\ g.first = Min(of) /\ g.last = Max(of)
               /\ g.visits \in Nat \ {0} /\ g.visits <= Len(hits)
               /\ g.last \in Nat /\ g.last \in of /\ hits[g.last].path = path
  <1>1. /\ Group(path, shown).path = path /\ Group(path, shown).visits = Cardinality(HitsOn(path, shown))
        /\ Group(path, shown).first = Min(HitsOn(path, shown))
        /\ Group(path, shown).last = Max(HitsOn(path, shown))
    BY DEF Group
  <1>2. Max(HitsOn(path, shown)) \in HitsOn(path, shown)
    <2> DEFINE of == HitsOn(path, shown)
    <2>1. of \in SUBSET Nat /\ IsFiniteSet(of) /\ of # {}  BY HitsOnAre
    <2> HIDE DEF of
    <2>2. Max(of) \in of  BY <2>1, NewestAndOldest
    <2> QED  BY <2>2 DEF of
  <1>3. hits[Max(HitsOn(path, shown))].path = path  BY <1>2 DEF HitsOn
  <1> QED  BY <1>1, <1>2, <1>3, HitsOnAre

LEMMA MoreTriedIsAnOrder ==
    ASSUME OrphansAssumption, OrphansTypeOK, NEW shown \in SUBSET DOMAIN hits, IsFiniteSet(GroupsOf(shown))
    PROVE  Lists(MostTriedFirst(GroupsOf(shown)), GroupsOf(shown))
  <1> DEFINE G == GroupsOf(shown)
             O == {p \in G \X G : MoreTried(p[1], p[2])}
             ranked == MostTriedFirst(G)
  <1>1. ASSUME NEW g \in G
        PROVE  /\ g.path \in PathsOf(shown) /\ g = Group(g.path, shown)
               /\ g.visits \in Nat /\ g.last \in Nat /\ hits[g.last].path = g.path
    <2>1. PICK path \in PathsOf(shown) : g = Group(path, shown)  BY DEF GroupsOf
    <2> QED  BY <2>1, GroupIs
  <1>2. Orders(O, G)
    <2>1. \A g, h \in G : <<g, h>> \in O <=> MoreTried(g, h)  OBVIOUS
    <2>2. ASSUME NEW g \in G, NEW h \in G, g # h PROVE MoreTried(g, h) \/ MoreTried(h, g)
      <3>1. g.last # h.last  BY <1>1, <2>2
      <3>2. /\ g.visits \in Nat /\ g.last \in Nat
            /\ h.visits \in Nat /\ h.last \in Nat
        BY <1>1
      <3> QED  BY <3>1, <3>2 DEF MoreTried
    <2> HIDE DEF O, G
    <2>3. \A g, h \in G : MoreTried(g, h) => ~MoreTried(h, g)  BY <1>1 DEF MoreTried
    <2>4. \A g, h, k \in G : MoreTried(g, h) /\ MoreTried(h, k) => MoreTried(g, k)  BY <1>1 DEF MoreTried
    <2> QED  BY <2>1, <2>2, <2>3, <2>4 DEF Orders
  <1>3. \E s \in [1 .. Cardinality(G) -> G] : \A i, j \in DOMAIN s : i < j => MoreTried(s[i], s[j])
    <2>1. PICK s : InOrder(s, G, O)  BY <1>2, CanBeSorted
    <2> QED  BY <2>1 DEF InOrder
  <1>4. /\ ranked \in [1 .. Cardinality(G) -> G]
        /\ \A i, j \in DOMAIN ranked : i < j => MoreTried(ranked[i], ranked[j])
    BY <1>3 DEF MostTriedFirst, Sorted
  <1> HIDE DEF ranked
  <1>5. InOrder(ranked, G, O)  BY <1>4 DEF InOrder
  <1>6. IsFiniteSet(G)  OBVIOUS
  <1>7. Lists(ranked, G)  BY <1>2, <1>5, <1>6, OrderedLists
  <1> QED  BY <1>7 DEF ranked

\* Of each path tried there is a group, and of no other.
LEMMA GroupsAre ==
    ASSUME OrphansAssumption, OrphansTypeOK, NEW shown \in SUBSET DOMAIN hits
    PROVE  LET ranked == MostTriedFirst(GroupsOf(shown))
           IN  /\ Len(ranked) \in Nat /\ DOMAIN ranked = 1 .. Len(ranked) /\ ranked \in Seq(GroupsOf(shown))
               /\ IsFiniteSet(PathsOf(shown)) /\ Len(ranked) = Cardinality(PathsOf(shown))
               /\ Len(ranked) <= Len(hits)
               /\ \A i \in DOMAIN ranked : /\ ranked[i].path \in PathsOf(shown)
                                           /\ ranked[i] = Group(ranked[i].path, shown)
               /\ \A i, j \in DOMAIN ranked : ranked[i].path = ranked[j].path => i = j
               /\ \A path \in PathsOf(shown) : \E i \in DOMAIN ranked : ranked[i].path = path
  <1> DEFINE ranked == MostTriedFirst(GroupsOf(shown))
             P == PathsOf(shown)
             G == GroupsOf(shown)
             n == Len(hits)
  <1>1. n \in Nat /\ DOMAIN hits = 1 .. n /\ IsFiniteSet(1 .. n) /\ Cardinality(1 .. n) = n
    <2>1. n \in Nat /\ DOMAIN hits = 1 .. n  BY TheRows
    <2> QED  BY <2>1, FS_Interval
  <1> HIDE DEF n
  <1>2. IsFiniteSet(shown) /\ Cardinality(shown) <= n /\ Cardinality(shown) \in Nat
    BY <1>1, FS_Subset, FS_CardinalityType
  <1>3. IsFiniteSet(P) /\ Cardinality(P) <= n /\ Cardinality(P) \in Nat
    <2> DEFINE f == [i \in shown |-> hits[i].path]
    <2>1. f \in Surjection(shown, P)  BY DEF PathsOf, Surjection
    <2> HIDE DEF f, P
    <2>2. IsFiniteSet(P) /\ Cardinality(P) <= Cardinality(shown)  BY <1>2, <2>1, FS_Surjection
    <2> QED  BY <1>1, <1>2, <2>2, FS_CardinalityType
  <1>4. IsFiniteSet(G) /\ Cardinality(G) = Cardinality(P)
    <2> DEFINE f == [path \in P |-> Group(path, shown)]
    <2>1. \A path \in P : f[path] \in G  BY DEF GroupsOf
    <2>2. \A path, other \in P : f[path] = f[other] => path = other
      <3>1. \A path \in P : f[path].path = path  BY GroupIs
      <3> QED  BY <3>1
    <2>3. \A g \in G : \E path \in P : f[path] = g  BY DEF GroupsOf
    <2> HIDE DEF f, P, G
    <2> QED  BY <1>3, <2>1, <2>2, <2>3, OneToOne
  <1>5. Lists(ranked, G)  BY <1>4, MoreTriedIsAnOrder
  <1> HIDE DEF ranked
  <1>6. /\ Len(ranked) \in Nat /\ DOMAIN ranked = 1 .. Len(ranked) /\ Len(ranked) = Cardinality(G)
        /\ ranked \in Seq(G)
        /\ \A i, j \in DOMAIN ranked : ranked[i] = ranked[j] => i = j
        /\ \A g : g \in G <=> \E i \in DOMAIN ranked : g = ranked[i]
    BY <1>5 DEF Lists, ToSet
  <1>7. \A i \in DOMAIN ranked : ranked[i].path \in P /\ ranked[i] = Group(ranked[i].path, shown)
    <2> SUFFICES ASSUME NEW i \in DOMAIN ranked PROVE ranked[i].path \in P /\ ranked[i] = Group(ranked[i].path, shown)
      OBVIOUS
    <2>1. ranked[i] \in G  BY <1>6
    <2>2. PICK path \in P : ranked[i] = Group(path, shown)  BY <2>1 DEF GroupsOf
    <2> QED  BY <2>2, GroupIs
  <1>8. \A i, j \in DOMAIN ranked : ranked[i].path = ranked[j].path => i = j  BY <1>6, <1>7
  <1>9. \A path \in P : \E i \in DOMAIN ranked : ranked[i].path = path
    <2> SUFFICES ASSUME NEW path \in P PROVE \E i \in DOMAIN ranked : ranked[i].path = path
      OBVIOUS
    <2>1. Group(path, shown) \in G /\ Group(path, shown).path = path  BY GroupIs DEF GroupsOf
    <2> QED  BY <1>6, <2>1
  <1> QED  BY <1>3, <1>4, <1>6, <1>7, <1>8, <1>9 DEF ranked, n

-----------------------------------------------------------------------------
(* The tool's samples.                                                      *)

LEMMA ListIs ==
    ASSUME OrphansAssumption, OrphansTypeOK
    PROVE  LET list == GetOrphanVisits(0, MaxRows).items
           IN  /\ DOMAIN list = 1 .. Len(hits)
               /\ \A n \in DOMAIN list : list[n] \in DOMAIN hits /\ list[n] \in Nat
               /\ \A m, n \in DOMAIN list : m < n => list[m] > list[n]
               /\ \A h \in DOMAIN hits : \E n \in DOMAIN list : list[n] = h
  <1> DEFINE all  == NewestFirst(DOMAIN hits)
             list == GetOrphanVisits(0, MaxRows).items
             len  == Len(hits)
  <1>1. /\ len \in Nat /\ DOMAIN hits = 1 .. len /\ IsFiniteSet(DOMAIN hits)
        /\ Cardinality(DOMAIN hits) = len /\ len <= MaxRows /\ MaxRows \in Nat
    <2>1. len \in Nat /\ DOMAIN hits = 1 .. len /\ len <= MaxRows /\ MaxRows \in Nat  BY TheRows
    <2> HIDE DEF len
    <2>2. IsFiniteSet(1 .. len) /\ Cardinality(1 .. len) = len  BY <2>1, FS_Interval
    <2> QED  BY <2>1, <2>2
  <1>2. list = SubSeq(all, 0 + 1, Min({0 + MaxRows, Len(all)}))  BY DEF GetOrphanVisits
  <1>3. Lists(all, DOMAIN hits) /\ \A i, j \in DOMAIN all : i < j => all[i] > all[j]
    <2>1. DOMAIN hits \in SUBSET Nat  BY <1>1
    <2> QED  BY <1>1, <2>1, NewestFirstIs
  <1> HIDE DEF all, list, len
  <1>4. /\ Len(all) = len /\ DOMAIN all = 1 .. len
        /\ \A h : h \in DOMAIN hits <=> \E n \in DOMAIN all : h = all[n]
    BY <1>1, <1>3 DEF Lists, ToSet
  <1>5. Min({0 + MaxRows, Len(all)}) = len
    <2>1. MaxRows \in Int /\ len \in Int /\ len <= MaxRows  BY <1>1
    <2>2. Min({MaxRows, len}) = len
      <3>1. Min({MaxRows, len}) \in {MaxRows, len} /\ Min({MaxRows, len}) <= len  BY <2>1, MinOfTwo
      <3> QED  BY <2>1, <3>1
    <2>3. 0 + MaxRows = MaxRows  BY <1>1
    <2> QED  BY <1>4, <2>2, <2>3
  <1>6. list = SubSeq(all, 1, len)
    <2>1. 0 + 1 = 1  OBVIOUS
    <2> QED  BY <1>2, <1>5, <2>1
  <1>7. Len(list) = len /\ list \in Seq(DOMAIN hits) /\ \A i \in 1 .. len : list[i] = all[i]
    <2>1. Lists(all, DOMAIN hits) /\ len \in 0 .. Len(all)  BY <1>1, <1>3, <1>4
    <2>2. /\ SubSeq(all, 1, len) \in Seq(DOMAIN hits) /\ Len(SubSeq(all, 1, len)) = len
          /\ \A i \in 1 .. len : SubSeq(all, 1, len)[i] = all[i]
      BY <2>1, FirstOfList
    <2> QED  BY <1>6, <2>2
  <1>8. DOMAIN list = 1 .. len  BY <1>1, <1>7
  <1>9. \A n \in 1 .. len : list[n] \in DOMAIN hits /\ list[n] \in Nat  BY <1>1, <1>4, <1>7
  <1>10. \A m, n \in 1 .. len : m < n => list[m] > list[n]  BY <1>3, <1>4, <1>7
  <1>11. \A h \in DOMAIN hits : \E n \in 1 .. len : list[n] = h  BY <1>4, <1>7
  <1> QED  BY <1>8, <1>9, <1>10, <1>11 DEF list, len

\* Some of the hits, where they are in the list of all.
LEMMA OfTheList ==
    ASSUME OrphansAssumption, OrphansTypeOK, NEW R \in SUBSET DOMAIN hits, R # {}
    PROVE  LET list == GetOrphanVisits(0, MaxRows).items
               of   == {n \in DOMAIN list : list[n] \in R}
           IN  /\ Cardinality(of) = Cardinality(R)
               /\ list[Min(of)] = Max(R) /\ list[Max(of)] = Min(R)
               /\ \A k \in DOMAIN NewestFirst(R) :
                     \E n \in of : NewestFirst(R)[k] = list[n] /\ Cardinality({m \in of : m <= n}) = k
  <1> DEFINE list == GetOrphanVisits(0, MaxRows).items
             of   == {n \in DOMAIN list : list[n] \in R}
             len  == Len(hits)
             s    == NewestFirst(R)
  <1>1. /\ len \in Nat /\ DOMAIN hits = 1 .. len /\ IsFiniteSet(DOMAIN hits)
    BY TheRows
  <1>2. /\ DOMAIN list = 1 .. len
        /\ \A n \in DOMAIN list : list[n] \in DOMAIN hits /\ list[n] \in Nat
        /\ \A m, n \in DOMAIN list : m < n => list[m] > list[n]
        /\ \A h \in DOMAIN hits : \E n \in DOMAIN list : list[n] = h
    BY ListIs
  <1>3. R \in SUBSET Nat /\ IsFiniteSet(R)
    <2>1. R \in SUBSET Nat  BY <1>1
    <2> QED  BY <1>1, <2>1, FS_Subset
  <1> HIDE DEF list, len
  <1>4. \A m, n \in DOMAIN list : /\ list[m] = list[n] => m = n
                                  /\ m <= n <=> list[m] >= list[n]
    <2> SUFFICES ASSUME NEW m \in DOMAIN list, NEW n \in DOMAIN list
                 PROVE  (list[m] = list[n] => m = n) /\ (m <= n <=> list[m] >= list[n])
      OBVIOUS
    <2>1. m \in Nat /\ n \in Nat /\ list[m] \in Nat /\ list[n] \in Nat  BY <1>1, <1>2
    <2>2. (m < n => list[m] > list[n]) /\ (n < m => list[n] > list[m])  BY <1>2
    <2> QED  BY <2>1, <2>2
  <1>5. of \in SUBSET DOMAIN list /\ of \in SUBSET Nat /\ IsFiniteSet(of) /\ of # {}
    <2>1. of \in SUBSET DOMAIN list  OBVIOUS
    <2>2. IsFiniteSet(DOMAIN list)
      <3>1. IsFiniteSet(1 .. len)  BY <1>1, FS_Interval
      <3> QED  BY <1>2, <3>1
    <2>3. IsFiniteSet(of)  BY <2>1, <2>2, FS_Subset
    <2>4. of \in SUBSET Nat  BY <1>1, <1>2
    <2>5. of # {}
      <3>1. PICK h : h \in R  OBVIOUS
      <3>2. PICK n \in DOMAIN list : list[n] = h  BY <1>2, <3>1
      <3> QED  BY <3>1, <3>2
    <2> QED  BY <2>1, <2>3, <2>4, <2>5
  <1>6. \A n \in of : list[n] \in R  OBVIOUS
  <1>7. \A h \in R : \E n \in of : list[n] = h  BY <1>2
  <1> HIDE DEF of
  <1>8. Cardinality(of) = Cardinality(R)  BY <1>4, <1>5, <1>6, <1>7, OneToOne
  <1>9. /\ Min(of) \in of /\ Max(of) \in of /\ \A n \in of : Min(of) <= n /\ n <= Max(of)
        /\ Min(R) \in R /\ Max(R) \in R /\ \A h \in R : Min(R) <= h /\ h <= Max(R)
    BY <1>3, <1>5, NewestAndOldest
  <1>10. list[Min(of)] = Max(R)
    <2>1. PICK n \in of : list[n] = Max(R)  BY <1>7, <1>9
    <2>2. Min(of) <= n /\ list[Min(of)] \in R /\ n \in DOMAIN list /\ Min(of) \in DOMAIN list  BY <1>5, <1>6, <1>9
    <2>3. list[Min(of)] >= list[n] /\ list[Min(of)] <= Max(R)  BY <1>4, <1>9, <2>2
    <2>4. list[Min(of)] \in Nat /\ Max(R) \in Nat  BY <1>3, <1>9, <2>2
    <2> QED  BY <2>1, <2>3, <2>4
  <1>11. list[Max(of)] = Min(R)
    <2>1. PICK n \in of : list[n] = Min(R)  BY <1>7, <1>9
    <2>2. n <= Max(of) /\ list[Max(of)] \in R /\ n \in DOMAIN list /\ Max(of) \in DOMAIN list  BY <1>5, <1>6, <1>9
    <2>3. list[n] >= list[Max(of)] /\ Min(R) <= list[Max(of)]  BY <1>4, <1>9, <2>2
    <2>4. list[Max(of)] \in Nat /\ Min(R) \in Nat  BY <1>3, <1>9, <2>2
    <2> QED  BY <2>1, <2>3, <2>4
  <1>12. ASSUME NEW k \in DOMAIN s
         PROVE  \E n \in of : s[k] = list[n] /\ Cardinality({m \in of : m <= n}) = k
    <2> DEFINE newer == {x \in R : x >= s[k]}
    <2>1. s[k] \in R /\ IsFiniteSet(newer) /\ Cardinality(newer) = k  BY <1>3, PlaceOfHit
    <2> HIDE DEF s
    <2>2. PICK n \in of : list[n] = s[k]  BY <1>7, <2>1
    <2> DEFINE upTo == {m \in of : m <= n}
    <2>3. IsFiniteSet(upTo)  BY <1>5, FS_Subset
    <2>4. \A m \in upTo : list[m] \in newer  BY <1>4, <1>5, <1>6, <2>2
    <2>5. \A x \in newer : \E m \in upTo : list[m] = x
      <3> SUFFICES ASSUME NEW x \in newer PROVE \E m \in upTo : list[m] = x  OBVIOUS
      <3>1. PICK m \in of : list[m] = x  BY <1>7
      <3>2. m <= n  BY <1>4, <1>5, <2>2, <3>1
      <3> QED  BY <3>1, <3>2
    <2>6. \A l, m \in upTo : list[l] = list[m] => l = m  BY <1>4, <1>5
    <2> HIDE DEF upTo, newer
    <2>7. Cardinality(newer) = Cardinality(upTo)  BY <2>3, <2>4, <2>5, <2>6, OneToOne
    <2>8. Cardinality(upTo) = k  BY <2>1, <2>7
    <2> QED  BY <2>2, <2>8 DEF upTo
  <1> QED  BY <1>8, <1>10, <1>11, <1>12 DEF of, list, s

\* A path's hits are filtered by the path, and by who made them.
LEMMA CountedThere ==
    ASSUME OrphansAssumption, OrphansTypeOK, NEW since \in Nat, NEW typosOnly \in BOOLEAN,
           NEW path \in PathsOf(Shown(Tried(since, Len(hits) + 1, Kinds), typosOnly)),
           NEW h \in DOMAIN hits
    PROVE  h \in HitsOn(path, Shown(Tried(since, Len(hits) + 1, Kinds), typosOnly)) <=>
              /\ h >= since /\ hits[h].path = path
              /\ typosOnly => ~hits[h].bot
  <1> DEFINE all == Tried(since, Len(hits) + 1, Kinds)
  <1>1. Len(hits) \in Nat /\ h \in 1 .. Len(hits) /\ DOMAIN hits = 1 .. Len(hits)  BY TheRows
  <1>2. \A i \in DOMAIN hits : /\ hits[i].type \in Kinds
                               /\ hits[i].type = "base_url" <=> hits[i].path = <<>>
    <2> DEFINE HitRows == [path : Seq(CodeCharacters \cup {Other}), bot : BOOLEAN, type : Kinds]
    <2>1. hits \in Seq(HitRows)  BY DEF OrphansTypeOK
    <2>2. \A hit \in HitRows : hit.type \in Kinds  OBVIOUS
    <2> HIDE DEF HitRows
    <2>3. \A i \in DOMAIN hits : hits[i] \in HitRows  BY <1>1, <2>1
    <2> QED  BY <2>2, <2>3 DEF OrphansTypeOK
  <1>3. \A i \in DOMAIN hits : i \in all <=> i >= since
    BY <1>1, <1>2 DEF Tried
  <1>4. PICK g \in Shown(all, typosOnly) : hits[g].path = path  BY DEF PathsOf
  <1>5. g \in all /\ g \in DOMAIN hits  BY <1>4, ShownAreHits
  <1> HIDE DEF all
  <1>6. CASE ~typosOnly
    BY <1>3, <1>6 DEF Shown, HitsOn, all
  <1>7. CASE typosOnly
    <2>1. /\ hits[g].type = "invalid_short_url" /\ IsCode(path) /\ Lower(path) \notin ScannerPaths
      BY <1>4, <1>7 DEF Shown, TypoHits
    <2>2. hits[h].path = path => hits[h].type = "invalid_short_url"
      BY <1>2, <1>4, <1>5, <2>1 DEF Kinds
    <2>3. h \in TypoHits(all) /\ hits[h].path = path <=> h \in all /\ hits[h].path = path /\ ~hits[h].bot
      BY <2>1, <2>2 DEF TypoHits
    <2> QED  BY <1>3, <1>7, <2>3 DEF Shown, HitsOn, all
  <1> QED  BY <1>6, <1>7 DEF all

LEMMA SamplesCount ==
    ASSUME OrphansAssumption, OrphansTypeOK
    PROVE  SamplesAreCounted
  <1> SUFFICES ASSUME NEW typosOnly \in BOOLEAN, NEW since \in DOMAIN hits,
                      NEW i \in DOMAIN ListOrphanVisitsGrouped(since, typosOnly, MaxRows).found.groups
               PROVE  LET tool    == ListOrphanVisitsGrouped(since, typosOnly, MaxRows)
                          list    == GetOrphanVisits(0, MaxRows).items
                          group   == tool.found.groups[i]
                          samples == tool.samples[i]
                          of      == {n \in DOMAIN list : /\ list[n] >= since /\ hits[list[n]].path = group.path
                                                          /\ typosOnly => ~hits[list[n]].bot}
                      IN  /\ Cardinality(of) = group.visits
                          /\ list[Min(of)] = group.last /\ list[Max(of)] = group.first
                          /\ Len(samples) = Min({Samples, group.visits})
                          /\ \A k \in DOMAIN samples :
                                  \E n \in of : samples[k] = list[n] /\ Cardinality({m \in of : m <= n}) = k
    BY DEF SamplesAreCounted
  <1> DEFINE tool    == ListOrphanVisitsGrouped(since, typosOnly, MaxRows)
             list    == GetOrphanVisits(0, MaxRows).items
             group   == tool.found.groups[i]
             samples == tool.samples[i]
             of      == {n \in DOMAIN list : /\ list[n] >= since /\ hits[list[n]].path = group.path
                                             /\ typosOnly => ~hits[list[n]].bot}
             shown   == Shown(Tried(since, Len(hits) + 1, Kinds), typosOnly)
             groups  == MostTriedFirst(GroupsOf(shown))
             R       == HitsOn(group.path, shown)
             newest  == NewestFirst(R)
             most    == Min({Samples, Len(newest)})
  <1>1. shown \in SUBSET DOMAIN hits  BY ShownAreHits
  <1>2. tool.found.groups = SubSeq(groups, 0 + 1, Min({0 + MaxRows, Len(groups)}))
    BY DEF ListOrphanVisitsGrouped, OrphanGroups
  <1>3. samples = SubSeq(newest, 1, most)
    BY DEF ListOrphanVisitsGrouped, NewestHits
  <1>4. group.path \in PathsOf(shown) /\ group = Group(group.path, shown)
    <2>1. /\ groups \in Seq(GroupsOf(shown)) /\ Len(groups) \in Nat /\ DOMAIN groups = 1 .. Len(groups)
          /\ \A j \in DOMAIN groups : groups[j].path \in PathsOf(shown) /\ groups[j] = Group(groups[j].path, shown)
      BY <1>1, GroupsAre
    <2> DEFINE k == Min({0 + MaxRows, Len(groups)})
    <2>2. k \in 0 .. Len(groups)
      <3> DEFINE len == Len(groups)
                 max == 0 + MaxRows
      <3>1. len \in Nat /\ max \in Nat  BY <2>1, TheRows
      <3> HIDE DEF len, max
      <3>2. Min({max, len}) \in {max, len} /\ Min({max, len}) <= len  BY <3>1, MinOfTwo
      <3>3. Min({max, len}) \in 0 .. len  BY <3>1, <3>2
      <3> QED  BY <3>3 DEF max, len
    <2> HIDE DEF k, groups
    <2>3. /\ DOMAIN SubSeq(groups, 1, k) = 1 .. k
          /\ \A j \in 1 .. k : SubSeq(groups, 1, k)[j] = groups[j] /\ j \in DOMAIN groups
      BY <2>1, <2>2
    <2>4. tool.found.groups = SubSeq(groups, 1, k)  BY <1>2 DEF k
    <2> HIDE DEF tool
    <2>5. i \in 1 .. k /\ group = groups[i]
      <3>1. i \in DOMAIN tool.found.groups  BY DEF tool
      <3> QED  BY <2>3, <2>4, <3>1
    <2> HIDE DEF group
    <2> QED  BY <2>1, <2>3, <2>5
  <1> HIDE DEF tool, samples
  <1>5. /\ group.visits = Cardinality(R) /\ group.first = Min(R) /\ group.last = Max(R)
        /\ R \in SUBSET DOMAIN hits /\ R \in SUBSET Nat /\ IsFiniteSet(R) /\ R # {} /\ Cardinality(R) \in Nat
    <2> DEFINE path == group.path
    <2>1. path \in PathsOf(shown)  BY <1>4
    <2> HIDE DEF path, shown
    <2>2. /\ Group(path, shown).visits = Cardinality(HitsOn(path, shown))
          /\ Group(path, shown).first = Min(HitsOn(path, shown))
          /\ Group(path, shown).last = Max(HitsOn(path, shown))
      BY <1>1, <2>1, GroupIs
    <2>3. /\ HitsOn(path, shown) \in SUBSET DOMAIN hits /\ HitsOn(path, shown) \in SUBSET Nat
          /\ IsFiniteSet(HitsOn(path, shown)) /\ HitsOn(path, shown) # {}
          /\ Cardinality(HitsOn(path, shown)) \in Nat
      BY <1>1, <2>1, HitsOnAre
    <2>4. group = Group(path, shown)  BY <1>4 DEF path
    <2> QED  BY <2>2, <2>3, <2>4 DEF path
  <1>6. of = {n \in DOMAIN list : list[n] \in R}
    <2>1. since \in Nat  BY TheRows
    <2>2. \A n \in DOMAIN list : list[n] \in DOMAIN hits  BY ListIs
    <2>3. \A h \in DOMAIN hits : h \in R <=> /\ h >= since /\ hits[h].path = group.path
                                             /\ typosOnly => ~hits[h].bot
      <3> DEFINE path == group.path
      <3>1. path \in PathsOf(Shown(Tried(since, Len(hits) + 1, Kinds), typosOnly))  BY <1>4
      <3> HIDE DEF path
      <3>2. \A h \in DOMAIN hits :
               h \in HitsOn(path, Shown(Tried(since, Len(hits) + 1, Kinds), typosOnly)) <=>
                  /\ h >= since /\ hits[h].path = path
                  /\ typosOnly => ~hits[h].bot
        BY <2>1, <3>1, CountedThere
      <3> QED  BY <3>2 DEF path
    <2> HIDE DEF R, list, group
    <2> QED  BY <2>2, <2>3
  <1> HIDE DEF R, group, of, list
  <1>7. LET in == {n \in DOMAIN list : list[n] \in R}
        IN  /\ Cardinality(in) = Cardinality(R)
            /\ list[Min(in)] = Max(R) /\ list[Max(in)] = Min(R)
            /\ \A k \in DOMAIN newest : \E n \in in : newest[k] = list[n] /\ Cardinality({m \in in : m <= n}) = k
    BY <1>5, OfTheList DEF list
  <1>8. /\ Cardinality(of) = Cardinality(R)
        /\ list[Min(of)] = Max(R) /\ list[Max(of)] = Min(R)
        /\ \A k \in DOMAIN newest : \E n \in of : newest[k] = list[n] /\ Cardinality({m \in of : m <= n}) = k
    BY <1>6, <1>7
  <1>9. Lists(newest, R)  BY <1>5, NewestFirstIs
  <1> HIDE DEF newest
  <1>10. Len(newest) = Cardinality(R) /\ DOMAIN newest = 1 .. Len(newest)  BY <1>9 DEF Lists
  <1>11. most = Min({Samples, group.visits}) /\ most \in 0 .. Len(newest)
    <2> DEFINE len == Len(newest)
    <2>1. len \in Nat /\ Samples \in Nat  BY <1>5, <1>10, TheRows
    <2>2. group.visits = len  BY <1>5, <1>10
    <2> HIDE DEF len
    <2>3. Min({Samples, len}) \in {Samples, len} /\ Min({Samples, len}) <= len  BY <2>1, MinOfTwo
    <2>4. Min({Samples, len}) \in 0 .. len  BY <2>1, <2>3
    <2> QED  BY <2>2, <2>4 DEF len
  <1> HIDE DEF most
  <1>12. /\ SubSeq(newest, 1, most) \in Seq(R) /\ Len(SubSeq(newest, 1, most)) = most
         /\ \A k \in 1 .. most : k \in DOMAIN newest /\ SubSeq(newest, 1, most)[k] = newest[k]
    BY <1>9, <1>11, FirstOfList
  <1>13. /\ DOMAIN samples = 1 .. most /\ Len(samples) = most
         /\ \A k \in 1 .. most : k \in DOMAIN newest /\ samples[k] = newest[k]
    BY <1>3, <1>12
  <1>14. \A k \in DOMAIN samples : \E n \in of : samples[k] = list[n] /\ Cardinality({m \in of : m <= n}) = k
    BY <1>8, <1>13
  <1> QED  BY <1>5, <1>8, <1>11, <1>13, <1>14 DEF of, list, group, samples, tool

-----------------------------------------------------------------------------
(* The pages of an answer.                                                  *)

LEMMA DividedIs ==
    ASSUME NEW a \in Nat, NEW b \in Nat \ {0}
    PROVE  /\ a \div b \in Nat /\ a % b \in 0 .. b - 1
           /\ a = (a \div b) * b + (a % b)
  <1>1. a \div b \in Nat  OBVIOUS
  <1>2. a % b \in 0 .. b - 1  OBVIOUS
  <1>3. a = (a \div b) * b + (a % b)  OBVIOUS
  <1> QED  BY <1>1, <1>2, <1>3

LEMMA Larger ==
    ASSUME NEW q \in Nat, NEW r \in Nat, NEW b \in Nat \ {0}, q < r
    PROVE  q * b + b <= r * b
  <1>1. r - q - 1 \in Nat  OBVIOUS
  <1>2. (r - q - 1) * b \in Nat  BY <1>1
  <1>3. r * b = q * b + b + (r - q - 1) * b  OBVIOUS
  <1>4. q * b \in Nat /\ r * b \in Nat  OBVIOUS
  <1> QED  BY <1>2, <1>3, <1>4

LEMMA SomePageHolds ==
    ASSUME NEW total \in Nat, NEW size \in Nat \ {0}
    PROVE  LET pages == (total + size - 1) \div size
           IN  /\ pages \in Nat
               /\ \A n \in 1 .. pages : (n - 1) * size \in Nat /\ (n - 1) * size < total
               /\ \A k \in 1 .. total : \E n \in 1 .. pages, i \in 1 .. size : (n - 1) * size + i = k
  <1> DEFINE pages == (total + size - 1) \div size
             a == total + size - 1
  <1>1. a \in Nat  OBVIOUS
  <1>2. PICK r \in 0 .. size - 1 : pages \in Nat /\ a = pages * size + r
    <2> HIDE DEF a
    <2>1. a \div size \in Nat /\ a % size \in 0 .. size - 1 /\ a = (a \div size) * size + (a % size)
      BY <1>1, DividedIs
    <2> QED  BY <2>1 DEF a
  <1> HIDE DEF pages
  <1>3. pages * size \in Nat /\ total + size - 1 = pages * size + r  BY <1>2
  <1>4. ASSUME NEW n \in 1 .. pages PROVE (n - 1) * size \in Nat /\ (n - 1) * size < total
    <2>1. n - 1 \in Nat /\ n - 1 < pages  BY <1>2
    <2>2. (n - 1) * size \in Nat  BY <2>1
    <2>3. (n - 1) * size + size <= pages * size  BY <1>2, <2>1, Larger
    <2> DEFINE p == (n - 1) * size
               q == pages * size
    <2> HIDE DEF p, q
    <2>4. p \in Nat /\ q \in Nat /\ p + size <= q /\ total + size - 1 = q + r  BY <1>3, <2>2, <2>3 DEF p, q
    <2>5. p < total  BY <2>4
    <2> QED  BY <2>2, <2>5 DEF p
  <1>5. ASSUME NEW k \in 1 .. total PROVE \E n \in 1 .. pages, i \in 1 .. size : (n - 1) * size + i = k
    <2> DEFINE q == (k - 1) \div size
               i == (k - 1) % size
    <2>1. k - 1 \in Nat  OBVIOUS
    <2>2. q \in Nat /\ i \in 0 .. size - 1 /\ k - 1 = q * size + i  BY <2>1, DividedIs
    <2> HIDE DEF q, i
    <2>3. q * size \in Nat  BY <2>2
    <2>4. q < pages
      <3> SUFFICES ASSUME pages <= q PROVE FALSE  BY <1>2, <2>2
      <3>1. pages * size <= q * size
        <4>1. pages < q => pages * size + size <= q * size  BY <1>2, <2>2, Larger
        <4>2. pages = q => pages * size = q * size  OBVIOUS
        <4> QED  BY <1>2, <1>3, <2>2, <2>3, <4>1, <4>2
      <3> DEFINE v == pages * size
                 w == q * size
      <3> HIDE DEF v, w
      <3>2. v \in Nat /\ w \in Nat /\ v <= w /\ total + size - 1 = v + r /\ k - 1 = w + i
        BY <1>3, <2>2, <2>3, <3>1 DEF v, w
      <3> QED  BY <2>2, <3>2
    <2> DEFINE n  == q + 1
               at == i + 1
    <2>5. n \in 1 .. pages /\ at \in 1 .. size /\ n - 1 = q  BY <1>2, <2>2, <2>4
    <2>6. at = i + 1 /\ k = q * size + i + 1  BY <2>2, <2>3
    <2> HIDE DEF n, at
    <2>7. (n - 1) * size + at = k
      <3> DEFINE w == q * size
      <3>1. (n - 1) * size = w  BY <2>5
      <3>2. w \in Nat /\ k = w + i + 1  BY <2>3, <2>6
      <3> HIDE DEF w
      <3> QED  BY <2>2, <2>6, <3>1, <3>2
    <2> QED  BY <2>5, <2>7
  <1>6. /\ pages \in Nat
        /\ \A n \in 1 .. pages : (n - 1) * size \in Nat /\ (n - 1) * size < total
        /\ \A k \in 1 .. total : \E n \in 1 .. pages, i \in 1 .. size : (n - 1) * size + i = k
    BY <1>2, <1>4, <1>5
  <1> QED  BY <1>6 DEF pages

PageCount(total, size) == (total + size - 1) \div size

Skips(total, size) == [n \in 1 .. PageCount(total, size) |-> (n - 1) * size]

LEMMA SkipsAre ==
    ASSUME NEW total \in Nat, NEW size \in Nat \ {0}
    PROVE  LET pages == PageCount(total, size)
               skip  == Skips(total, size)
           IN  /\ pages \in Nat
               /\ \A n \in 1 .. pages : skip[n] \in Nat /\ skip[n] < total
               /\ \A k \in 1 .. total : \E n \in 1 .. pages, i \in 1 .. size : skip[n] + i = k
               /\ \A n, m \in 1 .. pages : n < m => skip[n] + size <= skip[m]
  <1> DEFINE pages == PageCount(total, size)
             skip  == Skips(total, size)
  <1>1. /\ pages \in Nat
        /\ \A n \in 1 .. pages : (n - 1) * size \in Nat /\ (n - 1) * size < total
        /\ \A k \in 1 .. total : \E n \in 1 .. pages, i \in 1 .. size : (n - 1) * size + i = k
    BY SomePageHolds DEF PageCount
  <1>2. \A n \in 1 .. pages : skip[n] = (n - 1) * size  BY DEF Skips
  <1> HIDE DEF pages, skip
  <1>3. \A n \in 1 .. pages : skip[n] \in Nat /\ skip[n] < total  BY <1>1, <1>2
  <1>4. ASSUME NEW k \in 1 .. total PROVE \E n \in 1 .. pages, i \in 1 .. size : skip[n] + i = k
    <2>1. PICK n \in 1 .. pages, i \in 1 .. size : (n - 1) * size + i = k  BY <1>1
    <2>2. skip[n] + i = k  BY <1>2, <2>1
    <2> QED  BY <2>2
  <1>5. ASSUME NEW n \in 1 .. pages, NEW m \in 1 .. pages, n < m PROVE skip[n] + size <= skip[m]
    <2> DEFINE p == n - 1
               q == m - 1
    <2>1. p \in Nat /\ q \in Nat /\ p < q  BY <1>1, <1>5
    <2>2. skip[n] = p * size /\ skip[m] = q * size  BY <1>2
    <2> HIDE DEF p, q
    <2>3. p * size + size <= q * size  BY <2>1, Larger
    <2> QED  BY <2>2, <2>3
  <1> QED  BY <1>1, <1>3, <1>4, <1>5 DEF pages, skip

PageFrom(s, from, size) == SubSeq(s, from + 1, Min({from + size, Len(s)}))

\* A page of a list is the list's, from where it starts.
LEMMA PageIs ==
    ASSUME NEW G, NEW s \in Seq(G), NEW size \in Nat \ {0}, NEW from \in Nat, from < Len(s), NEW i \in 1 .. size
    PROVE  /\ i \in DOMAIN PageFrom(s, from, size) <=> from + i <= Len(s)
           /\ i \in DOMAIN PageFrom(s, from, size) => PageFrom(s, from, size)[i] = s[from + i]
  <1> DEFINE total == Len(s)
             end   == from + size
             to    == Min({end, total})
             start == from + 1
             page  == SubSeq(s, start, to)
  <1>1. total \in Nat /\ DOMAIN s = 1 .. total  OBVIOUS
  <1>2. end \in Nat  OBVIOUS
  <1>3. end = from + size  OBVIOUS
  <1>4. from < total  OBVIOUS
  <1>5. start = from + 1  OBVIOUS
  <1> HIDE DEF end, total
  <1>6. to \in {end, total} /\ to <= end /\ to <= total
    <2>1. end \in Int /\ total \in Int  BY <1>1, <1>2
    <2> QED  BY <2>1, MinOfTwo, Zenon
  <1> HIDE DEF to, start
  <1>7. to \in Nat /\ start <= to /\ to <= total /\ (to = from + size \/ to = total) /\ to <= from + size
    BY <1>1, <1>2, <1>3, <1>4, <1>5, <1>6
  <1>8. start \in Int /\ to \in Int /\ \A j \in start .. to : s[j] \in G
    BY <1>1, <1>5, <1>7
  <1>9. /\ page \in Seq(G)
        /\ Len(page) = IF start <= to THEN to - start + 1 ELSE 0
        /\ \A j \in 1 .. to - start + 1 : page[j] = s[start + j - 1]
    BY <1>8, SubSeqProperties
  <1>10. PageFrom(s, from, size) = page  BY DEF PageFrom, start, to, end, total
  <1> HIDE DEF page
  <1>11. Len(page) = to - from /\ DOMAIN page = 1 .. to - from
    <2>1. to - start + 1 = to - from  BY <1>5, <1>7
    <2> QED  BY <1>7, <1>9, <2>1
  <1>12. \A j \in 1 .. to - from : page[j] = s[from + j]
    <2> SUFFICES ASSUME NEW j \in 1 .. to - from PROVE page[j] = s[from + j]  OBVIOUS
    <2>1. start + j - 1 = from + j /\ j \in 1 .. to - start + 1  BY <1>5, <1>7
    <2> QED  BY <1>9, <2>1
  <1>13. i \in DOMAIN page <=> from + i <= total  BY <1>1, <1>4, <1>7, <1>11
  <1>14. i \in DOMAIN page => page[i] = s[from + i]  BY <1>11, <1>12
  <1> QED  BY <1>10, <1>13, <1>14 DEF total

PagesOf(s, size) == [n \in 1 .. PageCount(Len(s), size) |-> PageFrom(s, Skips(Len(s), size)[n], size)]

Places(s, size) == {at \in (1 .. PageCount(Len(s), size)) \X (1 .. size) : at[2] \in DOMAIN PagesOf(s, size)[at[1]]}

PlaceOf(s, size) == [at \in Places(s, size) |-> Skips(Len(s), size)[at[1]] + at[2]]

\* The places of a list's pages hold all of it, each of it once.
AreHeld(s, size) ==
    LET page   == PagesOf(s, size)
        places == Places(s, size)
        place  == PlaceOf(s, size)
    IN  /\ IsFiniteSet(places)
        /\ \A at \in places : place[at] \in DOMAIN s /\ page[at[1]][at[2]] = s[place[at]]
        /\ \A at, other \in places : place[at] = place[other] => at = other
        /\ \A k \in DOMAIN s : \E at \in places : place[at] = k

LEMMA PlacesHold ==
    ASSUME NEW G, NEW s \in Seq(G), NEW size \in Nat \ {0}
    PROVE  AreHeld(s, size)
  <1> DEFINE total  == Len(s)
             pages  == PageCount(total, size)
             skip   == Skips(total, size)
             page   == PagesOf(s, size)
             places == Places(s, size)
             place  == PlaceOf(s, size)
  <1>1. total \in Nat /\ DOMAIN s = 1 .. total  OBVIOUS
  <1>2. /\ pages \in Nat
        /\ \A n \in 1 .. pages : skip[n] \in Nat /\ skip[n] < total
        /\ \A k \in 1 .. total : \E n \in 1 .. pages, i \in 1 .. size : skip[n] + i = k
        /\ \A n, m \in 1 .. pages : n < m => skip[n] + size <= skip[m]
    <2> HIDE DEF total
    <2> QED  BY <1>1, SkipsAre
  <1>3. \A n \in 1 .. pages : page[n] = PageFrom(s, skip[n], size)  BY DEF PagesOf
  <1>4. ASSUME NEW at \in places
        PROVE  /\ at[1] \in 1 .. pages /\ at[2] \in 1 .. size /\ at[2] \in DOMAIN page[at[1]]
               /\ at = <<at[1], at[2]>> /\ place[at] = skip[at[1]] + at[2]
    <2>1. place[at] = skip[at[1]] + at[2]  BY DEF PlaceOf
    <2> HIDE DEF place
    <2>2. at \in (1 .. pages) \X (1 .. size) /\ at[2] \in DOMAIN page[at[1]]  BY DEF Places
    <2> HIDE DEF page, pages
    <2> QED  BY <2>1, <2>2
  <1>5. places \in SUBSET ((1 .. pages) \X (1 .. size))  BY DEF Places
  <1>6. \A n \in 1 .. pages, i \in 1 .. size : i \in DOMAIN page[n] => <<n, i>> \in places
    BY DEF Places
  <1> HIDE DEF pages, skip, page, places, place
  <1>7. ASSUME NEW n \in 1 .. pages, NEW i \in 1 .. size
        PROVE  /\ i \in DOMAIN page[n] <=> skip[n] + i <= total
               /\ i \in DOMAIN page[n] => page[n][i] = s[skip[n] + i]
    <2> DEFINE from == skip[n]
    <2>1. from \in Nat /\ from < Len(s)  BY <1>2
    <2>2. page[n] = PageFrom(s, from, size)  BY <1>3
    <2> HIDE DEF from
    <2>3. /\ i \in DOMAIN PageFrom(s, from, size) <=> from + i <= Len(s)
          /\ i \in DOMAIN PageFrom(s, from, size) => PageFrom(s, from, size)[i] = s[from + i]
      BY <2>1, PageIs
    <2> QED  BY <2>2, <2>3 DEF from
  <1> HIDE DEF total
  <1>8. IsFiniteSet(places)
    <2>1. 1 \in Int /\ pages \in Int /\ size \in Int  BY <1>2
    <2>2. IsFiniteSet(1 .. pages) /\ IsFiniteSet(1 .. size)  BY <2>1, FS_Interval, Zenon
    <2>3. IsFiniteSet((1 .. pages) \X (1 .. size))  BY <2>2, FS_Product, Zenon
    <2> QED  BY <1>5, <2>3, FS_Subset, Zenon
  <1>9. ASSUME NEW at \in places
        PROVE  place[at] \in DOMAIN s /\ page[at[1]][at[2]] = s[place[at]]
    <2> DEFINE n == at[1]
               i == at[2]
    <2>1. n \in 1 .. pages /\ i \in 1 .. size /\ i \in DOMAIN page[n] /\ place[at] = skip[n] + i  BY <1>4
    <2> HIDE DEF n, i
    <2>2. skip[n] \in Nat /\ skip[n] + i <= total /\ page[n][i] = s[skip[n] + i]
      BY <1>2, <1>7, <2>1
    <2>3. skip[n] + i \in 1 .. total  BY <1>1, <2>1, <2>2
    <2> QED  BY <1>1, <2>1, <2>2, <2>3 DEF n, i
  <1>10. ASSUME NEW at \in places, NEW other \in places, place[at] = place[other]
         PROVE  at = other
    <2> DEFINE n == at[1]
               i == at[2]
               m == other[1]
               j == other[2]
    <2>1. /\ n \in 1 .. pages /\ i \in 1 .. size /\ place[at] = skip[n] + i /\ at = <<n, i>>
          /\ m \in 1 .. pages /\ j \in 1 .. size /\ place[other] = skip[m] + j /\ other = <<m, j>>
      BY <1>4
    <2> HIDE DEF n, i, m, j
    <2>2. skip[n] \in Nat /\ skip[m] \in Nat /\ n \in Nat /\ m \in Nat  BY <1>2, <2>1
    <2>3. n < m => skip[n] + size <= skip[m]  BY <1>2, <2>1
    <2>4. m < n => skip[m] + size <= skip[n]  BY <1>2, <2>1
    <2>5. skip[n] + i = skip[m] + j  BY <1>10, <2>1
    <2>6. n = m  BY <2>1, <2>2, <2>3, <2>4, <2>5
    <2>7. i = j  BY <2>1, <2>2, <2>5, <2>6
    <2> QED  BY <2>1, <2>6, <2>7
  <1>11. ASSUME NEW k \in DOMAIN s PROVE \E at \in places : place[at] = k
    <2>1. k \in 1 .. total  BY <1>1
    <2>2. PICK n \in 1 .. pages, i \in 1 .. size : skip[n] + i = k  BY <1>2, <2>1
    <2>3. skip[n] + i <= total  BY <1>1, <2>1, <2>2
    <2>4. <<n, i>> \in places  BY <1>6, <1>7, <2>3
    <2> DEFINE at == <<n, i>>
    <2>5. at \in places /\ at[1] = n /\ at[2] = i  BY <2>4
    <2> HIDE DEF at
    <2>6. place[at] = k  BY <1>4, <2>2, <2>5
    <2> QED  BY <2>5, <2>6
  <1> QED  BY <1>8, <1>9, <1>10, <1>11 DEF AreHeld, page, places, place

LEMMA PagesHoldAll ==
    ASSUME OrphansAssumption, OrphansTypeOK
    PROVE  PagesAddUp
  <1> SUFFICES ASSUME NEW typosOnly \in BOOLEAN, NEW size \in DOMAIN hits, NEW until \in 1 .. Len(hits) + 1
               PROVE  LET first  == GetOrphanVisitGroups(1, until, typosOnly, 1, size)
                          page   == [n \in 1 .. first.pages |->
                                        GetOrphanVisitGroups(1, until, typosOnly, n, size).found.groups]
                          places == {at \in (1 .. first.pages) \X (1 .. size) : at[2] \in DOMAIN page[at[1]]}
                          group  == [at \in places |-> page[at[1]][at[2]]]
                          counts == {count \in places \X DOMAIN hits : count[2] <= group[count[1]].visits}
                          all    == Tried(1, until, {"invalid_short_url"})
                      IN  /\ \A at, other \in places : group[at].path = group[other].path => at = other
                          /\ Cardinality(places) = first.found.totalPaths
                          /\ Cardinality(counts) = first.found.totalVisits
                          /\ Cardinality(all) = first.found.totalVisits + first.found.hiddenVisits
                          /\ Cardinality(PathsOf(all) \ {group[at].path : at \in places}) = first.found.hiddenPaths
    BY DEF PagesAddUp
  <1> DEFINE first  == GetOrphanVisitGroups(1, until, typosOnly, 1, size)
             pages  == first.pages
             page   == [n \in 1 .. pages |-> GetOrphanVisitGroups(1, until, typosOnly, n, size).found.groups]
             places == {at \in (1 .. pages) \X (1 .. size) : at[2] \in DOMAIN page[at[1]]}
             group  == [at \in places |-> page[at[1]][at[2]]]
             counts == {count \in places \X DOMAIN hits : count[2] <= group[count[1]].visits}
             all    == Tried(1, until, {"invalid_short_url"})
             shown  == Shown(all, typosOnly)
             groups == MostTriedFirst(GroupsOf(shown))
             P      == PathsOf(shown)
             place  == PlaceOf(groups, size)
  <1>1. all \in SUBSET DOMAIN hits /\ shown \in SUBSET all /\ shown \in SUBSET DOMAIN hits
    BY ShownAreHits
  <1>2. /\ first.found.totalVisits = Cardinality(shown)
        /\ first.found.totalPaths = Cardinality(P)
        /\ first.found.hiddenVisits = Cardinality(all) - Cardinality(shown)
        /\ first.found.hiddenPaths = Cardinality(PathsOf(all)) - Cardinality(P)
        /\ pages = (Cardinality(P) + size - 1) \div size
        /\ \A n \in 1 .. pages :
              page[n] = SubSeq(groups, (n - 1) * size + 1, Min({(n - 1) * size + size, Len(groups)}))
    BY DEF GetOrphanVisitGroups, OrphanGroups, HiddenPaths
  <1>3. size \in Nat \ {0}  BY TheRows
  <1> HIDE DEF first, pages, page, all, shown
  <1>4. /\ Len(groups) \in Nat /\ DOMAIN groups = 1 .. Len(groups) /\ groups \in Seq(GroupsOf(shown))
        /\ IsFiniteSet(P) /\ Len(groups) = Cardinality(P)
        /\ \A k \in DOMAIN groups : groups[k].path \in P /\ groups[k] = Group(groups[k].path, shown)
        /\ \A k, l \in DOMAIN groups : groups[k].path = groups[l].path => k = l
        /\ \A path \in P : \E k \in DOMAIN groups : groups[k].path = path
    BY <1>1, GroupsAre
  <1> HIDE DEF groups
  <1>5. pages = PageCount(Len(groups), size) /\ page = PagesOf(groups, size)
    <2>1. pages = PageCount(Len(groups), size)  BY <1>2, <1>4 DEF PageCount
    <2>2. \A n \in 1 .. pages : Skips(Len(groups), size)[n] = (n - 1) * size  BY <2>1 DEF Skips
    <2>3. \A n \in 1 .. pages : page[n] = PageFrom(groups, Skips(Len(groups), size)[n], size)
      BY <1>2, <2>2 DEF PageFrom
    <2>4. page = [n \in 1 .. pages |-> page[n]]  BY DEF page
    <2>5. page = [n \in 1 .. pages |-> PageFrom(groups, Skips(Len(groups), size)[n], size)]  BY <2>3, <2>4
    <2> QED  BY <2>1, <2>5 DEF PagesOf
  <1>6. /\ IsFiniteSet(places)
        /\ \A at \in places : place[at] \in DOMAIN groups /\ page[at[1]][at[2]] = groups[place[at]]
        /\ \A at, other \in places : place[at] = place[other] => at = other
        /\ \A k \in DOMAIN groups : \E at \in places : place[at] = k
    <2>1. places = Places(groups, size)  BY <1>5 DEF Places
    <2> HIDE DEF P, places, place
    <2> DEFINE Some == GroupsOf(shown)
    <2>2. groups \in Seq(Some)  BY <1>4
    <2> HIDE DEF Some
    <2>3. AreHeld(groups, size)  BY <1>3, <2>2, PlacesHold
    <2> QED  BY <1>5, <2>1, <2>3 DEF AreHeld, place
  <1>7. \A at \in places : group[at] = groups[place[at]]
    <2>1. \A at \in places : group[at] = page[at[1]][at[2]]  OBVIOUS
    <2> HIDE DEF group, places, place
    <2> QED  BY <1>6, <2>1
  <1> HIDE DEF places, group, place, P
  <1>8. \A at \in places : group[at].path \in P /\ group[at] = Group(group[at].path, shown)
    BY <1>4, <1>6, <1>7
  <1>9. \A at, other \in places : group[at].path = group[other].path => at = other
    BY <1>4, <1>6, <1>7
  <1>10. \A path \in P : \E at \in places : group[at].path = path
    BY <1>4, <1>6, <1>7
  <1>11. Cardinality(places) = Cardinality(P)
    <2> DEFINE f == [at \in places |-> group[at].path]
    <2>1. \A at \in places : f[at] \in P  BY <1>8
    <2>2. \A at, other \in places : f[at] = f[other] => at = other  BY <1>9
    <2>3. \A path \in P : \E at \in places : f[at] = path  BY <1>10
    <2> HIDE DEF f
    <2> QED  BY <1>6, <2>1, <2>2, <2>3, OneToOne
  <1>12. {group[at].path : at \in places} = P  BY <1>8, <1>10
  <1>13. IsFiniteSet(all) /\ IsFiniteSet(shown) /\ Cardinality(all) \in Nat /\ Cardinality(shown) \in Nat
    <2>1. IsFiniteSet(DOMAIN hits)  BY TheRows
    <2>2. IsFiniteSet(all) /\ IsFiniteSet(shown)  BY <1>1, <2>1, FS_Subset
    <2> QED  BY <2>2, FS_CardinalityType
  <1>14. Cardinality(all) = Cardinality(shown) + (Cardinality(all) - Cardinality(shown))  BY <1>13
  <1>15. Cardinality(PathsOf(all) \ P) = Cardinality(PathsOf(all)) - Cardinality(P)
    <2>1. IsFiniteSet(PathsOf(all))  BY <1>1, GroupsAre
    <2>2. P \cap PathsOf(all) = P /\ PathsOf(all) \cap P = P  BY <1>1 DEF PathsOf, P
    <2> DEFINE Q == PathsOf(all)
    <2> HIDE DEF Q
    <2>3. Cardinality(Q \ P) = Cardinality(Q) - Cardinality(Q \cap P)  BY <2>1, FS_Difference DEF Q
    <2> QED  BY <2>2, <2>3 DEF Q
  <1>16. Cardinality(counts) = Cardinality(shown)
    <2> DEFINE of(at) == HitsOn(group[at].path, shown)
               f == [count \in counts |-> NewestFirst(of(count[1]))[count[2]]]
    <2>1. ASSUME NEW at \in places
          PROVE  LET s == NewestFirst(of(at))
                 IN  /\ of(at) \in SUBSET shown /\ group[at].visits = Cardinality(of(at))
                     /\ group[at].visits \in Nat /\ group[at].visits <= Len(hits)
                     /\ DOMAIN s = 1 .. group[at].visits
                     /\ \A x : x \in of(at) <=> \E i \in DOMAIN s : s[i] = x
                     /\ \A i, j \in DOMAIN s : s[i] = s[j] => i = j
      <3> DEFINE path == group[at].path
                 R == HitsOn(path, shown)
      <3>1. path \in P /\ group[at] = Group(path, shown)  BY <1>8
      <3> HIDE DEF path
      <3>2. /\ R \in SUBSET Nat /\ IsFiniteSet(R) /\ Cardinality(R) \in Nat /\ Cardinality(R) <= Len(hits)
        BY <1>1, <3>1, HitsOnAre DEF P
      <3>3. group[at].visits = Cardinality(R)  BY <1>1, <3>1, GroupIs DEF P
      <3>4. R \in SUBSET shown  BY DEF HitsOn
      <3> HIDE DEF R
      <3>5. Lists(NewestFirst(R), R)  BY <3>2, NewestFirstIs
      <3>6. /\ DOMAIN NewestFirst(R) = 1 .. Cardinality(R)
            /\ \A x : x \in R <=> \E i \in DOMAIN NewestFirst(R) : NewestFirst(R)[i] = x
            /\ \A i, j \in DOMAIN NewestFirst(R) : NewestFirst(R)[i] = NewestFirst(R)[j] => i = j
        BY <3>5 DEF Lists, ToSet
      <3>7. of(at) = R  BY DEF R, path
      <3> HIDE DEF of
      <3> QED  BY <3>2, <3>3, <3>4, <3>6, <3>7
    <2>2. \A h : \A at, other \in places : h \in of(at) /\ h \in of(other) => at = other
      BY <1>9 DEF HitsOn
    <2>3. \A h \in shown : \E at \in places : h \in of(at)
      <3> SUFFICES ASSUME NEW h \in shown PROVE \E at \in places : h \in of(at)  OBVIOUS
      <3>1. hits[h].path \in P  BY DEF P, PathsOf
      <3>2. PICK at \in places : group[at].path = hits[h].path  BY <1>10, <3>1
      <3> QED  BY <3>2 DEF HitsOn
    <2> HIDE DEF of
    <2>4. \A count : count \in counts <=>
                        \E at \in places, i \in DOMAIN hits : count = <<at, i>> /\ i <= group[at].visits
      OBVIOUS
    <2>5. IsFiniteSet(counts)
      <3>1. IsFiniteSet(places \X DOMAIN hits)  BY <1>6, TheRows, FS_Product
      <3>2. counts \in SUBSET (places \X DOMAIN hits)  OBVIOUS
      <3> HIDE DEF counts
      <3> QED  BY <3>1, <3>2, FS_Subset
    <2>6. \A count \in counts : f[count] = NewestFirst(of(count[1]))[count[2]]  OBVIOUS
    <2> HIDE DEF counts, f
    <2>7. DOMAIN hits = 1 .. Len(hits) /\ Len(hits) \in Nat  BY TheRows
    <2>8. ASSUME NEW count \in counts
          PROVE  /\ count[1] \in places /\ count = <<count[1], count[2]>>
                 /\ count[2] \in DOMAIN NewestFirst(of(count[1])) /\ f[count] \in of(count[1])
      <3>1. PICK at \in places, i \in DOMAIN hits : count = <<at, i>> /\ i <= group[at].visits  BY <2>4
      <3>2. i \in DOMAIN NewestFirst(of(at))  BY <2>1, <2>7, <3>1
      <3>3. count[1] = at /\ count[2] = i  BY <3>1
      <3>4. f[count] = NewestFirst(of(at))[i]  BY <2>6, <3>3
      <3>5. f[count] \in of(at)  BY <2>1, <3>2, <3>4
      <3> QED  BY <3>1, <3>2, <3>3, <3>5
    <2>9. \A count \in counts : f[count] \in shown  BY <2>1, <2>8
    <2>10. ASSUME NEW count \in counts, NEW other \in counts, f[count] = f[other] PROVE count = other
      <3>1. count[1] = other[1]  BY <2>2, <2>8, <2>10
      <3>2. count[2] = other[2]
        <4> DEFINE s == NewestFirst(of(count[1]))
        <4>1. s[count[2]] = s[other[2]]  BY <2>6, <2>10, <3>1
        <4>2. count[2] \in DOMAIN s /\ other[2] \in DOMAIN s  BY <2>8, <3>1
        <4>3. \A i, j \in DOMAIN s : s[i] = s[j] => i = j  BY <2>1, <2>8
        <4> HIDE DEF s
        <4> QED  BY <4>1, <4>2, <4>3
      <3> QED  BY <2>8, <3>1, <3>2
    <2>11. ASSUME NEW h \in shown PROVE \E count \in counts : f[count] = h
      <3>1. PICK at \in places : h \in of(at)  BY <2>3
      <3>2. PICK i \in DOMAIN NewestFirst(of(at)) : NewestFirst(of(at))[i] = h  BY <2>1, <3>1
      <3>3. i \in DOMAIN hits /\ i <= group[at].visits  BY <2>1, <2>7, <3>2
      <3> DEFINE count == <<at, i>>
      <3>4. count \in counts /\ count[1] = at /\ count[2] = i  BY <2>4, <3>3
      <3> HIDE DEF count
      <3> QED  BY <2>6, <3>2, <3>4
    <2> QED  BY <2>5, <2>9, <2>10, <2>11, OneToOne
  <1> HIDE DEF counts
  <1> QED  BY <1>2, <1>9, <1>11, <1>12, <1>14, <1>15, <1>16 DEF first, page, pages, places, group, counts, all

\* What was tried is grouped and answered for any codes, alphabet and lengths: the links that are
\* suggested are those one slip away, as many as there is room for; a path's samples are the newest
\* of the hits it counts; and an answer's pages hold every path once and add up (orphans.py).
THEOREM OrphansAreAnswered ==
    ASSUME OrphansAssumption
    PROVE  OrphansSpec => []TyposAreAnswered
  <1>1. OrphansInit => OrphansTypeOK  BY OrphansStart
  <1>2. OrphansTypeOK /\ [OrphansNext]_orphanVars => OrphansTypeOK'  BY OrphansStep
  <1>3. OrphansTypeOK => TyposAreAnswered
    BY SlipsAreSuggested, SamplesCount, PagesHoldAll DEF TyposAreAnswered
  <1> QED  BY <1>1, <1>2, <1>3, PTL DEF OrphansSpec
=============================================================================
