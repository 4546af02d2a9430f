------------------------------ MODULE Waitlist ------------------------------
(***************************************************************************)
(* The waitlist (server/app/waitlist.py): sign-ups by anybody, an entry    *)
(* for each address; its removal when its person asks, and the daily purge *)
(* of those whose latest sign-up is more than a year old                   *)
(* (server/utils/housekeeping.py).                                         *)
(*                                                                         *)
(* A sign-up reads the entry and commits later.  A session writes only the *)
(* attributes that differ from the row it loaded.                          *)
(*                                                                         *)
(* Abstracted: of the answers, what kind of person it is and the company.  *)
(***************************************************************************)
EXTENDS Naturals, FiniteSets

CONSTANTS
    Emails,
    Companies,
    Signers,      \* sign-ups served at once
    Year,         \* 12 months, in ticks
    Lasts,        \* the longest a request takes, in ticks
    LastDay,      \* bound: ticks
    MaxEntries,   \* bound: entries ever made
    Null          \* NULL, or no row

VARIABLES
    day,       \* the time
    entry,     \* entry[e]: the row of e, or Null
    made,      \* entries made so far: the next one's id
    signing,   \* signing[s]: what the sign-up does
    joined     \* joined[e]: the latest sign-up that was answered since e was last removed, or Null

waitlistVars == <<day, entry, made, signing, joined>>

Days    == 0 .. LastDay
Ids     == 1 .. MaxEntries
Answers == [kind : {"individual"}, company : {Null}] \cup [kind : {"company"}, company : Companies]
Entry   == [id : Ids, kind : {"individual", "company"}, company : Companies \cup {Null},
            consent : Days]
Signing == [step : {"idle", "insert", "again", "update", "remove"}, email : Emails,
            answers : Answers, since : Days, loaded : Entry \cup {Null}]

\* What the constants are assumed to be, where the module is extended.
WaitlistAssumption ==
    /\ Emails # {} /\ Null \notin Companies \cup Nat \cup Entry
    /\ Year \in Nat /\ Lasts \in Nat /\ LastDay \in Nat /\ MaxEntries \in Nat

WaitlistTypeOK ==
    /\ day \in Days
    /\ entry \in [Emails -> Entry \cup {Null}]
    /\ made \in 0 .. MaxEntries
    /\ signing \in [Signers -> Signing]
    /\ joined \in [Emails -> Days \cup {Null}]

Idle == [step |-> "idle", email |-> CHOOSE e \in Emails : TRUE,
         answers |-> [kind |-> "individual", company |-> Null], since |-> 0, loaded |-> Null]

WaitlistInit ==
    /\ day = 0
    /\ entry = [e \in Emails |-> Null]
    /\ made = 0
    /\ signing = [s \in Signers |-> Idle]
    /\ joined = [e \in Emails |-> Null]

Goes(s, to) == signing' = [signing EXCEPT ![s] = to]

\* The sign-up is answered; the moment it took counts from now on.
Answered(s) ==
    LET e == signing[s].email
        t == signing[s].since
    IN  joined' = [joined EXCEPT ![e] = IF @ = Null \/ @ < t THEN t ELSE @]

-----------------------------------------------------------------------------
\* join_waitlist: its moment, and the entry as it is.  A filled honeypot stores nothing.
Join(s, e, a) ==
    /\ signing[s].step = "idle"
    /\ made < MaxEntries
    /\ Goes(s, [step |-> IF entry[e] = Null THEN "insert" ELSE "update", email |-> e,
                answers |-> a, since |-> day, loaded |-> entry[e]])
    /\ UNCHANGED <<day, entry, made, joined>>

\* _save, no entry: a new one, unless the address has got one meanwhile.
InsertEntry(s) ==
    /\ signing[s].step = "insert"
    /\ LET r == signing[s] IN
       IF entry[r.email] = Null
       THEN /\ made < MaxEntries
            /\ made' = made + 1
            /\ entry' = [entry EXCEPT ![r.email] =
                           [id |-> made + 1, kind |-> r.answers.kind,
                            company |-> r.answers.company, consent |-> r.since]]
            /\ Answered(s)
            /\ Goes(s, Idle)
       ELSE /\ Goes(s, [r EXCEPT !.step = "again"])
            /\ UNCHANGED <<entry, made, joined>>
    /\ UNCHANGED day

\* The IntegrityError: it reads the other's entry, and fails when that is gone already.
ReadAgain(s) ==
    /\ signing[s].step = "again"
    /\ LET e == signing[s].email
       IN  Goes(s, IF entry[e] = Null THEN Idle
                   ELSE [signing[s] EXCEPT !.step = "update", !.loaded = entry[e]])
    /\ UNCHANGED <<day, entry, made, joined>>

\* What a column holds after a session that loaded `was` set it to `new`.
Written(was, new, current) == IF new = was THEN current ELSE new

\* _save, an entry: the answers given now.  A sign-up whose entry went meanwhile fails.
ConsentKept(r, e) == e.consent  \* a wrong version: only the answers are new
Consent(r, e)     == r.since
Updated(r, e) == [e EXCEPT !.kind    = Written(r.loaded.kind, r.answers.kind, @),
                           !.company = Written(r.loaded.company, r.answers.company, @),
                           !.consent = Consent(r, e)]
Update(s) ==
    /\ signing[s].step = "update"
    /\ LET r == signing[s]
           e == entry[r.email]
       IN  IF e # Null /\ e.id = r.loaded.id
           THEN /\ entry' = [entry EXCEPT ![r.email] = Updated(r, e)]
                /\ Answered(s)
           ELSE UNCHANGED <<entry, joined>>
    /\ Goes(s, Idle)
    /\ UNCHANGED <<day, made>>

\* remove_waitlist_entry: the entry is read first, and deleted by its id.
AskRemoval(s, e) ==
    /\ signing[s].step = "idle"
    /\ entry[e] # Null
    /\ Goes(s, [Idle EXCEPT !.step = "remove", !.email = e, !.since = day, !.loaded = entry[e]])
    /\ UNCHANGED <<day, entry, made, joined>>

RemoveEntry(s) ==
    /\ signing[s].step = "remove"
    /\ LET e == signing[s].email
       IN  IF entry[e] # Null /\ entry[e].id = signing[s].loaded.id
           THEN /\ entry' = [entry EXCEPT ![e] = Null]
                /\ joined' = [joined EXCEPT ![e] = Null]
           ELSE UNCHANGED <<entry, joined>>
    /\ Goes(s, Idle)
    /\ UNCHANGED <<day, made>>

\* purge_waitlist: one DELETE.
IsOver(e) == entry[e] # Null /\ entry[e].consent + Year < day
Purge ==
    /\ \E e \in Emails : IsOver(e)
    /\ entry' = [e \in Emails |-> IF IsOver(e) THEN Null ELSE entry[e]]
    /\ UNCHANGED <<day, made, signing, joined>>

\* Time passes, no more than a request may take while one is under way.
Passes ==
    /\ day < LastDay
    /\ \A s \in Signers : signing[s].step # "idle" => day < signing[s].since + Lasts
    /\ day' = day + 1
    /\ UNCHANGED <<entry, made, signing, joined>>

WaitlistNext ==
    \/ Purge \/ Passes
    \/ \E s \in Signers :
          \/ InsertEntry(s) \/ ReadAgain(s) \/ Update(s) \/ RemoveEntry(s)
          \/ \E e \in Emails : AskRemoval(s, e) \/ \E a \in Answers : Join(s, e, a)

WaitlistSpec == WaitlistInit /\ [][WaitlistNext]_waitlistVars

-----------------------------------------------------------------------------
\* Who signed up, and was answered, stays on the list for a year, less what a request may take:
\* a sign-up that crosses it writes its own, earlier moment, and a purge may come right after
\* ("12 months after their last sign-up", server/core/models/waitlist.py).
SignUpsLastAYear ==
    \A e \in Emails : (joined[e] # Null /\ day + Lasts <= joined[e] + Year) => entry[e] # Null

\* "Always None for an individual" (company, server/core/models/waitlist.py).
IndividualsHaveNoCompany ==
    \A e \in Emails : (entry[e] # Null /\ entry[e].kind = "individual") => entry[e].company = Null
=============================================================================
