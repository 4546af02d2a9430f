----------------------------- MODULE Redirects -----------------------------
(***************************************************************************)
(* Where a link leads (server/utils/redirect_rules.py and redirect_short_  *)
(* url): its rules, tried by priority on what the request says of itself   *)
(* and on the time, and its destination when none holds; while the rules   *)
(* and the destination are edited, the time they ask about comes, and the  *)
(* link is deleted.                                                        *)
(*                                                                         *)
(* Abstracted: one link, followed as LinkVisits has it; what a condition   *)
(* reads of a request (its device, browser, language, or a parameter) is   *)
(* a fact that holds of the request or not.  What is added to the address  *)
(* is wording.  A request that Shurly doesn't log is a crawler's, or asks  *)
(* not to be.  Who may edit is in LinkAccess.                              *)
(***************************************************************************)
EXTENDS Naturals, FiniteSets, Sequences, SequencesExt

CONSTANTS
    RuleRows,    \* bound: rules ever made
    Targets,     \* addresses
    Facts,       \* what may hold of a request
    Priorities,  \* bound
    ConditionSets,  \* bound: the conditions a rule may have
    Visitors,
    Editors,     \* requests that change the rules at once
    MaxTime,     \* bound: ticks
    MaxEdits,    \* bound: changes to the rules and the destination
    Nothing

VARIABLES
    time,
    alive,        \* not deleted
    destination,  \* original_url
    rule,         \* rule[k]: the row, or Nothing
    visit,        \* visit[v]: what v's request is at
    patch,        \* patch[e]: the row that e changes, as read and as asked for, or Nothing
    edits,
    during        \* what the link led to, and what changed, during v's visit

redirectVars == <<time, alive, destination, rule, visit, patch, edits, during>>

Condition == [type : {"fact"}, value : Facts] \cup [type : {"before", "after"}, value : 0 .. MaxTime]
                \cup [type : {"unknown"}, value : {Nothing}]
Rule  == [priority : Priorities, conditions : ConditionSets, target : Targets]
Visiting == [step : {"away", "found", "read", "gone", "failed"}, facts : SUBSET Facts, logged : BOOLEAN,
             destination : Targets, rows : Seq(Rule), to : Targets \cup {Nothing}]

\* What may change while somebody visits the link.
Changeable == {"destination", "rules", "time", "link"}

\* What the constants are assumed to be, where the module is instantiated.
RedirectsAssumption ==
    /\ IsFiniteSet(RuleRows) /\ ConditionSets \subseteq SUBSET Condition
    /\ Priorities \subseteq Nat /\ MaxTime \in Nat /\ MaxEdits \in Nat
    /\ Nothing \notin Rule \cup Targets \cup RuleRows

RedirectsTypeOK ==
    /\ time \in 0 .. MaxTime
    /\ alive \in BOOLEAN
    /\ destination \in Targets
    /\ rule \in [RuleRows -> Rule \cup {Nothing}]
    /\ visit \in [Visitors -> Visiting]
    /\ patch \in [Editors -> [row : RuleRows, loaded : Rule, new : Rule] \cup {Nothing}]
    /\ edits \in 0 .. MaxEdits
    /\ during \in [Visitors -> [led : SUBSET Targets, changed : SUBSET Changeable, since : SUBSET Changeable]]

RedirectsInit ==
    /\ time = 0
    /\ alive = TRUE
    /\ destination \in Targets
    /\ rule = [k \in RuleRows |-> Nothing]
    /\ visit = [v \in Visitors |-> [step |-> "away", facts |-> {}, logged |-> TRUE, destination |-> destination,
                                  rows |-> <<>>, to |-> Nothing]]
    /\ patch = [e \in Editors |-> Nothing]
    /\ edits = 0
    /\ during = [v \in Visitors |-> [led |-> {}, changed |-> {}, since |-> {}]]

-----------------------------------------------------------------------------
(* The evaluation of the rules.                                             *)

\* From the moment on, but not at it: a wrong version.
HoldsLater(c, facts, now) ==
    \/ c.type = "fact"   /\ c.value \in facts
    \/ c.type = "before" /\ now < c.value
    \/ c.type = "after"  /\ now > c.value

EvaluateCondition(c, facts, now) ==
    \/ c.type = "fact"   /\ c.value \in facts
    \/ c.type = "before" /\ now < c.value
    \/ c.type = "after"  /\ now >= c.value

RuleMatches(x, facts, now) ==
    x.conditions # {} /\ \A c \in x.conditions : EvaluateCondition(c, facts, now)

\* The highest number first: a wrong version.
HighestFirst(rows) ==
    {s \in SetToSeqs({k \in RuleRows : rows[k] # Nothing}) :
        \A i, j \in DOMAIN s : i < j => rows[s[i]].priority >= rows[s[j]].priority}

\* The rows as they come: by priority, and of one priority in any order.
ByPriority(rows) ==
    {s \in SetToSeqs({k \in RuleRows : rows[k] # Nothing}) :
        \A i, j \in DOMAIN s : i < j => rows[s[i]].priority <= rows[s[j]].priority}

\* What the SELECT of the rules may return.
RulesRead(rows) == {[i \in DOMAIN s |-> rows[s[i]]] : s \in ByPriority(rows)}

\* The first that matches, of the rules as they came.
PickTarget(rules, default, facts, now) ==
    LET matching == {i \in DOMAIN rules : RuleMatches(rules[i], facts, now)}
        first    == CHOOSE i \in matching : \A j \in matching : i <= j
    IN  IF matching = {} THEN default ELSE rules[first].target

-----------------------------------------------------------------------------
(* A visit.                                                                 *)

\* What the link leads to at a moment, said without an order: to a target of a rule that matches
\* when none before it does, else to its destination.
LeadsTo(rows, default, facts, now) ==
    LET matching == {k \in RuleRows : rows[k] # Nothing /\ RuleMatches(rows[k], facts, now)}
        first == {k \in matching : \A j \in matching : rows[k].priority <= rows[j].priority}
    IN  IF matching = {} THEN {default} ELSE {rows[k].target : k \in first}

\* What the step changed.
Changed ==
    {c \in Changeable : \/ c = "destination" /\ destination' # destination
                        \/ c = "rules" /\ rule' # rule
                        \/ c = "time"  /\ time' # time
                        \/ c = "link"  /\ alive' # alive}

\* Every visit under way sees what the step made of the link.
Watch ==
    during' = [v \in Visitors |->
        IF visit[v].step \notin {"found", "read"} THEN during[v]
        ELSE [led     |-> during[v].led \cup
                            (IF alive' THEN LeadsTo(rule', destination', visit[v].facts, time') ELSE {}),
              changed |-> during[v].changed \cup Changed,
              since   |-> during[v].since \cup Changed]]

\* redirect_short_url reads the link ...
Follow(v) ==
    /\ visit[v].step = "away" /\ alive
    /\ \E facts \in SUBSET Facts :
        /\ visit' = [visit EXCEPT ![v] = [@ EXCEPT !.step = "found", !.facts = facts, !.destination = destination]]
        /\ during' = [during EXCEPT ![v].led = LeadsTo(rule, destination, facts, time)]
    /\ UNCHANGED <<time, alive, destination, rule, patch, edits>>

\* ... and, once it may be followed, its rules, in a SELECT of their own: none of a link deleted
\* meanwhile ...
ReadRules(v) ==
    /\ visit[v].step = "found"
    /\ \E rows \in RulesRead(rule) :
            visit' = [visit EXCEPT ![v] = [@ EXCEPT !.step = "read", !.rows = rows]]
    /\ during' = [during EXCEPT ![v].since = {}]
    /\ UNCHANGED <<time, alive, destination, rule, patch, edits>>

\* ... and then the clock, once for all of them, and logs the visit.  A visit to a link that is no
\* more cannot be logged: the request fails, whenever it was deleted.
Redirect(v) ==
    /\ visit[v].step = "read"
    /\ LET x == visit[v] IN
       \E logged \in BOOLEAN :
           visit' = [visit EXCEPT ![v] =
               IF logged /\ ~ alive THEN [x EXCEPT !.step = "failed", !.rows = <<>>]
               ELSE [x EXCEPT !.step = "gone", !.rows = <<>>, !.logged = logged,
                              !.to = PickTarget(x.rows, x.destination, x.facts, time)]]
    /\ UNCHANGED <<time, alive, destination, rule, patch, edits, during>>

-----------------------------------------------------------------------------
(* The edits.                                                               *)

Edits == edits < MaxEdits /\ edits' = edits + 1

\* create_redirect_rule, the MCP server's add_redirect_rule, and the import.
CreateRule ==
    /\ alive /\ Edits
    /\ \E k \in RuleRows, x \in Rule :
        /\ rule[k] = Nothing
        /\ \A e \in Editors : patch[e] # Nothing => patch[e].row # k  \* an id is never given twice
        /\ rule' = [rule EXCEPT ![k] = x]
    /\ UNCHANGED <<time, alive, destination, visit, patch>>
    /\ Watch

DeleteRule ==
    /\ Edits
    /\ \E k \in RuleRows : rule[k] # Nothing /\ rule' = [rule EXCEPT ![k] = Nothing]
    /\ UNCHANGED <<time, alive, destination, visit, patch>>
    /\ Watch

\* update_redirect_rule reads the row, and sets what it was asked to ...
LoadRule(e) ==
    /\ patch[e] = Nothing
    /\ Edits
    /\ \E k \in RuleRows, x \in Rule :
            rule[k] # Nothing /\ patch' = [patch EXCEPT ![e] = [row |-> k, loaded |-> rule[k], new |-> x]]
    /\ UNCHANGED <<time, alive, destination, rule, visit>>
    /\ Watch

\* ... and only what differs from what it read is written.
Written(p, x) == [f \in DOMAIN x |-> IF p.new[f] # p.loaded[f] THEN p.new[f] ELSE x[f]]

\* Gone meanwhile, the row is not written: the request fails.
CommitUpdate(e) ==
    /\ patch[e] # Nothing
    /\ LET k == patch[e].row
       IN  rule' = IF rule[k] = Nothing THEN rule ELSE [rule EXCEPT ![k] = Written(patch[e], rule[k])]
    /\ patch' = [patch EXCEPT ![e] = Nothing]
    /\ UNCHANGED <<time, alive, destination, visit, edits>>
    /\ Watch

\* update_url.
MoveLink ==
    /\ alive /\ Edits
    /\ \E d \in Targets \ {destination} : destination' = d
    /\ UNCHANGED <<time, alive, rule, visit, patch>>
    /\ Watch

\* delete_url, and its campaign's deletion: its rules go with it.
DeleteUrl ==
    /\ alive /\ Edits
    /\ alive' = FALSE
    /\ rule' = [k \in RuleRows |-> Nothing]
    /\ UNCHANGED <<time, destination, visit, patch>>
    /\ Watch

TimePasses ==
    /\ time < MaxTime /\ time' = time + 1
    /\ UNCHANGED <<alive, destination, rule, visit, patch, edits>>
    /\ Watch

RedirectsNext ==
    \/ \E v \in Visitors : Follow(v) \/ ReadRules(v) \/ Redirect(v)
    \/ \E e \in Editors : LoadRule(e) \/ CommitUpdate(e)
    \/ CreateRule \/ DeleteRule \/ MoveLink \/ DeleteUrl \/ TimePasses

RedirectsSpec == RedirectsInit /\ [][RedirectsNext]_redirectVars

-----------------------------------------------------------------------------
(* Properties.                                                              *)

\* A visitor goes where the link led at some moment of their visit, by the rules, the destination and
\* the time of that moment, although these are read one after the other (urls.py, redirect_rules.py).
\* But: the rules may change once they are read, and the time they ask about pass before the clock is;
\* and the destination, read first, may be followed when it moved and the rules or the time changed
\* too, or when the link was deleted: then only by who isn't logged.
GoesWhereItLed ==
    \A v \in Visitors : visit[v].step = "gone" =>
        \/ visit[v].to \in during[v].led
        \/ {"rules", "time"} \subseteq during[v].since
        \/ /\ visit[v].to = visit[v].destination
           /\ \/ "destination" \in during[v].changed /\ during[v].changed \cap {"rules", "time"} # {}
              \/ "link" \in during[v].changed /\ ~ visit[v].logged

\* Two of the rules read that differ in a moment, until it and from it on, leave nobody they are for
\* to the destination, whenever the clock is read, at the moment itself either (redirect_rules.py:
\* "strictly before", "at or after").
SchedulesMissNobody ==
    \A v \in Visitors : visit[v].step = "read" =>
        LET x == visit[v] IN
        \A j, k \in DOMAIN x.rows, d \in 0 .. MaxTime :
            LET before == [type |-> "before", value |-> d]
                after  == [type |-> "after", value |-> d]
                others == x.rows[j].conditions \ {before}
            IN  (/\ before \in x.rows[j].conditions
                 /\ x.rows[k].conditions = others \cup {after}
                 /\ \A c \in others : EvaluateCondition(c, x.facts, time))
                => PickTarget(x.rows, Nothing, x.facts, time) # Nothing

\* Both.
VisitorsGoWhereItLeads == GoesWhereItLed /\ SchedulesMissNobody
=============================================================================
