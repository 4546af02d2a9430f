-------------------------- MODULE ShortCodesProofs --------------------------
(***************************************************************************)
(* Proofs about ShortCodes: the rows of `domains` and `urls` keep their    *)
(* types and constraints, no link is made or moved where the app, or the   *)
(* API, would answer in its place, one domain is the default, starts fail  *)
(* only when somebody writes around them, and visits find their link.      *)
(***************************************************************************)
EXTENDS ShortCodes, FiniteSetTheorems, TLAPS

\* The tables: LinksAreReachable needs that a link without a domain, which a start may give
\* one, has a code that is reserved nowhere.
TablesOK ==
    /\ domains \in [Hosts -> {"none", "plain", "default", "retired"}]
    /\ links \in [DOMAIN links -> Row] /\ DOMAIN links \subseteq made /\ made \subseteq Links
    /\ \A l \in DOMAIN links : links[l].domain = None \/ Known(links[l].domain)
    /\ CodesAreUnique
    /\ \A l \in DOMAIN links : links[l].domain = None => links[l].code \in LegacyCodes
    /\ LinksAreReachable

\* A request that makes links has a domain, and codes that are reserved on none of it.
Making == {"draw", "custom", "suffix", "save"}
AsksOK(q) ==
    /\ q.at \in Making => q.domain \in Hosts /\ \A c \in q.codes : ~IsReserved(c, q.domain)
    /\ q.at = "custom" => q.code \in Codes

\* A start that binds links has a domain, and no two links to bind that share a code.
NoDoubles(s) ==
    \A k, l \in s.moving \cap DOMAIN links :
        links[k].domain = None /\ links[l].domain = None /\ links[k].code = links[l].code => k = l
StartOK(s) == s.at \in {"select", "move"} => s.domain \in Hosts

NamesInv ==
    /\ TablesOK
    /\ request \in [Requests -> Pending] /\ task \in [Tasks -> Start] /\ operator \in Command
    /\ deployed \in BOOLEAN
    /\ \A r \in Requests : AsksOK(request[r])
    /\ \A t \in Tasks : StartOK(task[t]) /\ NoDoubles(task[t])

-----------------------------------------------------------------------------
(* What never asks for a reserved code.                                    *)

LEMMA RandomIsNotReserved ==
    \A c \in RandomCodes \cup LegacyCodes : \A d : ~IsReserved(c, d)
BY ShortCodesAssumption DEF IsReserved

LEMMA IdleIsTyped ==
    /\ Idle \in Pending /\ AsksOK(Idle)
    /\ Down \in Start /\ StartOK(Down) /\ Up \in Start /\ StartOK(Up)
    /\ Down.moving = {} /\ Up.moving = {}
    /\ AtRest \in Command
BY DEF Idle, Pending, AsksOK, Making, Down, Up, Start, StartOK, AtRest, Command

LEMMA NamesInvInit == Init => NamesInv
<1> SUFFICES ASSUME Init PROVE NamesInv
  OBVIOUS
<1>1. \A l \in DOMAIN links :
         /\ links[l] \in Row /\ links[l].code \in LegacyCodes
         /\ links[l].domain \in IF deployed THEN {None, DefaultDomain} ELSE {None}
  <2>1. PICK old \in SUBSET Links :
           links \in [old -> [code : LegacyCodes,
                              campaign : {None, CHOOSE k \in Campaigns : TRUE},
                              domain : IF deployed THEN {None, DefaultDomain} ELSE {None}]]
    BY DEF Init
  <2>2. (CHOOSE k \in Campaigns : TRUE) \in Campaigns
    BY ShortCodesAssumption
  <2> QED
    BY <2>1, <2>2, ShortCodesAssumption DEF Row
<1>2. links \in [DOMAIN links -> Row] /\ DOMAIN links \subseteq made /\ made \subseteq Links
  <2>1. PICK old \in SUBSET Links :
           /\ links \in [old -> [code : LegacyCodes,
                                 campaign : {None, CHOOSE k \in Campaigns : TRUE},
                                 domain : IF deployed THEN {None, DefaultDomain} ELSE {None}]]
           /\ made = old
    BY DEF Init
  <2>2. DOMAIN links = old /\ links = [l \in old |-> links[l]]
    BY <2>1
  <2> QED
    BY <2>1, <2>2, <1>1
<1>3. domains = [h \in Hosts |-> IF deployed /\ h = DefaultDomain THEN "default" ELSE "none"]
  BY DEF Init
<1>4. TablesOK
  <2>1. \A l \in DOMAIN links : links[l].domain = None \/ Known(links[l].domain)
    BY <1>1, <1>3, ShortCodesAssumption DEF Known
  <2>2. LinksAreReachable
    BY <1>1, RandomIsNotReserved DEF LinksAreReachable
  <2> QED
    BY <1>1, <1>2, <1>3, <2>1, <2>2 DEF TablesOK, Init
<1>5. task \in [Tasks -> Start] /\ \A t \in Tasks : StartOK(task[t]) /\ NoDoubles(task[t])
  BY IdleIsTyped DEF Init, NoDoubles
<1>6. request \in [Requests -> Pending] /\ \A r \in Requests : AsksOK(request[r])
  BY IdleIsTyped DEF Init
<1> QED
  BY <1>4, <1>5, <1>6, IdleIsTyped DEF NamesInv, Init

-----------------------------------------------------------------------------
(* Requests.                                                               *)

\* Every step of a request but its insert changes that request alone, and asks for nothing
\* that is reserved.
Asking(r) == \E q \in Pending : AsksOK(q) /\ Goes(r, q) /\ OnlyRequests

LEMMA AskingKeepsNames ==
    ASSUME NamesInv, NEW r \in Requests, Asking(r)
    PROVE  NamesInv'
<1>1. PICK q \in Pending : AsksOK(q) /\ Goes(r, q) /\ OnlyRequests
  BY DEF Asking
<1>2. request' \in [Requests -> Pending] /\ \A u \in Requests : AsksOK(request'[u])
  BY <1>1 DEF NamesInv, Goes
<1>3. TablesOK' /\ task' = task /\ operator' = operator /\ deployed' = deployed /\ links' = links
  BY <1>1 DEF NamesInv, OnlyRequests, TablesOK, Known, CodesAreUnique, LinksAreReachable
<1>4. \A t \in Tasks : StartOK(task'[t]) /\ NoDoubles(task[t])'
  BY <1>3 DEF NamesInv, NoDoubles
<1>5. \A u \in Requests : AsksOK(request[u])'
  BY <1>2 DEF AsksOK, IsReserved
<1> QED
  BY <1>2, <1>3, <1>4, <1>5 DEF NamesInv, StartOK

LEMMA CreatingAsks ==
    ASSUME NamesInv, NEW r \in Requests,
           (\E rows \in 1 .. MaxRows : CreateRandom(r, rows)) \/ \E c \in Codes : CreateCustom(r, c)
    PROVE  Asking(r)
<1>1. ASSUME NEW rows \in 1 .. MaxRows, CreateRandom(r, rows) PROVE Asking(r)
  <2>1. PICK d \in Defaults, kind \in {"link", "campaign"} :
           Goes(r, [Idle EXCEPT !.at = "draw", !.kind = kind, !.domain = d, !.rows = rows])
    BY <1>1 DEF CreateRandom
  <2> DEFINE q == [Idle EXCEPT !.at = "draw", !.kind = kind, !.domain = d, !.rows = rows]
  <2>2. d \in Hosts /\ rows \in Nat
    BY ShortCodesAssumption DEF Defaults
  <2>3. q \in Pending /\ AsksOK(q)
    BY <2>2 DEF Idle, Pending, AsksOK
  <2> QED
    BY <1>1, <2>1, <2>3 DEF Asking, CreateRandom
<1>2. ASSUME NEW c \in Codes, CreateCustom(r, c) PROVE Asking(r)
  <2>1. PICK d \in Defaults :
           Goes(r, [Idle EXCEPT !.at = "custom", !.kind = "link", !.domain = d, !.code = c])
    BY <1>2 DEF CreateCustom
  <2> DEFINE q == [Idle EXCEPT !.at = "custom", !.kind = "link", !.domain = d, !.code = c]
  <2>2. d \in Hosts
    BY DEF Defaults
  <2>3. q \in Pending /\ AsksOK(q)
    BY <2>2 DEF Idle, Pending, AsksOK
  <2> QED
    BY <1>2, <2>1, <2>3 DEF Asking, CreateCustom
<1> QED
  BY <1>1, <1>2

LEMMA ChoosingAsks ==
    ASSUME NamesInv, NEW r \in Requests,
           (\E c \in Codes : Draw(r, c) \/ TrySuffix(r, c)) \/ TryCustom(r) \/ GiveUp(r)
    PROVE  Asking(r)
<1> DEFINE q == request[r]
<1>0. q \in Pending /\ AsksOK(q)
  BY DEF NamesInv
<1>1. ASSUME NEW c \in Codes, Draw(r, c) PROVE Asking(r)
  <2> DEFINE p == [q EXCEPT !.codes = @ \cup {c},
                            !.at = IF Cardinality(q.codes) + 1 = q.rows THEN "save" ELSE @]
  <2>1. q.at = "draw" /\ c \in RandomCodes /\ Goes(r, p) /\ OnlyRequests
    BY <1>1 DEF Draw
  <2>2. /\ p \in Pending /\ p.domain = q.domain /\ p.codes = q.codes \cup {c}
        /\ p.at \in {"draw", "save"}
    BY <1>0, <2>1 DEF Pending
  <2>3. AsksOK(p)
    BY <1>0, <2>1, <2>2, RandomIsNotReserved DEF AsksOK, Making
  <2> QED
    BY <2>1, <2>2, <2>3 DEF Asking
<1>2. CASE TryCustom(r)
  <2>1. CASE IsUnavailable(q.code, q.domain)
    <3> DEFINE p == [q EXCEPT !.at = "suffix"]
    <3>1. q.at = "custom" /\ Goes(r, p) /\ OnlyRequests
      BY <1>2, <2>1 DEF TryCustom
    <3>2. p \in Pending /\ AsksOK(p)
      BY <1>0, <3>1 DEF Pending, AsksOK, Making
    <3> QED
      BY <3>1, <3>2 DEF Asking
  <2>2. CASE ~IsUnavailable(q.code, q.domain)
    <3> DEFINE p == [q EXCEPT !.at = "save", !.codes = {q.code}, !.code = None]
    <3>1. q.at = "custom" /\ Goes(r, p) /\ OnlyRequests
      BY <1>2, <2>2 DEF TryCustom
    <3>2. q.code \in Codes
      BY <1>0, <3>1 DEF AsksOK
    <3>3. p \in Pending /\ p.domain = q.domain /\ p.codes = {q.code} /\ p.at = "save"
      BY <1>0, <3>2 DEF Pending
    <3>4. AsksOK(p)
      BY <1>0, <2>2, <3>1, <3>3 DEF AsksOK, Making, IsUnavailable
    <3> QED
      BY <3>1, <3>3, <3>4 DEF Asking
  <2> QED
    BY <2>1, <2>2
<1>3. ASSUME NEW c \in Codes, TrySuffix(r, c) PROVE Asking(r)
  <2> DEFINE p == [q EXCEPT !.at = "save", !.codes = {c}, !.code = None]
  <2>1. q.at = "suffix" /\ ~IsUnavailable(c, q.domain) /\ Goes(r, p) /\ OnlyRequests
    BY <1>3 DEF TrySuffix
  <2>2. p \in Pending /\ p.domain = q.domain /\ p.codes = {c} /\ p.at = "save"
    BY <1>0 DEF Pending
  <2>3. AsksOK(p)
    BY <1>0, <2>1, <2>2 DEF AsksOK, Making, IsUnavailable
  <2> QED
    BY <2>1, <2>2, <2>3 DEF Asking
<1>4. CASE GiveUp(r)
  BY <1>4, IdleIsTyped DEF GiveUp, Asking
<1> QED
  BY <1>1, <1>2, <1>3, <1>4

LEMMA VisitingAsks ==
    ASSUME NamesInv, NEW r \in Requests,
           \/ \E h \in Hosts, c \in VisitedCodes : Visit(r, h, c)
           \/ ReadDefault(r) \/ Lookup(r) \/ LookupLegacy(r)
    PROVE  Asking(r)
<1>0. request[r] \in Pending /\ DOMAIN links \subseteq Links
  BY DEF NamesInv, TablesOK
<1>1. ASSUME NEW h \in Hosts, NEW c \in VisitedCodes, Visit(r, h, c) PROVE Asking(r)
  <2> DEFINE q == [Idle EXCEPT !.kind = "visit", !.host = h, !.code = c]
             known == [q EXCEPT !.at = "lookup", !.domain = h]
             other == [q EXCEPT !.at = "default"]
  <2>1. c \in Codes
    BY ShortCodesAssumption
  <2>2. known \in Pending /\ AsksOK(known) /\ other \in Pending /\ AsksOK(other)
    BY <2>1 DEF Idle, Pending, AsksOK, Making
  <2> QED
    BY <1>1, <2>2 DEF Visit, Asking
<1>2. CASE ReadDefault(r)
  <2>1. PICK d \in Defaults : Goes(r, [request[r] EXCEPT !.at = "lookup", !.domain = d])
    BY <1>2 DEF ReadDefault
  <2> DEFINE q == [request[r] EXCEPT !.at = "lookup", !.domain = d]
  <2>2. q \in Pending /\ AsksOK(q)
    BY <1>0 DEF Pending, AsksOK, Making, Defaults
  <2> QED
    BY <1>2, <2>1, <2>2 DEF ReadDefault, Asking
<1>3. \A l \in Links \cup {None} :
         LET q == [Idle EXCEPT !.at = "answered", !.found = l] IN q \in Pending /\ AsksOK(q)
  BY DEF Idle, Pending, AsksOK, Making
<1>4. CASE LookupLegacy(r)
  BY <1>0, <1>3, <1>4 DEF LookupLegacy, Answers, Asking, On
<1>5. CASE Lookup(r)
  <2> DEFINE q == [request[r] EXCEPT !.at = "legacy"]
  <2>1. q \in Pending /\ AsksOK(q)
    BY <1>0 DEF Pending, AsksOK, Making
  <2> QED
    BY <1>0, <1>3, <1>5, <2>1 DEF Lookup, Answers, Asking, On
<1> QED
  BY <1>1, <1>2, <1>4, <1>5

\* The insert: the links it makes are on a domain there is, with codes nobody has there.
LEMMA SaveKeepsNames ==
    ASSUME NamesInv, NEW r \in Requests, Save(r)
    PROVE  NamesInv'
<1> DEFINE q == request[r]
           free == Known(q.domain) /\ \A c \in q.codes : ~Taken(q.domain, c)
<1>0. /\ q \in Pending /\ AsksOK(q) /\ q.at = "save" /\ q.domain \in Hosts
      /\ \A c \in q.codes : c \in Codes /\ ~IsReserved(c, q.domain)
  BY DEF NamesInv, Save, AsksOK, Making, Pending
<1>1. /\ domains' = domains /\ task' = task /\ deployed' = deployed /\ operator' = operator
      /\ Goes(r, Idle)
  BY DEF Save
<1>2. request' \in [Requests -> Pending] /\ \A u \in Requests : AsksOK(request[u])'
  BY <1>1, IdleIsTyped DEF NamesInv, Goes, AsksOK, IsReserved
<1>3. CASE links' = links /\ made' = made
  <2>1. TablesOK'
    BY <1>1, <1>3 DEF NamesInv, TablesOK, Known, CodesAreUnique, LinksAreReachable, IsReserved
  <2> QED
    BY <1>1, <1>2, <1>3, <2>1 DEF NamesInv, StartOK, NoDoubles
<1>4. CASE ~(links' = links /\ made' = made)
  <2>0. PICK new \in SUBSET (Links \ made), k \in Campaigns \cup {None} :
           /\ \E code \in Bijection(new, q.codes) :
                 links' = [l \in DOMAIN links \cup new |->
                            IF l \in new
                            THEN [code |-> code[l], domain |-> q.domain, campaign |-> k]
                            ELSE links[l]]
           /\ made' = made \cup new
    BY <1>4 DEF Save
  <2>1. PICK code \in Bijection(new, q.codes) :
           /\ links' = [l \in DOMAIN links \cup new |->
                          IF l \in new
                          THEN [code |-> code[l], domain |-> q.domain, campaign |-> k]
                          ELSE links[l]]
           /\ made' = made \cup new
    BY <2>0
  <2>2. free
    BY <1>4 DEF Save
  <2>3. /\ \A l \in new : code[l] \in q.codes
        /\ \A l, m \in new : code[l] = code[m] => l = m
    BY DEF Bijection, Injection, Surjection, IsInjective
  <2>4. DOMAIN links' = DOMAIN links \cup new /\ new \cap DOMAIN links = {}
    BY <2>1 DEF NamesInv, TablesOK
  <2>5. /\ \A l \in new : links'[l].domain = q.domain /\ links'[l].code = code[l]
                           /\ links'[l] \in Row
        /\ \A l \in DOMAIN links : links'[l] = links[l]
    BY <1>0, <2>1, <2>3, <2>4 DEF Row
  <2>6. CodesAreUnique'
    BY <2>2, <2>3, <2>4, <2>5 DEF NamesInv, TablesOK, CodesAreUnique, Taken, On
  <2>7. LinksAreReachable'
    BY <1>0, <2>3, <2>4, <2>5 DEF NamesInv, TablesOK, LinksAreReachable, IsReserved
  <2>8. links' \in [DOMAIN links' -> Row] /\ DOMAIN links' \subseteq made' /\ made' \subseteq Links
    BY <2>1, <2>4, <2>5 DEF NamesInv, TablesOK
  <2>9. (\A l \in DOMAIN links : links[l].domain = None \/ Known(links[l].domain))'
    BY <1>1, <2>2, <2>4, <2>5 DEF NamesInv, TablesOK, Known
  <2>10. \A l \in DOMAIN links' : links'[l].domain = None => links'[l].code \in LegacyCodes
    BY <1>0, <2>4, <2>5, ShortCodesAssumption DEF NamesInv, TablesOK
  <2>11. TablesOK'
    BY <1>1, <2>6, <2>7, <2>8, <2>9, <2>10 DEF NamesInv, TablesOK
  <2>12. \A t \in Tasks : NoDoubles(task[t])'
    BY <1>0, <1>1, <2>4, <2>5, ShortCodesAssumption DEF NamesInv, NoDoubles
  <2> QED
    BY <1>1, <1>2, <2>11, <2>12 DEF NamesInv, StartOK
<1> QED
  BY <1>3, <1>4

-----------------------------------------------------------------------------
(* Deletions.                                                              *)

\* Links that go leave the rest as they are; a domain that goes has none left.
LEMMA FewerKeepTables ==
    ASSUME TablesOK, NEW gone, Without(gone), made' = made,
           domains' \in [Hosts -> {"none", "plain", "default", "retired"}],
           \A l \in DOMAIN links \ gone : Known(links[l].domain) => Known(links[l].domain)'
    PROVE  /\ TablesOK'
           /\ \A s : NoDoubles(s) => NoDoubles(s)'
<1>1. /\ DOMAIN links' = DOMAIN links \ gone
      /\ \A l \in DOMAIN links' : links'[l] = links[l] /\ links[l] \in Row
      /\ links' = [l \in DOMAIN links' |-> links'[l]]
  BY DEF Without, TablesOK
<1>2. links' \in [DOMAIN links' -> Row]
  BY <1>1
<1>3. (\A l \in DOMAIN links : links[l].domain = None \/ Known(links[l].domain))'
  BY <1>1 DEF TablesOK, Known
<1>4. CodesAreUnique' /\ LinksAreReachable'
  BY <1>1 DEF TablesOK, CodesAreUnique, LinksAreReachable, IsReserved
<1>5. \A s : NoDoubles(s) => NoDoubles(s)'
  BY <1>1 DEF NoDoubles
<1> QED
  BY <1>1, <1>2, <1>3, <1>4, <1>5 DEF TablesOK

LEMMA DeletingKeepsNames ==
    ASSUME NamesInv,
           (\E l \in DOMAIN links : DeleteUrl(l)) \/ (\E k \in Campaigns : DeleteCampaign(k))
    PROVE  NamesInv'
<1>1. PICK gone : Without(gone)
  BY DEF DeleteUrl, DeleteCampaign
<1>2. UNCHANGED <<domains, made, request, task, deployed, operator>>
  BY DEF DeleteUrl, DeleteCampaign
<1>3. TablesOK' /\ \A s : NoDoubles(s) => NoDoubles(s)'
  <2>1. \A l \in DOMAIN links \ gone : Known(links[l].domain) => Known(links[l].domain)'
    BY <1>1, <1>2 DEF Known, Without
  <2>2. TablesOK /\ domains' \in [Hosts -> {"none", "plain", "default", "retired"}] /\ made' = made
    BY <1>2 DEF NamesInv, TablesOK
  <2> QED
    BY <1>1, <2>1, <2>2, FewerKeepTables
<1>4. \A t \in Tasks : NoDoubles(task[t])'
  BY <1>2, <1>3 DEF NamesInv, NoDoubles
<1> QED
  BY <1>2, <1>3, <1>4 DEF NamesInv, StartOK, AsksOK, IsReserved

-----------------------------------------------------------------------------
(* Tasks that start.                                                       *)

\* A start that ends, or goes on, has the domain it has read, and no doubles to move.
StartsWell(s) == s \in Start /\ StartOK(s) /\ NoDoubles(s)

LEMMA StartingKeepsNames ==
    ASSUME NamesInv, NEW t \in Tasks, NEW s, StartsWell(s), task' = [task EXCEPT ![t] = s],
           UNCHANGED <<links, made, request, operator>>, deployed' \in BOOLEAN,
           domains' \in [Hosts -> {"none", "plain", "default", "retired"}],
           \A h \in Hosts : Known(h) => Known(h)'
    PROVE  NamesInv'
<1>1. \A u \in Tasks : task'[u] \in Start /\ StartOK(task'[u]) /\ NoDoubles(task'[u])
  BY DEF NamesInv, StartsWell
<1>2. task' \in [Tasks -> Start] /\ \A u \in Tasks : (StartOK(task[u]) /\ NoDoubles(task[u]))'
  BY <1>1 DEF NamesInv, StartOK, NoDoubles
<1>3. (\A l \in DOMAIN links : links[l].domain = None \/ Known(links[l].domain))'
  BY DEF NamesInv, TablesOK, Row
<1>4. TablesOK'
  BY <1>3 DEF NamesInv, TablesOK, CodesAreUnique, LinksAreReachable, IsReserved
<1> QED
  BY <1>2, <1>4 DEF NamesInv, AsksOK, IsReserved

\* NoDoubles of what a task has to move doesn't depend on its other fields.
LEMMA SeedingKeepsNames ==
    ASSUME NamesInv, NEW t \in Tasks, SeedDefault(t) \/ SeedHostname(t) \/ SeedInsert(t)
    PROVE  NamesInv'
<1>1. task[t] \in Start /\ NoDoubles(task[t])
  BY DEF NamesInv
<1>2. \A at \in {"hostname", "insert", "default"} : StartsWell([task[t] EXCEPT !.at = at])
  BY <1>1 DEF StartsWell, Start, StartOK, NoDoubles
<1>3. StartsWell(Down)
  BY IdleIsTyped DEF StartsWell, NoDoubles
<1>4. PICK s : StartsWell(s) /\ task' = [task EXCEPT ![t] = s]
  <2>1. \A at, to : StartsUp(t, at, to) => task' = [task EXCEPT ![t] = [task[t] EXCEPT !.at = to]]
    BY DEF StartsUp
  <2> QED
    BY <1>2, <1>3, <2>1 DEF SeedDefault, SeedHostname, SeedInsert, Crashes
<1>5. UNCHANGED <<links, made, request, operator>> /\ deployed' \in BOOLEAN
  BY DEF SeedDefault, SeedHostname, SeedInsert, NamesInv
<1>6. domains' = domains \/ domains' = [domains EXCEPT ![DefaultDomain] = "default"]
  BY DEF SeedDefault, SeedHostname, SeedInsert
<1>7. /\ domains' \in [Hosts -> {"none", "plain", "default", "retired"}]
      /\ \A h \in Hosts : Known(h) => Known(h)'
  BY <1>6 DEF NamesInv, TablesOK, Known
<1> QED
  BY <1>4, <1>5, <1>7, StartingKeepsNames

LEMMA BackfillReadsKeepNames ==
    ASSUME NamesInv, NEW t \in Tasks, BackfillDefault(t) \/ BackfillSelect(t)
    PROVE  NamesInv'
<1>1. task[t] \in Start /\ StartOK(task[t]) /\ NoDoubles(task[t]) /\ DOMAIN links \subseteq Links
  BY DEF NamesInv, TablesOK
<1>2. PICK s : StartsWell(s) /\ task' = [task EXCEPT ![t] = s]
  <2>1. CASE BackfillDefault(t)
    <3>1. PICK d \in Defaults : task' = [task EXCEPT ![t].at = "select", ![t].domain = d]
      BY <2>1 DEF BackfillDefault
    <3> DEFINE s == [task[t] EXCEPT !.at = "select", !.domain = d]
    <3>2. task' = [task EXCEPT ![t] = s]
      BY <3>1 DEF NamesInv
    <3>3. StartsWell(s)
      BY <1>1 DEF StartsWell, Start, StartOK, NoDoubles, Defaults
    <3> QED
      BY <3>2, <3>3
  <2>2. CASE BackfillSelect(t)
    <3> DEFINE m == Movable(task[t].domain)
               s == [task[t] EXCEPT !.at = "move", !.moving = m]
    <3>1. task' = [task EXCEPT ![t] = s] /\ task[t].at = "select"
      BY <2>2 DEF BackfillSelect, NamesInv
    <3>2. m \subseteq DOMAIN links /\ \A l \in m : On(None, links[l].code) = {l}
      BY DEF Movable
    <3>3. s \in Start /\ StartOK(s) /\ s.moving = m
      BY <1>1, <3>1, <3>2 DEF Start, StartOK
    <3>4. NoDoubles(s)
      BY <3>2, <3>3 DEF NoDoubles, On
    <3> QED
      BY <3>1, <3>3, <3>4 DEF StartsWell
  <2> QED
    BY <2>1, <2>2
<1>3. UNCHANGED <<domains, links, made, request, deployed, operator>>
  BY DEF BackfillDefault, BackfillSelect
<1> QED
  BY <1>2, <1>3, StartingKeepsNames DEF NamesInv, TablesOK, Known

\* The UPDATE: what it moves was nobody else's on the domain, and twice in none of it.
LEMMA BackfillMoveKeepsNames ==
    ASSUME NamesInv, NEW t \in Tasks, BackfillMove(t)
    PROVE  NamesInv'
<1> DEFINE d == task[t].domain
           moving == {l \in task[t].moving \cap DOMAIN links : links[l].domain = None}
           fails == moving # {} /\ (~Known(d) \/ \E l \in moving : Taken(d, links[l].code))
<1>1. task[t] \in Start /\ NoDoubles(task[t]) /\ d \in Hosts
  BY DEF NamesInv, BackfillMove, StartOK
<1>2. UNCHANGED <<domains, made, request, operator>> /\ deployed \in BOOLEAN
  BY DEF NamesInv, BackfillMove
<1>3. CASE fails
  <2>1. task' = [task EXCEPT ![t] = Down] /\ UNCHANGED <<links, deployed>>
    BY <1>3 DEF BackfillMove, Crashes
  <2>2. StartsWell(Down)
    BY IdleIsTyped DEF StartsWell, NoDoubles
  <2> QED
    BY <1>2, <2>1, <2>2, StartingKeepsNames DEF NamesInv, TablesOK, Known
<1>4. CASE ~fails
  <2>1. /\ task' = [task EXCEPT ![t] = Up]
        /\ links' = [l \in DOMAIN links |->
                       IF l \in moving THEN [links[l] EXCEPT !.domain = d] ELSE links[l]]
        /\ deployed' \in BOOLEAN
    BY <1>2, <1>4 DEF BackfillMove
  <2>2. /\ DOMAIN links' = DOMAIN links
        /\ \A l \in DOMAIN links : links[l] \in Row
    BY <2>1 DEF NamesInv, TablesOK
  <2>3. \A l \in DOMAIN links :
           /\ links'[l] \in Row /\ links'[l].code = links[l].code
           /\ l \in moving => links[l].domain = None /\ links'[l].domain = d
           /\ l \notin moving => links'[l] = links[l]
    BY <1>1, <2>1, <2>2 DEF Row
  <2>4. \A l \in moving : Known(d) /\ ~Taken(d, links[l].code)
    BY <1>4
  <2>5. \A k, l \in moving : links[k].code = links[l].code => k = l
    BY <1>1 DEF NoDoubles
  <2> HIDE DEF moving
  <2>6. links' \in [DOMAIN links' -> Row]
    BY <2>1, <2>2, <2>3
  <2>7. CodesAreUnique'
    <3> SUFFICES ASSUME NEW k \in DOMAIN links, NEW l \in DOMAIN links, k # l,
                        links'[k].code = links'[l].code, links'[k].domain # None
                 PROVE  links'[k].domain # links'[l].domain
      BY <2>2 DEF CodesAreUnique
    <3>1. CASE k \in moving /\ l \in moving
      BY <2>3, <2>5, <3>1
    <3>2. CASE k \in moving /\ l \notin moving
      BY <2>3, <2>4, <3>2 DEF Taken, On
    <3>3. CASE k \notin moving /\ l \in moving
      BY <2>3, <2>4, <3>3 DEF Taken, On
    <3>4. CASE k \notin moving /\ l \notin moving
      BY <2>3, <3>4 DEF NamesInv, TablesOK, CodesAreUnique
    <3> QED
      BY <3>1, <3>2, <3>3, <3>4
  <2>8. LinksAreReachable'
    <3>1. \A l \in moving : l \in DOMAIN links => ~IsReserved(links[l].code, d)
      BY <2>3, RandomIsNotReserved DEF NamesInv, TablesOK
    <3> QED
      BY <2>2, <2>3, <3>1 DEF NamesInv, TablesOK, LinksAreReachable, IsReserved
  <2>9. (\A l \in DOMAIN links : links[l].domain = None \/ Known(links[l].domain))'
    BY <1>2, <2>2, <2>3, <2>4 DEF NamesInv, TablesOK, Known
  <2>10. (\A l \in DOMAIN links : links[l].domain = None => links[l].code \in LegacyCodes)'
    BY <1>1, <2>2, <2>3, ShortCodesAssumption DEF NamesInv, TablesOK
  <2>11. TablesOK'
    BY <1>2, <2>2, <2>6, <2>7, <2>8, <2>9, <2>10 DEF NamesInv, TablesOK
  <2>12. \A s : NoDoubles(s) => NoDoubles(s)'
    BY <1>1, <2>2, <2>3, ShortCodesAssumption DEF NoDoubles
  <2>13. \A u \in Tasks : task'[u] \in Start /\ StartOK(task'[u]) /\ NoDoubles(task'[u])
    BY <2>1, IdleIsTyped DEF NamesInv, NoDoubles
  <2>14. \A u \in Tasks : (StartOK(task[u]) /\ NoDoubles(task[u]))'
    BY <2>12, <2>13 DEF StartOK, NoDoubles
  <2>15. task' \in [Tasks -> Start]
    BY <2>1, <2>13 DEF NamesInv
  <2> QED
    BY <1>2, <2>1, <2>11, <2>14, <2>15 DEF NamesInv, AsksOK, IsReserved
<1> QED
  BY <1>3, <1>4

-----------------------------------------------------------------------------
(* The operator.                                                           *)

LEMMA OperatingKeepsNames ==
    ASSUME NamesInv, Operate
    PROVE  NamesInv'
<1>0. operator \in Command /\ TablesOK
  BY DEF NamesInv
<1>1. CASE (\E h \in Hosts : Promote(h) \/ Retire(h)) \/ RetireLinks
  <2>1. operator' \in Command
    <3>1. \A h \in Hosts : Promote(h) => operator' \in Command
      BY DEF Promote, Command, Defaults
    <3>2. \A h \in Hosts : Retire(h) => operator' \in Command
      BY DEF Retire, Command
    <3>3. RetireLinks => operator' \in Command
      BY <1>0 DEF RetireLinks, Command, TablesOK
    <3> QED
      BY <1>1, <3>1, <3>2, <3>3
  <2>2. UNCHANGED <<domains, links, made, request, task, deployed>>
    BY <1>1 DEF Promote, Retire, RetireLinks, OnlyOperator
  <2>3. TablesOK'
    BY <1>0, <2>2 DEF TablesOK, Known, CodesAreUnique, LinksAreReachable, IsReserved
  <2> QED
    BY <2>1, <2>2, <2>3 DEF NamesInv, StartOK, NoDoubles, AsksOK, IsReserved
<1>2. CASE CommitPromotion
  <2>1. /\ domains' = [h \in Hosts |-> IF h = operator.host THEN "default"
                                   ELSE IF h \in operator.seen THEN "plain" ELSE domains[h]]
        /\ operator' \in Command
        /\ UNCHANGED <<links, made, request, task, deployed>>
    BY <1>2, IdleIsTyped DEF CommitPromotion
  <2>2. /\ domains' \in [Hosts -> {"none", "plain", "default", "retired"}]
        /\ \A h \in Hosts : Known(h) => Known(h)'
    BY <1>0, <2>1 DEF TablesOK, Known
  <2>3. (\A l \in DOMAIN links : links[l].domain = None \/ Known(links[l].domain))'
    BY <1>0, <2>1, <2>2 DEF TablesOK, Row
  <2>4. TablesOK'
    BY <1>0, <2>1, <2>2, <2>3 DEF TablesOK, CodesAreUnique, LinksAreReachable, IsReserved
  <2> QED
    BY <2>1, <2>4 DEF NamesInv, StartOK, NoDoubles, AsksOK, IsReserved
<1>3. CASE CommitRetirement
  <2>1. operator' \in Command /\ UNCHANGED <<made, request, task, deployed>>
    BY <1>3, IdleIsTyped DEF CommitRetirement
  <2>2. CASE UNCHANGED <<domains, links>>
    <3>1. TablesOK'
      BY <1>0, <2>1, <2>2 DEF TablesOK, Known, CodesAreUnique, LinksAreReachable, IsReserved
    <3> QED
      BY <2>1, <2>2, <3>1 DEF NamesInv, StartOK, NoDoubles, AsksOK, IsReserved
  <2>3. CASE ~(UNCHANGED <<domains, links>>)
    <3>1. /\ \A l \in DOMAIN links \ operator.seen : links[l].domain # operator.host
          /\ domains' = [domains EXCEPT ![operator.host] = "retired"]
          /\ Without(operator.seen)
      BY <1>3, <2>3 DEF CommitRetirement
    <3>2. \A l \in DOMAIN links \ operator.seen :
             Known(links[l].domain) => Known(links[l].domain)'
      <4>1. DOMAIN links' = DOMAIN links \ operator.seen
            /\ \A l \in DOMAIN links' : links'[l] = links[l]
        BY <3>1 DEF Without
      <4>2. \A h : h # operator.host => domains'[h] = domains[h]
        BY <1>0, <3>1 DEF TablesOK
      <4> QED
        BY <3>1, <4>1, <4>2 DEF Known
    <3>3. domains' \in [Hosts -> {"none", "plain", "default", "retired"}]
      BY <1>0, <3>1 DEF TablesOK
    <3>4. TablesOK' /\ \A s : NoDoubles(s) => NoDoubles(s)'
      BY <1>0, <2>1, <3>1, <3>2, <3>3, FewerKeepTables
    <3>5. \A t \in Tasks : NoDoubles(task[t])'
      BY <2>1, <3>4 DEF NamesInv, NoDoubles
    <3> QED
      BY <2>1, <3>4, <3>5 DEF NamesInv, StartOK, AsksOK, IsReserved
  <2> QED
    BY <2>2, <2>3
<1> QED
  BY <1>1, <1>2, <1>3 DEF Operate

-----------------------------------------------------------------------------
LEMMA NamesInvStep ==
    ASSUME NamesInv, [Next]_vars
    PROVE  NamesInv'
<1>1. CASE UNCHANGED vars
  BY <1>1 DEF vars, NamesInv, TablesOK, Known, CodesAreUnique, LinksAreReachable, IsReserved,
              StartOK, NoDoubles, AsksOK
<1>2. ASSUME NEW t \in Tasks, StartUp(t) PROVE NamesInv'
  BY <1>2, SeedingKeepsNames, BackfillReadsKeepNames, BackfillMoveKeepsNames DEF StartUp
<1>3. ASSUME NEW r \in Requests, Request(r) PROVE NamesInv'
  <2>1. CASE Save(r)
    BY <2>1, SaveKeepsNames
  <2>2. CASE ~Save(r)
    BY <1>3, <2>2, CreatingAsks, ChoosingAsks, VisitingAsks, AskingKeepsNames DEF Request
  <2> QED
    BY <2>1, <2>2
<1> QED
  BY <1>1, <1>2, <1>3, DeletingKeepsNames, OperatingKeepsNames DEF Next, Step

\* The links a visit's address names, and the starts that were crossed, are of the right kind.
LEMMA WatchIsTyped ==
    ASSUME NamesInv, NamesInv', Next, named \in [Requests -> SUBSET Links]
    PROVE  (named \in [Requests -> SUBSET Links] /\ crossed \subseteq Tasks)'
<1>1. \A r \in Requests : Names(r)' \subseteq Links
  BY DEF Names, Named, On, NamesInv, TablesOK
<1> QED
  BY <1>1 DEF Next, Watch

THEOREM NamesAlways == Spec => []NamesInv
BY NamesInvInit, NamesInvStep, PTL DEF Spec

\* The rows of `domains` and `urls` are well typed: a link's domain is there, and no other link
\* has its code on it.
THEOREM ShortCodesTypeOK == Spec => []TypeOK
<1> DEFINE Watched == named \in [Requests -> SUBSET Links] /\ crossed \subseteq Tasks
<1>1. Init => Watched
  BY DEF Init
<1>2. NamesInv /\ NamesInv' /\ Watched /\ [Next]_vars => Watched'
  <2>1. CASE UNCHANGED vars
    BY <2>1 DEF vars
  <2> QED
    BY <2>1, WatchIsTyped
<1>3. NamesInv /\ Watched => TypeOK
  BY DEF NamesInv, TablesOK, TypeOK
<1> HIDE DEF Watched
<1> QED
  BY <1>1, <1>2, <1>3, NamesAlways, PTL DEF Spec

\* No link is where the app, or the API, answers in its place: not one with a suffix, not one
\* a start gives a domain, whatever the codes that are reserved, and the app's host.
THEOREM LinksCanBeReached == Spec => []LinksAreReachable
<1>1. NamesInv => LinksAreReachable
  BY DEF NamesInv, TablesOK
<1> QED
  BY <1>1, NamesAlways, PTL

-----------------------------------------------------------------------------
(* The default domain.                                                     *)

\* Before the service is deployed only DEFAULT_DOMAIN can be marked, and no operator runs;
\* from then on no task is about to mark it, and the operator is the only one who marks: what a
\* promotion saw marked still is, and what a retirement found unmarked still is not.
Seeding == {"hostname", "insert"}
DefaultInv ==
    /\ \A t \in Tasks : task[t].at \notin Seeding \cup {"down"} => Defaults # {}
    /\ ~deployed => Defaults \subseteq {DefaultDomain} /\ operator.command = "none"
    /\ deployed => /\ \E h \in Hosts : Defaults = {h}
                   /\ \A t \in Tasks : task[t].at \notin Seeding
    /\ operator.command = "promote" => operator.seen = Defaults /\ operator.host \in Hosts
    /\ operator.command \in {"retire", "deleting"} => operator.host \notin Defaults

LEMMA DefaultInvInit == Init => DefaultInv
<1> SUFFICES ASSUME Init PROVE DefaultInv
  OBVIOUS
<1>1. Defaults = IF deployed THEN {DefaultDomain} ELSE {}
  BY ShortCodesAssumption DEF Init, Defaults
<1>2. /\ \A t \in Tasks : task[t].at \in {"down", "up"}
      /\ ~deployed => \A t \in Tasks : task[t].at = "down"
  BY DEF Init, Down, Up
<1>3. operator.command = "none"
  BY DEF Init, AtRest
<1> QED
  BY <1>1, <1>2, <1>3, ShortCodesAssumption DEF DefaultInv, Seeding

\* A start that reads, or fails: nothing is marked or unmarked.
LEMMA StartingKeepsDefault ==
    ASSUME TypeOK, DefaultInv, NEW t \in Tasks, NEW s, task' = [task EXCEPT ![t] = s],
           UNCHANGED <<domains, operator, deployed>>,
           s.at \notin Seeding \cup {"down"} => Defaults # {},
           s.at \in Seeding => Defaults = {}
    PROVE  DefaultInv'
<1>1. \A u \in Tasks : task'[u] = IF u = t THEN s ELSE task[u]
  BY DEF TypeOK
<1>2. Defaults' = Defaults
  BY DEF Defaults
<1> QED
  BY <1>1, <1>2 DEF DefaultInv

\* A start that marks DEFAULT_DOMAIN: the service is not deployed yet.
LEMMA MarkingKeepsDefault ==
    ASSUME TypeOK, DefaultInv, NEW t \in Tasks, task[t].at \in Seeding,
           UNCHANGED <<operator, deployed>>,
           domains' = [domains EXCEPT ![DefaultDomain] = "default"]
    PROVE  DefaultInv'
<1>1. ~deployed /\ operator.command = "none"
  BY DEF DefaultInv
<1>2. Defaults' = {DefaultDomain}
  BY <1>1, ShortCodesAssumption DEF DefaultInv, Defaults, TypeOK
<1> QED
  BY <1>1, <1>2 DEF DefaultInv

LEMMA SeedingKeepsDefault ==
    ASSUME TypeOK, DefaultInv, NEW t \in Tasks, SeedDefault(t) \/ SeedHostname(t) \/ SeedInsert(t)
    PROVE  DefaultInv'
<1>0. task[t] \in Start /\ Down.at = "down"
  BY DEF TypeOK, Down
<1>1. CASE SeedDefault(t)
  <2>1. PICK at \in {"default", "hostname"} :
           /\ task' = [task EXCEPT ![t].at = at]
           /\ at = "default" => Defaults # {}
           /\ at = "hostname" => Defaults = {}
    BY <1>1 DEF SeedDefault, StartsUp
  <2> DEFINE s == [task[t] EXCEPT !.at = at]
  <2>2. s.at = at /\ task' = [task EXCEPT ![t] = s]
    BY <1>0, <2>1 DEF Start
  <2> QED
    BY <1>1, <2>1, <2>2, StartingKeepsDefault DEF SeedDefault, Seeding
<1>2. CASE SeedHostname(t)
  <2>1. CASE Known(DefaultDomain)
    BY <1>2, <2>1, MarkingKeepsDefault DEF SeedHostname, StartsUp, Seeding
  <2>2. CASE ~Known(DefaultDomain)
    <3> DEFINE s == [task[t] EXCEPT !.at = "insert"]
    <3>1. s.at = "insert" /\ task' = [task EXCEPT ![t] = s] /\ task[t].at = "hostname"
      BY <1>0, <1>2, <2>2 DEF Start, SeedHostname, StartsUp
    <3>2. Defaults = {}
      BY <2>2, <3>1 DEF DefaultInv, Known, Defaults, Seeding
    <3> QED
      BY <1>2, <2>2, <3>1, <3>2, StartingKeepsDefault DEF SeedHostname, Seeding
  <2> QED
    BY <2>1, <2>2
<1>3. CASE SeedInsert(t)
  <2>1. CASE Known(DefaultDomain)
    BY <1>0, <1>3, <2>1, StartingKeepsDefault DEF SeedInsert, Crashes, Seeding
  <2>2. CASE ~Known(DefaultDomain)
    BY <1>3, <2>2, MarkingKeepsDefault DEF SeedInsert, StartsUp, Seeding
  <2> QED
    BY <2>1, <2>2
<1> QED
  BY <1>1, <1>2, <1>3

LEMMA BackfillKeepsDefault ==
    ASSUME TypeOK, DefaultInv, NEW t \in Tasks,
           BackfillDefault(t) \/ BackfillSelect(t) \/ BackfillMove(t)
    PROVE  DefaultInv'
<1>0. task[t] \in Start /\ Down.at = "down" /\ Up.at = "up"
  BY DEF TypeOK, Down, Up
<1>1. CASE BackfillDefault(t)
  <2>1. PICK d \in Defaults : task' = [task EXCEPT ![t].at = "select", ![t].domain = d]
    BY <1>1 DEF BackfillDefault
  <2> DEFINE s == [task[t] EXCEPT !.at = "select", !.domain = d]
  <2>2. task' = [task EXCEPT ![t] = s] /\ s.at = "select"
    BY <1>0, <2>1 DEF TypeOK, Start
  <2> QED
    BY <1>1, <2>2, StartingKeepsDefault DEF BackfillDefault, Seeding
<1>2. CASE BackfillSelect(t)
  <2> DEFINE m == Movable(task[t].domain)
             s == [task[t] EXCEPT !.at = "move", !.moving = m]
  <2>1. task' = [task EXCEPT ![t] = s] /\ s.at = "move"
    BY <1>0, <1>2 DEF BackfillSelect, TypeOK, Start
  <2>2. Defaults # {}
    BY <1>2 DEF BackfillSelect, DefaultInv, Seeding
  <2> QED
    BY <1>2, <2>1, <2>2, StartingKeepsDefault DEF BackfillSelect, Seeding
<1>3. CASE BackfillMove(t)
  <2>1. Defaults # {} /\ Defaults' = Defaults /\ UNCHANGED <<domains, operator>>
    BY <1>3 DEF BackfillMove, DefaultInv, Seeding, Defaults
  <2>2. CASE task' = [task EXCEPT ![t] = Down] /\ UNCHANGED deployed
    BY <1>0, <2>1, <2>2, StartingKeepsDefault DEF Seeding
  <2>3. CASE /\ task' = [task EXCEPT ![t] = Up]
             /\ deployed' = (deployed \/ \A u \in Tasks \ {t} : task[u].at = "up")
    <3>1. CASE deployed' = deployed
      BY <1>0, <2>1, <2>3, <3>1, StartingKeepsDefault DEF Seeding
    <3>2. CASE ~deployed /\ deployed'
      <4>1. \A u \in Tasks : task'[u].at = "up"
        BY <1>0, <2>3, <3>2 DEF TypeOK
      <4>2. Defaults' = {DefaultDomain} /\ operator'.command = "none"
        BY <2>1, <3>2 DEF DefaultInv
      <4> QED
        BY <3>2, <4>1, <4>2, ShortCodesAssumption DEF DefaultInv, Seeding
    <3>3. deployed \in BOOLEAN /\ deployed' \in BOOLEAN /\ (deployed => deployed')
      BY <2>3 DEF TypeOK
    <3> QED
      BY <3>1, <3>2, <3>3
  <2> QED
    BY <1>3, <2>2, <2>3 DEF BackfillMove, Crashes
<1> QED
  BY <1>1, <1>2, <1>3

LEMMA OperatingKeepsDefault ==
    ASSUME TypeOK, DefaultInv, Operate
    PROVE  DefaultInv'
<1>0. operator \in Command /\ AtRest.command = "none"
  BY DEF TypeOK, AtRest
<1>1. ASSUME NEW h \in Hosts, Promote(h) PROVE DefaultInv'
  <2>1. Defaults' = Defaults /\ UNCHANGED <<task, deployed>> /\ deployed
    BY <1>1 DEF Promote, OnlyOperator, Defaults
  <2>2. operator'.command = "promote" /\ operator'.host = h /\ operator'.seen = Defaults
    BY <1>1 DEF Promote
  <2> QED
    BY <2>1, <2>2 DEF DefaultInv
<1>2. ASSUME NEW h \in Hosts, Retire(h) PROVE DefaultInv'
  <2>1. Defaults' = Defaults /\ UNCHANGED <<task, deployed>> /\ deployed
    BY <1>2 DEF Retire, OnlyOperator, Defaults
  <2>2. operator'.command = "retire" /\ operator'.host = h /\ h \notin Defaults
    BY <1>2 DEF Retire, Defaults
  <2> QED
    BY <2>1, <2>2 DEF DefaultInv
<1>3. CASE RetireLinks
  <2>1. Defaults' = Defaults /\ UNCHANGED <<task, deployed>>
    BY <1>3 DEF RetireLinks, OnlyOperator, Defaults
  <2>2. operator.command = "retire" /\ operator'.command = "deleting" /\ operator'.host = operator.host
    BY <1>0, <1>3 DEF RetireLinks, Command
  <2> QED
    BY <2>1, <2>2 DEF DefaultInv
<1>4. CASE CommitPromotion
  <2>1. operator.command = "promote" /\ operator'.command = "none" /\ UNCHANGED <<task, deployed>>
    BY <1>0, <1>4 DEF CommitPromotion
  <2>2. Defaults' = {operator.host}
    BY <1>4, <2>1 DEF CommitPromotion, DefaultInv, Defaults
  <2> QED
    BY <2>1, <2>2 DEF DefaultInv
<1>5. CASE CommitRetirement
  <2>1. operator.command = "deleting" /\ operator'.command = "none" /\ UNCHANGED <<task, deployed>>
    BY <1>0, <1>5 DEF CommitRetirement
  <2>2. Defaults' = Defaults
    BY <1>5, <2>1 DEF CommitRetirement, DefaultInv, Defaults, TypeOK
  <2> QED
    BY <2>1, <2>2 DEF DefaultInv
<1> QED
  BY <1>1, <1>2, <1>3, <1>4, <1>5 DEF Operate

LEMMA DefaultInvStep ==
    ASSUME TypeOK, DefaultInv, [Next]_vars
    PROVE  DefaultInv'
<1>1. CASE UNCHANGED <<domains, task, deployed, operator>>
  BY <1>1 DEF DefaultInv, Defaults
<1>2. ASSUME NEW r \in Requests, Request(r) PROVE UNCHANGED <<domains, task, deployed, operator>>
  BY <1>2 DEF Request, CreateRandom, Draw, CreateCustom, TryCustom, TrySuffix, GiveUp, Save,
              Visit, ReadDefault, Lookup, LookupLegacy, OnlyRequests
<1>3. ASSUME NEW t \in Tasks, StartUp(t) PROVE DefaultInv'
  BY <1>3, SeedingKeepsDefault, BackfillKeepsDefault DEF StartUp
<1> QED
  BY <1>1, <1>2, <1>3, OperatingKeepsDefault
     DEF Next, Step, vars, DeleteUrl, DeleteCampaign

\* What holds of the default domain, from the first task's start on.
THEOREM DefaultInvAlways == Spec => []DefaultInv
<1>1. TypeOK /\ DefaultInv /\ [Next]_vars => DefaultInv'
  BY DefaultInvStep
<1> QED
  BY <1>1, DefaultInvInit, ShortCodesTypeOK, PTL DEF Spec

\* "The app reads the default on every request, and never sees none or two"
\* (tools/domains.py:9), for any number of tasks that start at a time and one operator.
THEOREM OneDomainIsTheDefault == Spec => []OneDefault
<1>1. DefaultInv => OneDefault
  <2> SUFFICES ASSUME DefaultInv, deployed \/ Serving PROVE Cardinality(Defaults) = 1
    BY DEF OneDefault
  <2>1. PICK h : Defaults = {h}
    <3>1. CASE deployed
      BY <3>1 DEF DefaultInv
    <3>2. CASE ~deployed
      BY <3>2 DEF DefaultInv, Serving, Seeding
    <3> QED
      BY <3>1, <3>2
  <2> QED
    BY <2>1, FS_Singleton
<1> QED
  BY <1>1, DefaultInvAlways, PTL
-----------------------------------------------------------------------------
(* Starts that fail.                                                       *)

\* Of a start nobody wrote around: DEFAULT_DOMAIN's row is still missing when it is about to
\* insert it, the domain it binds links to is still there, and none of the links it has chosen
\* has found another one in its way.
Undisturbed(t) ==
    LET s == task[t]
    IN  /\ s.at = "insert" => ~Known(DefaultDomain)
        /\ s.at \in {"select", "move"} => Known(s.domain)
        /\ s.at = "move" => \A l \in s.moving \cap DOMAIN links :
                               links[l].domain = None => ~Taken(s.domain, links[l].code)

CrossedInv == \A t \in Tasks : t \in crossed \/ Undisturbed(t)

\* Whoever steps leaves the starts of the other tasks where they are.
OthersStay(t) == \A u \in Tasks \ {t} : task'[u] = task[u]

LEMMA StartUpIsAlone ==
    ASSUME TypeOK, NEW t \in Tasks, StartUp(t)
    PROVE  OthersStay(t)
BY DEF StartUp, SeedDefault, SeedHostname, SeedInsert, StartsUp, Crashes, BackfillDefault,
       BackfillSelect, BackfillMove, TypeOK, OthersStay

LEMMA OthersDoNotStart ==
    ASSUME Step, \A t \in Tasks : ~StartUp(t)
    PROVE  task' = task
BY DEF Step, Request, CreateRandom, Draw, CreateCustom, TryCustom, TrySuffix, GiveUp, Save,
       Visit, ReadDefault, Lookup, LookupLegacy, OnlyRequests, Operate, Promote, Retire,
       CommitPromotion, RetireLinks, CommitRetirement, OnlyOperator, DeleteUrl, DeleteCampaign

\* A start that does not step: it is as undisturbed as it was, or crossed from now on.
LEMMA StayingKeepsUndisturbed ==
    ASSUME CrossedInv, Watch, NEW t \in Tasks, task'[t] = task[t]
    PROVE  (t \in crossed \/ Undisturbed(t))'
<1>1. CASE t \in crossed'
  BY <1>1
<1>2. CASE ~Starting(t)
  BY <1>2 DEF Starting, Undisturbed
<1>3. CASE Starting(t) /\ t \notin crossed'
  <2>1. t \notin crossed /\ UNCHANGED <<domains, links>>
    BY <1>3 DEF Watch, Starting, WrittenAround
  <2> QED
    BY <2>1 DEF CrossedInv, Undisturbed, Known, Taken, On
<1> QED
  BY <1>1, <1>2, <1>3

\* A step of the start itself: what it goes on with it has just read.
LEMMA StartingKeepsUndisturbed ==
    ASSUME TypeOK, CrossedInv, Watch, NEW t \in Tasks, StartUp(t)
    PROVE  (t \in crossed \/ Undisturbed(t))'
<1>0. task[t] \in Start /\ task \in [Tasks -> Start] /\ Down.at = "down" /\ Up.at = "up"
  BY DEF TypeOK, Down, Up
<1>1. CASE t \in crossed'
  BY <1>1
<1>2. CASE SeedDefault(t)
  <2>1. task'[t].at \in {"default", "hostname"}
    BY <1>0, <1>2 DEF SeedDefault, StartsUp, Start
  <2> QED
    BY <2>1 DEF Undisturbed
<1>3. CASE SeedHostname(t)
  <2>1. CASE Known(DefaultDomain)
    <3>1. task'[t].at = "default"
      BY <1>0, <1>3, <2>1 DEF SeedHostname, StartsUp, Start
    <3> QED
      BY <3>1 DEF Undisturbed
  <2>2. CASE ~Known(DefaultDomain)
    <3>1. task'[t].at = "insert" /\ domains' = domains
      BY <1>0, <1>3, <2>2 DEF SeedHostname, StartsUp, Start
    <3> QED
      BY <2>2, <3>1 DEF Undisturbed, Known
  <2> QED
    BY <2>1, <2>2
<1>4. CASE SeedInsert(t)
  <2>1. task'[t].at \in {"down", "default"}
    BY <1>0, <1>4 DEF SeedInsert, StartsUp, Crashes, Start
  <2> QED
    BY <2>1 DEF Undisturbed
<1>5. CASE BackfillDefault(t)
  <2>1. PICK d \in Defaults : task' = [task EXCEPT ![t].at = "select", ![t].domain = d]
    BY <1>5 DEF BackfillDefault
  <2>2. task'[t].at = "select" /\ task'[t].domain = d /\ Known(d) /\ domains' = domains
    BY <1>0, <1>5, <2>1 DEF Start, Defaults, Known, BackfillDefault
  <2> QED
    BY <2>2 DEF Undisturbed, Known
<1>6. CASE BackfillSelect(t) /\ t \notin crossed'
  <2>1. /\ task[t].at = "select" /\ task'[t].at = "move" /\ task'[t].domain = task[t].domain
        /\ task'[t].moving = Movable(task[t].domain) /\ UNCHANGED <<domains, links>>
    BY <1>0, <1>6 DEF BackfillSelect, Start
  <2>2. t \notin crossed
    BY <1>6, <2>1 DEF Watch, Starting
  <2>3. Known(task[t].domain)
    BY <2>1, <2>2 DEF CrossedInv, Undisturbed
  <2> QED
    BY <2>1, <2>3 DEF Undisturbed, Known, Movable, Taken, On
<1>7. CASE BackfillMove(t)
  <2>1. task'[t].at \in {"down", "up"}
    BY <1>0, <1>7 DEF BackfillMove, Crashes, Start
  <2> QED
    BY <2>1 DEF Undisturbed
<1> QED
  BY <1>1, <1>2, <1>3, <1>4, <1>5, <1>6, <1>7 DEF StartUp

LEMMA CrossedInvStep ==
    ASSUME TypeOK, CrossedInv, [Next]_vars
    PROVE  CrossedInv'
<1>1. CASE UNCHANGED vars
  BY <1>1 DEF vars, CrossedInv, Undisturbed, Known, Taken, On
<1>2. CASE Next
  <2> SUFFICES ASSUME NEW t \in Tasks PROVE (t \in crossed \/ Undisturbed(t))'
    BY DEF CrossedInv
  <2>1. Step /\ Watch
    BY <1>2 DEF Next
  <2>2. CASE StartUp(t)
    BY <2>1, <2>2, StartingKeepsUndisturbed
  <2>3. CASE ~StartUp(t)
    <3>1. task'[t] = task[t]
      BY <2>1, <2>3, StartUpIsAlone, OthersDoNotStart DEF OthersStay
    <3> QED
      BY <2>1, <3>1, StayingKeepsUndisturbed
  <2> QED
    BY <2>2, <2>3
<1> QED
  BY <1>1, <1>2

\* A start that fails was crossed: one that nobody wrote around finds no row it is about to
\* insert, and no link in the way of those it chose.
LEMMA OnlyCrossedStartsFail ==
    ASSUME TypeOK, CrossedInv, [Next]_vars, NEW t \in Tasks, Starting(t), task'[t].at = "down"
    PROVE  t \in crossed
<1>0. task[t] \in Start /\ task \in [Tasks -> Start] /\ Up.at = "up"
  BY DEF TypeOK, Up
<1>1. task'[t] # task[t]
  BY DEF Starting
<1>2. StartUp(t)
  BY <1>1, StartUpIsAlone, OthersDoNotStart DEF Next, vars, OthersStay
<1>3. SUFFICES ASSUME Undisturbed(t) PROVE FALSE
  BY DEF CrossedInv
<1>4. CASE SeedInsert(t)
  <2>1. task[t].at = "insert"
    BY <1>4 DEF SeedInsert
  <2>2. task'[t].at = "default"
    BY <1>0, <1>3, <1>4, <2>1 DEF Undisturbed, SeedInsert, StartsUp, Start
  <2> QED
    BY <2>2
<1>5. CASE BackfillMove(t)
  <2>1. /\ task[t].at = "move" /\ Known(task[t].domain)
        /\ \A l \in task[t].moving \cap DOMAIN links :
              links[l].domain = None => ~Taken(task[t].domain, links[l].code)
    BY <1>3, <1>5 DEF Undisturbed, BackfillMove
  <2>2. task' = [task EXCEPT ![t] = Up]
    BY <1>5, <2>1 DEF BackfillMove
  <2> QED
    BY <1>0, <2>2
<1>6. CASE SeedDefault(t) \/ SeedHostname(t) \/ BackfillDefault(t) \/ BackfillSelect(t)
  <2>1. task'[t].at \in {"default", "hostname", "insert", "select", "move"}
    BY <1>0, <1>6 DEF SeedDefault, SeedHostname, StartsUp, BackfillDefault, BackfillSelect, Start
  <2> QED
    BY <2>1
<1> QED
  BY <1>2, <1>4, <1>5, <1>6 DEF StartUp

\* Whatever links and domains there are, and however many tasks start at a time: a task fails to
\* start (main.py:228) only when somebody wrote around it.
THEOREM StartsFailOfCrossings == Spec => FailuresAreCrossings
<1>1. Init => CrossedInv
  BY DEF Init, CrossedInv, Undisturbed, Down, Up
<1>2. TypeOK /\ CrossedInv /\ [Next]_vars => CrossedInv'
  BY CrossedInvStep
<1>3. TypeOK /\ CrossedInv /\ [Next]_vars =>
        [\A t \in Tasks : Starting(t) /\ task'[t].at = "down" => t \in crossed]_vars
  BY OnlyCrossedStartsFail
<1> QED
  BY <1>1, <1>2, <1>3, ShortCodesTypeOK, PTL DEF Spec, FailuresAreCrossings

-----------------------------------------------------------------------------
(* Visits.                                                                 *)

\* A link on a domain keeps its code there for as long as it is.
KeepTheirPlace ==
    \A l \in Links : /\ l \in DOMAIN links /\ links[l].domain # None
                     /\ l \in DOMAIN links'
                     => links'[l].domain = links[l].domain /\ links'[l].code = links[l].code

\* What a visit's address has named throughout: what the default has under its code, as long as
\* its host has no domain; then what the domain it has read has; then, nothing; and then what
\* it found.
VisitOK(r) ==
    LET q == request[r]
    IN  /\ q.at = "default" => /\ named[r] \subseteq Names(r)
                               /\ named[r] # {} => ~Known(q.host)
        /\ q.at = "lookup" => q.domain \in Hosts /\ named[r] \subseteq On(q.domain, q.code)
        /\ q.at = "legacy" => named[r] = {}
        /\ q.at = "answered" => named[r] = {} \/ q.found \in named[r]

VisitInv == \A r \in Requests : VisitOK(r)

LEMMA LinksKeepTheirPlace ==
    ASSUME TypeOK, [Next]_vars
    PROVE  KeepTheirPlace
<1>1. CASE links' = links
  BY <1>1 DEF KeepTheirPlace
<1>2. ASSUME NEW gone, Without(gone) PROVE KeepTheirPlace
  BY <1>2 DEF Without, KeepTheirPlace
<1>3. ASSUME NEW t \in Tasks, BackfillMove(t), links' # links PROVE KeepTheirPlace
  <2>1. PICK moving \in SUBSET DOMAIN links, d \in {task[t].domain} :
           /\ \A l \in moving : links[l].domain = None
           /\ links' = [l \in DOMAIN links |->
                          IF l \in moving THEN [links[l] EXCEPT !.domain = d] ELSE links[l]]
    BY <1>3 DEF BackfillMove
  <2> QED
    BY <2>1 DEF KeepTheirPlace
<1>4. ASSUME NEW r \in Requests, Save(r), links' # links PROVE KeepTheirPlace
  <2>1. PICK new \in SUBSET (Links \ made) :
           /\ DOMAIN links' = DOMAIN links \cup new
           /\ \A l \in DOMAIN links \ new : links'[l] = links[l]
    BY <1>4 DEF Save
  <2> QED
    BY <2>1 DEF TypeOK, KeepTheirPlace
<1>5. ASSUME NEW t \in Tasks, StartUp(t) PROVE KeepTheirPlace
  BY <1>1, <1>3, <1>5 DEF StartUp, SeedDefault, SeedHostname, SeedInsert, BackfillDefault,
                          BackfillSelect
<1>6. ASSUME NEW r \in Requests, Request(r) PROVE KeepTheirPlace
  BY <1>1, <1>4, <1>6 DEF Request, CreateRandom, Draw, CreateCustom, TryCustom, TrySuffix, GiveUp,
                          Visit, ReadDefault, Lookup, LookupLegacy, OnlyRequests
<1>7. CASE Operate
  BY <1>1, <1>2, <1>7 DEF Operate, Promote, Retire, CommitPromotion, RetireLinks,
                          CommitRetirement, OnlyOperator
<1> QED
  BY <1>1, <1>2, <1>5, <1>6, <1>7 DEF Next, Step, vars, DeleteUrl, DeleteCampaign

\* A visit that does not step, whatever the others write.
LEMMA WaitingKeepsVisit ==
    ASSUME TypeOK, KeepTheirPlace, Watch, NEW r \in Requests, VisitOK(r), request'[r] = request[r]
    PROVE  VisitOK(r)'
<1> DEFINE q == request[r]
<1>0. q \in Pending /\ named[r] \in SUBSET Links
  BY DEF TypeOK
<1>1. CASE q.at = "default"
  <2>1. named'[r] = named[r] \cap Names(r)'
    BY <1>1 DEF Watch, OnItsWay
  <2>2. SUFFICES ASSUME NEW l \in named[r], l \in Names(r)' PROVE ~Known(q.host)'
    BY <1>1, <2>1 DEF VisitOK
  <2>3. ~Known(q.host) /\ l \in Names(r)
    BY <1>1, <2>2 DEF VisitOK
  <2>4. PICK d \in Defaults : l \in On(d, q.code)
    BY <2>3 DEF Names, Named, ServedBy
  <2>5. d \in Hosts /\ Known(d) /\ d # None /\ d # q.host
    BY <2>3, <2>4, ShortCodesAssumption DEF Defaults, Known
  <2>6. \A e : l \in On(e, q.code)' => e = d
    BY <1>0, <2>2, <2>4, <2>5 DEF KeepTheirPlace, On
  <2>7. CASE Known(q.host)'
    <3>1. l \in On(q.host, q.code)'
      BY <2>2, <2>7 DEF Names, Named, ServedBy
    <3> QED
      BY <2>5, <2>6, <3>1
  <2> QED
    BY <2>7
<1>2. CASE q.at = "lookup"
  <2>1. named'[r] = named[r] \cap Names(r)'
    BY <1>2 DEF Watch, OnItsWay
  <2>2. q.domain \in Hosts /\ q.domain # None /\ named[r] \subseteq On(q.domain, q.code)
    BY <1>2, ShortCodesAssumption DEF VisitOK
  <2>3. \A l \in Names(r)' : l \in DOMAIN links'
    BY DEF Names, Named, On
  <2>4. named'[r] \subseteq On(q.domain, q.code)'
    BY <1>0, <2>1, <2>2, <2>3 DEF KeepTheirPlace, On
  <2> QED
    BY <1>2, <2>2, <2>4 DEF VisitOK
<1>3. CASE q.at = "legacy"
  BY <1>3 DEF VisitOK, Watch, OnItsWay
<1>4. CASE q.at = "answered"
  BY <1>4 DEF VisitOK, Watch, OnItsWay
<1>5. CASE q.at \notin {"default", "lookup", "legacy", "answered"}
  BY <1>5 DEF VisitOK
<1> QED
  BY <1>1, <1>2, <1>3, <1>4, <1>5

\* A request that goes on to make a link, or gives up: no visit.
LEMMA MakingIsNoVisit ==
    ASSUME TypeOK, NEW r \in Requests,
           \/ \E rows \in 1 .. MaxRows : CreateRandom(r, rows)
           \/ \E c \in Codes : Draw(r, c) \/ CreateCustom(r, c) \/ TrySuffix(r, c)
           \/ TryCustom(r) \/ GiveUp(r) \/ Save(r)
    PROVE  VisitOK(r)'
<1>0. request[r] \in Pending /\ Idle \in Pending /\ Idle.at = "idle"
  BY IdleIsTyped DEF TypeOK, Idle
<1>1. request'[r].at \in {"idle", "draw", "custom", "suffix", "save"}
  <2>1. ASSUME NEW rows \in 1 .. MaxRows, CreateRandom(r, rows) PROVE request'[r].at = "draw"
    BY <1>0, <2>1 DEF CreateRandom, Goes, TypeOK, Idle
  <2>2. ASSUME NEW c \in Codes, Draw(r, c) PROVE request'[r].at \in {"draw", "save"}
    BY <1>0, <2>2 DEF Draw, Goes, TypeOK, Pending
  <2>3. ASSUME NEW c \in Codes, CreateCustom(r, c) \/ TrySuffix(r, c)
        PROVE request'[r].at \in {"custom", "save"}
    <3> DEFINE asked(d) == [Idle EXCEPT !.at = "custom", !.kind = "link", !.domain = d, !.code = c]
               suffixed == [request[r] EXCEPT !.at = "save", !.codes = {c}, !.code = None]
    <3>1. suffixed.at = "save" /\ \A d : asked(d).at = "custom"
      BY <1>0 DEF Pending, Idle
    <3>2. request'[r] = suffixed \/ \E d : request'[r] = asked(d)
      BY <2>3 DEF CreateCustom, TrySuffix, Goes, TypeOK
    <3> HIDE DEF asked, suffixed
    <3> QED
      BY <3>1, <3>2
  <2>4. CASE TryCustom(r)
    <3> DEFINE suffix == [request[r] EXCEPT !.at = "suffix"]
               save == [request[r] EXCEPT !.at = "save", !.codes = {request[r].code}, !.code = None]
    <3>1. suffix.at = "suffix" /\ save.at = "save"
      BY <1>0 DEF Pending
    <3>2. request'[r] \in {suffix, save}
      BY <2>4 DEF TryCustom, Goes, TypeOK
    <3> HIDE DEF suffix, save
    <3> QED
      BY <3>1, <3>2
  <2>5. CASE GiveUp(r) \/ Save(r)
    BY <1>0, <2>5 DEF GiveUp, Save, Goes, TypeOK
  <2> QED
    BY <2>1, <2>2, <2>3, <2>4, <2>5
<1> QED
  BY <1>1 DEF VisitOK

LEMMA VisitingKeepsVisit ==
    ASSUME TypeOK, DefaultInv, Watch, NEW r \in Requests, VisitOK(r),
           \/ \E h \in Hosts, c \in VisitedCodes : Visit(r, h, c)
           \/ ReadDefault(r) \/ Lookup(r) \/ LookupLegacy(r)
    PROVE  VisitOK(r)'
<1> DEFINE q == request[r]
<1>0. q \in Pending /\ request \in [Requests -> Pending] /\ named[r] \in SUBSET Links
  BY DEF TypeOK
<1>1. UNCHANGED <<domains, links>>
  BY DEF Visit, ReadDefault, Lookup, LookupLegacy, OnlyRequests
<1>2. \A h, c : Named(h, c)' = Named(h, c) /\ On(h, c)' = On(h, c) /\ Known(h)' = Known(h)
  BY <1>1 DEF Named, ServedBy, Defaults, Known, On
<1>3. ASSUME NEW h \in Hosts, NEW c \in VisitedCodes, Visit(r, h, c) PROVE VisitOK(r)'
  <2>1. /\ ~OnItsWay(r) /\ request'[r].host = h /\ request'[r].code = c
        /\ \/ ~Known(h) /\ request'[r].at = "default"
           \/ Known(h) /\ request'[r].at = "lookup" /\ request'[r].domain = h
    <3> DEFINE p == [Idle EXCEPT !.kind = "visit", !.host = h, !.code = c]
               known == [p EXCEPT !.at = "lookup", !.domain = h]
               other == [p EXCEPT !.at = "default"]
    <3>1. /\ known.host = h /\ known.code = c /\ known.at = "lookup" /\ known.domain = h
          /\ other.host = h /\ other.code = c /\ other.at = "default"
      BY DEF Idle
    <3>2. request'[r] = IF Known(h) THEN known ELSE other
      BY <1>0, <1>3 DEF Visit, Goes
    <3>3. ~OnItsWay(r)
      BY <1>3 DEF Visit, IsFree, OnItsWay
    <3> HIDE DEF known, other
    <3> QED
      BY <3>1, <3>2, <3>3
  <2>2. named'[r] = Named(h, c)
    BY <1>2, <2>1 DEF Watch, OnItsWay, Names
  <2>3. Known(h) => Named(h, c) = On(h, c)
    BY DEF Named, ServedBy
  <2>4. Names(r)' = Named(h, c)
    BY <1>2, <2>1 DEF Names
  <2> QED
    BY <1>2, <2>1, <2>2, <2>3, <2>4 DEF VisitOK
<1>4. CASE ReadDefault(r)
  <2>1. PICK d \in Defaults :
           /\ q.at = "default" /\ request'[r].at = "lookup" /\ request'[r].domain = d
           /\ request'[r].code = q.code /\ request'[r].host = q.host
    <3>1. PICK d \in Defaults : Goes(r, [q EXCEPT !.at = "lookup", !.domain = d])
      BY <1>4 DEF ReadDefault
    <3>2. q.at = "default" /\ request'[r] = [q EXCEPT !.at = "lookup", !.domain = d]
      BY <1>0, <1>4, <3>1 DEF ReadDefault, Goes
    <3>3. /\ request'[r].at = "lookup" /\ request'[r].domain = d
          /\ request'[r].code = q.code /\ request'[r].host = q.host
      BY <1>0, <3>2 DEF Pending
    <3> QED
      BY <3>2, <3>3
  <2>2. Defaults = {d} /\ d \in Hosts
    BY <2>1 DEF DefaultInv, Defaults
  <2>3. named'[r] \subseteq named[r]
    BY <2>1 DEF Watch, OnItsWay
  <2>4. named[r] \subseteq Named(q.host, q.code) /\ (named[r] # {} => ~Known(q.host))
    BY <2>1 DEF VisitOK, Names
  <2>5. ~Known(q.host) => Named(q.host, q.code) = On(d, q.code)
    BY <2>2 DEF Named, ServedBy
  <2>6. named'[r] \subseteq On(d, q.code)
    BY <2>3, <2>4, <2>5
  <2> QED
    BY <1>2, <2>1, <2>2, <2>6 DEF VisitOK
<1>5. CASE Lookup(r)
  <2>1. /\ q.at = "lookup" /\ q.domain \in Hosts /\ q.domain # None
        /\ named[r] \subseteq On(q.domain, q.code)
    BY <1>5, ShortCodesAssumption DEF Lookup, VisitOK
  <2>2. ASSUME NEW l \in On(q.domain, q.code), Answers(r, l) PROVE VisitOK(r)'
    <3>1. request'[r].at = "answered" /\ request'[r].found = l
      BY <1>0, <2>2 DEF Answers, Goes, Idle
    <3>2. named'[r] = named[r]
      BY <3>1 DEF Watch, OnItsWay
    <3>3. \A k \in named[r] : k = l
      BY <2>1, <2>2 DEF TypeOK, CodesAreUnique, On
    <3> QED
      BY <3>1, <3>2, <3>3 DEF VisitOK
  <2>3. CASE On(q.domain, q.code) = {} /\ Goes(r, [q EXCEPT !.at = "legacy"])
    <3>1. request'[r].at = "legacy"
      BY <1>0, <2>3 DEF Goes, Pending
    <3>2. named'[r] = {}
      BY <2>1, <2>3, <3>1 DEF Watch, OnItsWay
    <3> QED
      BY <3>1, <3>2 DEF VisitOK
  <2> QED
    BY <1>5, <2>2, <2>3 DEF Lookup
<1>6. CASE LookupLegacy(r)
  <2>1. named[r] = {} /\ request'[r].at = "answered"
    BY <1>0, <1>6 DEF LookupLegacy, VisitOK, Answers, Goes, Idle
  <2>2. named'[r] = {}
    BY <2>1 DEF Watch, OnItsWay
  <2> QED
    BY <2>1, <2>2 DEF VisitOK
<1> QED
  BY <1>3, <1>4, <1>5, <1>6

LEMMA OthersDoNotAsk ==
    ASSUME TypeOK, Step, NEW r \in Requests, ~Request(r)
    PROVE  request'[r] = request[r]
<1>1. ASSUME NEW u \in Requests, Request(u) PROVE \E q : Goes(u, q)
  BY <1>1 DEF Request, CreateRandom, Draw, CreateCustom, TryCustom, TrySuffix, GiveUp, Save,
              Visit, ReadDefault, Lookup, LookupLegacy, Answers
<1>2. CASE \E u \in Requests : Request(u)
  BY <1>1, <1>2 DEF Goes, TypeOK
<1>3. CASE request' = request
  BY <1>3
<1> QED
  BY <1>2, <1>3
     DEF Step, StartUp, SeedDefault, SeedHostname, SeedInsert, BackfillDefault, BackfillSelect,
         BackfillMove, Operate, Promote, Retire, CommitPromotion, RetireLinks, CommitRetirement,
         OnlyOperator, DeleteUrl, DeleteCampaign

LEMMA VisitInvStep ==
    ASSUME TypeOK, DefaultInv, VisitInv, [Next]_vars
    PROVE  VisitInv'
<1>1. CASE UNCHANGED vars
  BY <1>1 DEF vars, VisitInv, VisitOK, Names, Named, ServedBy, Defaults, Known, On
<1>2. CASE Next
  <2> SUFFICES ASSUME NEW r \in Requests PROVE VisitOK(r)'
    BY DEF VisitInv
  <2>1. Step /\ Watch /\ VisitOK(r) /\ KeepTheirPlace
    BY <1>2, LinksKeepTheirPlace DEF Next, VisitInv
  <2>2. CASE Request(r)
    BY <2>1, <2>2, MakingIsNoVisit, VisitingKeepsVisit DEF Request
  <2>3. CASE ~Request(r)
    BY <2>1, <2>3, OthersDoNotAsk, WaitingKeepsVisit
  <2> QED
    BY <2>2, <2>3
<1> QED
  BY <1>1, <1>2

\* A visit whose address names a link throughout finds it, for any number of visits, tasks and
\* requests that write around it, and an operator who promotes and retires domains.
THEOREM VisitsFind == Spec => []VisitsFindTheirLink
<1>1. Init => VisitInv
  BY DEF Init, VisitInv, VisitOK, Idle
<1>2. TypeOK /\ DefaultInv /\ VisitInv /\ [Next]_vars => VisitInv'
  BY VisitInvStep
<1>3. VisitInv => VisitsFindTheirLink
  BY DEF VisitInv, VisitOK, VisitsFindTheirLink
<1> QED
  BY <1>1, <1>2, <1>3, ShortCodesTypeOK, DefaultInvAlways, PTL DEF Spec
=============================================================================
