------------------------- MODULE ServiceTokensProofs -------------------------
(***************************************************************************)
(* Theorems of ServiceTokens, for any number of accounts, tokens and       *)
(* threads, any expiries, and any overlap longer than twice what a request *)
(* may take.                                                               *)
(***************************************************************************)
EXTENDS ServiceTokens, TLAPS

\* A request under way is recent, and about an account that was made.
InTime(t) ==
    request[t].step # "idle" =>
        /\ request[t].now <= clock /\ clock <= request[t].now + Patience
        /\ request[t].account \in Accounts /\ account[request[t].account] # "none"
        /\ request[t].answer = "none"

\* The tokens a request knows of are its account's.
Known(t) ==
    /\ request[t].step \in {"tokens", "write"} => request[t].known \subseteq Made(request[t].account)
    /\ request[t].step = "write" =>
          request[t].active \cup request[t].old \subseteq Made(request[t].account)

OldOnesAreReplaced(t) ==
    request[t].step = "write" => \A x \in request[t].old : replaced[x] # None

Renews(t) == request[t].step = "write" /\ request[t].op = "issue"

\* A token that a renewal under way saw active was replaced, if at all, lately.
RecentlyReplaced(t) ==
    Renews(t) => \A x \in request[t].active :
                    replaced[x] # None => replaced[x] + Patience >= request[t].now

\* A thread's renewal saw the tokens of the account that the thread made before.
SeesItsOwn(t) ==
    Renews(t) => \A x \in Tokens :
        (/\ maker[x] = t /\ of[x] = request[t].account
         /\ replaced[x] = None /\ x \notin revoked /\ ~Expired(x, clock))
            => x \in request[t].active

\* Over for good: past its overlap, with no renewal about to start another.
IsOver(x) ==
    \/ x \in revoked
    \/ Expired(x, clock)
    \/ PastOverlap(x, clock) /\ \A u \in Threads : Renews(u) => x \notin request[u].active

\* What a revocation didn't see live is over for good.
OthersAreOver(t) ==
    (request[t].step = "write" /\ request[t].op \in {"revoke", "remove"}) =>
        \A x \in request[t].known : x \in request[t].active \cup request[t].old \/ IsOver(x)

\* The account a service's request still has to read was open when it came, if it is now.
Remembers(t) ==
    /\ (request[t].step = "account" /\ account[request[t].account] = "open") => request[t].wasOpen
    /\ (request[t].op = "use" /\ request[t].answer = "ok") => request[t].wasOpen

Sound(t) ==
    /\ InTime(t)
    /\ Known(t)
    /\ OldOnesAreReplaced(t)
    /\ RecentlyReplaced(t)
    /\ SeesItsOwn(t)
    /\ OthersAreOver(t)
    /\ Remembers(t)

\* A token's account was made.
RowsHaveAnAccount == \A x \in Tokens : of[x] # None => account[of[x]] # "none"

TokensInv ==
    /\ TypeOK
    /\ RowsHaveAnAccount
    /\ \A t \in Threads : Sound(t)
    /\ OneActivePerThread

-----------------------------------------------------------------------------
LEMMA NoRequestType == NoRequest \in Request /\ NoRequest.step = "idle"
  BY ServiceTokensAssumption DEF NoRequest, Request, Time

LEMMA ValidityTypes ==
    ASSUME TypeOK, NEW x \in Tokens
    PROVE  /\ replaced[x] # None => replaced[x] \in Nat
           /\ expires[x] # None => expires[x] \in Nat
  <1>1. replaced[x] \in Time \cup {None} /\ expires[x] \in Expiries \cup {None}  BY DEF TypeOK
  <1>2. Time \subseteq Nat  BY ServiceTokensAssumption DEF Time
  <1>3. Expiries \subseteq Nat  BY ServiceTokensAssumption
  <1> QED  BY <1>1, <1>2, <1>3

-----------------------------------------------------------------------------
\* Type correctness.
LEMMA TypeInit == Init => TypeOK
  <1> SUFFICES ASSUME Init PROVE TypeOK  OBVIOUS
  <1>1. request \in [Threads -> Request]  BY NoRequestType DEF Init
  <1>2. clock \in Time /\ requests \in 0 .. MaxRequests
    BY ServiceTokensAssumption DEF Init, Time
  <1>3. account \in [Accounts -> {"none", "open", "closed"}]  BY DEF Init
  <1>4. /\ of \in [Tokens -> Accounts \cup {None}]
        /\ expires \in [Tokens -> Expiries \cup {None}]
        /\ replaced \in [Tokens -> Time \cup {None}]
        /\ maker \in [Tokens -> Threads \cup {None}]
        /\ \A x \in Tokens : maker[x] # None <=> of[x] # None
        /\ revoked \subseteq {x \in Tokens : of[x] # None}
    BY DEF Init
  <1> QED  BY <1>1, <1>2, <1>3, <1>4 DEF TypeOK

LEMMA AnswerTypes ==
    ASSUME TypeOK, NEW t \in Threads, NEW r \in Request, NEW answer \in {"ok", "refused"},
           Answers(t, r, answer)
    PROVE  /\ request' \in [Threads -> Request]
           /\ request'[t] = [r EXCEPT !.step = "idle", !.answer = answer]
  <1>1. [r EXCEPT !.step = "idle", !.answer = answer] \in Request  BY DEF Request
  <1> QED  BY <1>1 DEF Answers, TypeOK

LEMMA ReceiveTypes ==
    ASSUME TypeOK, NEW t \in Threads, NEW op \in {"issue", "revoke", "revoke_old", "remove"},
           NEW a \in Accounts, NEW e \in Expiries \cup {None}, Receive(t, op, a, e)
    PROVE  TypeOK'
  <1> DEFINE r == [NoRequest EXCEPT !.op = op, !.account = a, !.expires = e, !.now = clock,
                                    !.known = Made(a)]
             q == [r EXCEPT !.step = "tokens"]
  <1>1. r \in Request /\ q \in Request  BY NoRequestType DEF Request, TypeOK, Made
  <1>2. \/ Answers(t, r, "refused")
        \/ request' = [request EXCEPT ![t] = q]
    BY DEF Receive
  <1> HIDE DEF r, q
  <1>3. request' \in [Threads -> Request]  BY <1>1, <1>2, AnswerTypes DEF TypeOK
  <1>4. requests' \in 0 .. MaxRequests
    BY ServiceTokensAssumption DEF Receive, Free, TypeOK
  <1> QED  BY <1>3, <1>4 DEF Receive, TypeOK

LEMMA ReadTokensTypes ==
    ASSUME TypeOK, NEW t \in Threads, ReadTokens(t)
    PROVE  TypeOK'
  <1> DEFINE live == Live(request[t].account, request[t].now)
             q == [request[t] EXCEPT !.step = "write",
                                     !.active = {x \in live : replaced[x] = None},
                                     !.old = {x \in live : replaced[x] # None}]
  <1>1. request' = [request EXCEPT ![t] = q]  BY DEF ReadTokens, TypeOK
  <1>2. live \subseteq Tokens  BY DEF Live, Made
  <1>r. request[t] \in Request  BY DEF TypeOK
  <1> HIDE DEF live
  <1>3. q \in Request  BY <1>2, <1>r DEF Request
  <1> HIDE DEF q
  <1>4. request' \in [Threads -> Request]  BY <1>1, <1>3 DEF TypeOK
  <1> QED  BY <1>4 DEF ReadTokens, TypeOK

LEMMA IssueTypes ==
    ASSUME TypeOK, NEW t \in Threads, NEW x \in Tokens, Issue(t, x), request[t].account \in Accounts, Known(t)
    PROVE  TypeOK'
  <1> DEFINE r == request[t]
  <1>0. r \in Request  BY DEF TypeOK
  <1>1. request' \in [Threads -> Request]  BY <1>0, AnswerTypes DEF Issue
  <1>2. of' = [of EXCEPT ![x] = r.account] /\ of' \in [Tokens -> Accounts \cup {None}]
    BY DEF Issue, NewRow, TypeOK
  <1>3. expires' \in [Tokens -> Expiries \cup {None}]  BY <1>0 DEF Issue, TypeOK, Request
  <1>4. replaced' \in [Tokens -> Time \cup {None}]  BY <1>0 DEF Issue, TypeOK, Request
  <1>5. \A y \in revoked' : y \in Tokens /\ of'[y] # None
    <2>1. r.old \subseteq Made(r.account)  BY DEF Issue, Known
    <2>2. \A y \in r.old : y \in Tokens /\ of[y] = r.account  BY <2>1 DEF Made
    <2>3. \A y \in revoked : y \in Tokens /\ of[y] # None  BY DEF TypeOK
    <2>4. revoked' = revoked \cup r.old  BY DEF Issue, RevokedByRenewal
    <2>5. \A y \in Tokens : of[y] # None => of'[y] = of[y]  BY <1>2 DEF Issue, TypeOK
    <2> QED  BY <2>2, <2>3, <2>4, <2>5, ServiceTokensAssumption
  <1>6. maker' = [maker EXCEPT ![x] = t] /\ maker' \in [Tokens -> Threads \cup {None}]
    BY DEF Issue, TypeOK
  <1>7. \A y \in Tokens : maker'[y] # None <=> of'[y] # None
    BY <1>2, <1>6, ServiceTokensAssumption DEF TypeOK
  <1> QED  BY <1>1, <1>2, <1>3, <1>4, <1>5, <1>6, <1>7 DEF Issue, TypeOK

LEMMA RevokeTypes ==
    ASSUME TypeOK, NEW t \in Threads, Revoke(t) \/ RemoveAccount(t),
           request[t].account \in Accounts, Known(t)
    PROVE  TypeOK'
  <1> DEFINE r == request[t]
  <1>0. r \in Request  BY DEF TypeOK
  <1>1. request' \in [Threads -> Request]  BY <1>0, AnswerTypes DEF Revoke, RemoveAccount
  <1>2. account' \in [Accounts -> {"none", "open", "closed"}]
    BY DEF Revoke, RemoveAccount, TypeOK
  <1>3. \A y \in revoked' : y \in Tokens /\ of'[y] # None
    <2>1. r.active \cup r.old \subseteq Made(r.account)  BY DEF Revoke, RemoveAccount, Known
    <2>2. \A y \in r.active \cup r.old : y \in Tokens /\ of[y] = r.account  BY <2>1 DEF Made
    <2>3. \A y \in revoked : y \in Tokens /\ of[y] # None  BY DEF TypeOK
    <2>4. revoked' \subseteq revoked \cup (r.active \cup r.old)
      BY DEF Revoke, RemoveAccount, Revokes
    <2>5. of' = of  BY DEF Revoke, RemoveAccount
    <2> QED  BY <2>2, <2>3, <2>4, <2>5, ServiceTokensAssumption
  <1> QED  BY <1>1, <1>2, <1>3 DEF Revoke, RemoveAccount, TypeOK

LEMMA UseTypes ==
    ASSUME TypeOK, NEW t \in Threads, NEW x \in Tokens, Use(t, x)
    PROVE  TypeOK'
  <1> DEFINE r == [NoRequest EXCEPT !.op = "use", !.account = of[x], !.now = clock,
                                    !.wasOpen = account[of[x]] = "open"]
             q == [r EXCEPT !.step = "account"]
  <1>0. of[x] \in Accounts \cup {None} /\ clock \in Time  BY DEF TypeOK
  <1>1. r \in Request /\ q \in Request  BY <1>0, NoRequestType DEF Request
  <1>2. Answers(t, r, "refused") \/ request' = [request EXCEPT ![t] = q]  BY DEF Use
  <1> HIDE DEF r, q
  <1>3. request' \in [Threads -> Request]  BY <1>1, <1>2, AnswerTypes DEF TypeOK
  <1>4. requests' \in 0 .. MaxRequests  BY ServiceTokensAssumption DEF Use, Free, TypeOK
  <1> QED  BY <1>3, <1>4 DEF Use, TypeOK

LEMMA ReadAccountTypes ==
    ASSUME TypeOK, NEW t \in Threads, ReadAccount(t)
    PROVE  TypeOK'
  <1>1. request[t] \in Request  BY DEF TypeOK
  <1>2. PICK answer \in {"ok", "refused"} : Answers(t, request[t], answer)  BY DEF ReadAccount
  <1>3. request' \in [Threads -> Request]  BY <1>1, <1>2, AnswerTypes
  <1> QED  BY <1>3 DEF ReadAccount, TypeOK

LEMMA TypeStep ==
    ASSUME TypeOK, \A t \in Threads : InTime(t) /\ Known(t), [Next]_vars
    PROVE  TypeOK'
  <1>1. CASE Tick  BY <1>1, ServiceTokensAssumption DEF Tick, TypeOK, Time
  <1>2. ASSUME NEW a \in Accounts, CreateAccount(a) PROVE TypeOK'
    BY <1>2 DEF CreateAccount, TypeOK
  <1>3. ASSUME NEW t \in Threads, ReadTokens(t) PROVE TypeOK'  BY <1>3, ReadTokensTypes
  <1>4. ASSUME NEW t \in Threads, Revoke(t) \/ RemoveAccount(t) PROVE TypeOK'
    <2>1. request[t].account \in Accounts  BY <1>4 DEF Revoke, RemoveAccount, InTime
    <2> QED  BY <1>4, <2>1, RevokeTypes
  <1>5. ASSUME NEW t \in Threads, ReadAccount(t) PROVE TypeOK'  BY <1>5, ReadAccountTypes
  <1>6. ASSUME NEW t \in Threads, NEW x \in Tokens, Issue(t, x) PROVE TypeOK'
    <2>1. request[t].account \in Accounts  BY <1>6 DEF Issue, InTime
    <2> QED  BY <1>6, <2>1, IssueTypes
  <1>7. ASSUME NEW t \in Threads, NEW x \in Tokens, Use(t, x) PROVE TypeOK'  BY <1>7, UseTypes
  <1>8. ASSUME NEW t \in Threads, NEW op \in {"issue", "revoke", "revoke_old", "remove"},
               NEW a \in Accounts, NEW e \in Expiries \cup {None}, Receive(t, op, a, e)
        PROVE  TypeOK'
    BY <1>8, ReceiveTypes
  <1>9. CASE UNCHANGED vars  BY <1>9 DEF vars, TypeOK
  <1> QED  BY <1>1, <1>2, <1>3, <1>4, <1>5, <1>6, <1>7, <1>8, <1>9 DEF Next

-----------------------------------------------------------------------------
\* What any step leaves: tokens keep their account, expiry, maker and revocation, only a token
\* that a renewal saw active starts an overlap, and removed accounts stay closed.
Progress ==
    /\ clock' \in Nat /\ clock' >= clock
    /\ \A x \in Tokens : of[x] # None =>
          of'[x] = of[x] /\ expires'[x] = expires[x] /\ maker'[x] = maker[x]
    /\ \A x \in Tokens : maker'[x] # maker[x] =>
          \E u \in Threads : maker'[x] = u /\ request'[u].step = "idle"
    /\ revoked \subseteq revoked'
    /\ \A a \in Accounts : /\ account[a] # "none" => account'[a] # "none"
                           /\ (account[a] # "none" /\ account'[a] = "open") => account[a] = "open"
    /\ \A x \in Tokens : replaced'[x] # replaced[x] =>
          /\ replaced'[x] \in Nat /\ replaced'[x] + Patience >= clock
          /\ \E u \in Threads : Renews(u) /\ x \in request[u].active
    /\ \A u \in Threads : Renews(u)' =>
          \/ request'[u] = request[u]
          \/ \A x \in request'[u].active : replaced[x] = None

\* A step of another action is one thread's.
OneThread(t) == \A u \in Threads \ {t} : request'[u] = request[u]

\* Whoever has nothing to do with a step keeps knowing what it knew.
LEMMA Bystander ==
    ASSUME TypeOK, TypeOK', Progress, NEW u \in Threads, Sound(u), request'[u] = request[u],
           clock' = clock \/ (request[u].step # "idle" => clock' <= request[u].now + Patience)
    PROVE  Sound(u)'
  <1> DEFINE r == request[u]
  <1>0. /\ request[u] \in Request /\ clock \in Nat
        /\ Patience \in Nat /\ Overlap \in Nat /\ request[u].now \in Nat
    <2>1. request[u] \in Request /\ clock \in Time  BY DEF TypeOK
    <2> QED  BY <2>1, ServiceTokensAssumption DEF Request, Time
  <1>1. InTime(u)'  BY <1>0 DEF Sound, InTime, Progress
  <1>m. \A a \in Accounts : Made(a) \subseteq Made(a)'
    BY ServiceTokensAssumption DEF Made, Progress
  <1>2. Known(u)'
    <2>1. CASE r.step \in {"tokens", "write"}
      <3>1. r.account \in Accounts  BY <2>1 DEF Sound, InTime
      <3> QED  BY <1>m, <3>1 DEF Sound, Known, Made
    <2>2. CASE r.step \notin {"tokens", "write"}  BY <2>2 DEF Known
    <2> QED  BY <2>1, <2>2
  <1>3. OldOnesAreReplaced(u)'
    <2> SUFFICES ASSUME r.step = "write", NEW x \in r.old PROVE replaced'[x] # None
      BY DEF OldOnesAreReplaced
    <2>1. x \in Tokens /\ replaced[x] # None  BY <1>0 DEF Sound, OldOnesAreReplaced, Request
    <2> QED  BY <2>1, ServiceTokensAssumption DEF Progress
  <1>4. RecentlyReplaced(u)'
    <2> SUFFICES ASSUME Renews(u), NEW x \in r.active, replaced'[x] # None
                 PROVE  replaced'[x] + Patience >= r.now
      BY DEF RecentlyReplaced, Renews
    <2>1. x \in Tokens  BY <1>0 DEF Request
    <2>2. CASE replaced'[x] = replaced[x]  BY <2>2 DEF Sound, RecentlyReplaced
    <2>3. CASE replaced'[x] # replaced[x]
      <3>1. replaced'[x] \in Nat /\ replaced'[x] + Patience >= clock  BY <2>1, <2>3 DEF Progress
      <3>2. r.now <= clock  BY DEF Sound, InTime, Renews
      <3> QED  BY <3>1, <3>2, <1>0
    <2> QED  BY <2>2, <2>3
  <1>5. SeesItsOwn(u)'
    <2> SUFFICES ASSUME Renews(u), NEW x \in Tokens,
                        maker'[x] = u, of'[x] = r.account, replaced'[x] = None,
                        x \notin revoked', ~Expired(x, clock)'
                 PROVE  x \in r.active
      BY DEF SeesItsOwn, Renews
    <2>1. maker[x] = u  BY DEF Progress, Renews
    <2>2. of[x] # None  BY <2>1, ServiceTokensAssumption DEF TypeOK
    <2>3. of[x] = r.account /\ expires'[x] = expires[x]  BY <2>2 DEF Progress
    <2>4. replaced[x] = None /\ x \notin revoked  BY ServiceTokensAssumption DEF Progress
    <2>5. ~Expired(x, clock)  BY <1>0, <2>3, ValidityTypes DEF Expired, Progress
    <2> QED  BY <2>1, <2>3, <2>4, <2>5 DEF Sound, SeesItsOwn
  <1>6. OthersAreOver(u)'
    <2> SUFFICES ASSUME r.step = "write", r.op \in {"revoke", "remove"}, NEW x \in r.known,
                        IsOver(x)
                 PROVE  IsOver(x)'
      BY DEF OthersAreOver, Sound
    <2>1. x \in Tokens /\ of[x] # None
      <3>1. r.known \subseteq Made(r.account) /\ r.account \in Accounts
        BY DEF Sound, Known, InTime
      <3> QED  BY <3>1, ServiceTokensAssumption DEF Made
    <2>2. CASE x \in revoked  BY <2>2 DEF IsOver, Progress
    <2>3. CASE Expired(x, clock)
      BY <1>0, <2>1, <2>3, ValidityTypes DEF IsOver, Expired, Progress
    <2>4. CASE PastOverlap(x, clock) /\ \A w \in Threads : Renews(w) => x \notin request[w].active
      <3>1. replaced'[x] = replaced[x] /\ replaced[x] # None
        BY <2>1, <2>4 DEF Progress, PastOverlap
      <3>2. PastOverlap(x, clock)'
        BY <1>0, <2>1, <2>4, <3>1, ValidityTypes DEF PastOverlap, Progress
      <3>3. ASSUME NEW w \in Threads, Renews(w)' PROVE x \notin request'[w].active
        <4>1. CASE request'[w] = request[w]  BY <2>4, <3>3, <4>1 DEF Renews
        <4>2. CASE \A y \in request'[w].active : replaced[y] = None  BY <3>1, <4>2
        <4> QED  BY <3>3, <4>1, <4>2 DEF Progress
      <3> QED  BY <3>2, <3>3 DEF IsOver
    <2> QED  BY <2>2, <2>3, <2>4 DEF IsOver
  <1>7. Remembers(u)'
    <2>1. CASE r.step = "account"
      <3>1. r.account \in Accounts /\ account[r.account] # "none"
        BY <2>1 DEF Sound, InTime
      <3> QED  BY <3>1 DEF Sound, Remembers, Progress
    <2>2. CASE r.step # "account"  BY <2>2 DEF Sound, Remembers
    <2> QED  BY <2>1, <2>2
  <1> QED  BY <1>1, <1>2, <1>3, <1>4, <1>5, <1>6, <1>7 DEF Sound

\* A thread that has answered knows nothing more.
LEMMA AnsweredIsSound ==
    ASSUME NEW t \in Threads, request'[t].step = "idle",
           (request'[t].op = "use" /\ request'[t].answer = "ok") => request'[t].wasOpen
    PROVE  Sound(t)'
  BY DEF Sound, InTime, Known, OldOnesAreReplaced, RecentlyReplaced, Renews, SeesItsOwn,
         OthersAreOver, Remembers

-----------------------------------------------------------------------------
\* Every action makes progress, and is one thread's: one lemma each.
LEMMA ClockType == TypeOK => clock \in Nat
  BY ServiceTokensAssumption DEF TypeOK, Time

LEMMA TickSound ==
    ASSUME TokensInv, TypeOK', Tick
    PROVE  \A u \in Threads : Sound(u)'
  <1>1. Progress  BY ClockType DEF Tick, Progress, TokensInv, Renews
  <1>2. ASSUME NEW u \in Threads PROVE Sound(u)'
    <2>1. request[u] \in Request /\ clock \in Time  BY DEF TokensInv, TypeOK
    <2>2. request[u].step # "idle" => clock' <= request[u].now + Patience
      BY <2>1, ServiceTokensAssumption DEF Tick, Request, Time
    <2> QED  BY <1>1, <2>2, Bystander DEF Tick, TokensInv
  <1> QED  BY <1>2

LEMMA CreateAccountSound ==
    ASSUME TokensInv, TypeOK', NEW a \in Accounts, CreateAccount(a)
    PROVE  \A u \in Threads : Sound(u)'
  <1>1. \A b \in Accounts : account[b] # "none" => account'[b] = account[b]
    BY DEF CreateAccount, TokensInv, TypeOK
  <1>2. \A b \in Accounts : account'[b] # account[b] => account[b] = "none" /\ account'[b] = "open"
    BY DEF CreateAccount, TokensInv, TypeOK
  <1>3. Progress  BY <1>1, <1>2, ClockType DEF CreateAccount, Progress, TokensInv, Renews
  <1> QED  BY <1>3, Bystander DEF CreateAccount, TokensInv

LEMMA ReceiveSound ==
    ASSUME TokensInv, TypeOK', NEW t \in Threads,
           NEW op \in {"issue", "revoke", "revoke_old", "remove"},
           NEW a \in Accounts, NEW e \in Expiries \cup {None}, Receive(t, op, a, e)
    PROVE  \A u \in Threads : Sound(u)'
  <1> DEFINE r == [NoRequest EXCEPT !.op = op, !.account = a, !.expires = e, !.now = clock,
                                    !.known = Made(a)]
             q == [r EXCEPT !.step = "tokens"]
             p == [r EXCEPT !.step = "idle", !.answer = "refused"]
  <1>1. request' = [request EXCEPT ![t] = p] \/ request' = [request EXCEPT ![t] = q]
    BY DEF Receive, Answers
  <1>2. /\ p.step = "idle" /\ p.op = op
        /\ q.step = "tokens" /\ q.op = op /\ q.account = a /\ q.now = clock /\ q.known = Made(a)
        /\ q.answer = "none"
    BY DEF NoRequest
  <1> HIDE DEF r, q, p
  <1>3. OneThread(t) /\ (request'[t] = p \/ request'[t] = q)
    BY <1>1 DEF OneThread, TokensInv, TypeOK
  <1>4. Progress
    BY <1>2, <1>3, ClockType DEF Receive, Progress, OneThread, Renews, TokensInv
  <1>5. ASSUME NEW u \in Threads \ {t} PROVE Sound(u)'
    BY <1>3, <1>4, Bystander DEF Receive, TokensInv, OneThread
  <1>6. CASE request'[t] = p  BY <1>2, <1>6, AnsweredIsSound, <1>5
  <1>7. CASE request'[t] = q
    <2>1. /\ clock' = clock /\ account' = account /\ account[a] # "none" /\ of' = of
          /\ clock \in Nat /\ Patience \in Nat
      BY ClockType, ServiceTokensAssumption DEF Receive, TokensInv
    <2>2. Sound(t)'
      BY <1>2, <1>7, <2>1 DEF Sound, InTime, Known, OldOnesAreReplaced, RecentlyReplaced, Renews,
         SeesItsOwn, OthersAreOver, Remembers, Made
    <2> QED  BY <1>5, <2>2
  <1> QED  BY <1>3, <1>6, <1>7

LEMMA UseSound ==
    ASSUME TokensInv, TypeOK', NEW t \in Threads, NEW x \in Tokens, Use(t, x)
    PROVE  \A u \in Threads : Sound(u)'
  <1> DEFINE r == [NoRequest EXCEPT !.op = "use", !.account = of[x], !.now = clock,
                                    !.wasOpen = account[of[x]] = "open"]
             q == [r EXCEPT !.step = "account"]
             p == [r EXCEPT !.step = "idle", !.answer = "refused"]
  <1>1. request' = [request EXCEPT ![t] = p] \/ request' = [request EXCEPT ![t] = q]
    BY DEF Use, Answers
  <1>2. /\ p.step = "idle" /\ p.answer = "refused"
        /\ q.step = "account" /\ q.op = "use" /\ q.account = of[x] /\ q.now = clock
        /\ q.answer = "none" /\ q.wasOpen = (account[of[x]] = "open")
    BY DEF NoRequest
  <1> HIDE DEF r, q, p
  <1>3. OneThread(t) /\ (request'[t] = p \/ request'[t] = q)
    BY <1>1 DEF OneThread, TokensInv, TypeOK
  <1>4. Progress
    BY <1>2, <1>3, ClockType DEF Use, Progress, OneThread, Renews, TokensInv
  <1>5. ASSUME NEW u \in Threads \ {t} PROVE Sound(u)'
    BY <1>3, <1>4, Bystander DEF Use, TokensInv, OneThread
  <1>6. CASE request'[t] = p  BY <1>2, <1>6, AnsweredIsSound, <1>5
  <1>7. CASE request'[t] = q
    <2>1. of[x] \in Accounts /\ account[of[x]] # "none"
      BY ServiceTokensAssumption DEF Use, TokensInv, TypeOK, RowsHaveAnAccount
    <2>2. /\ clock' = clock /\ account' = account /\ clock \in Nat /\ Patience \in Nat
      BY ClockType, ServiceTokensAssumption DEF Use, TokensInv
    <2>3. InTime(t)'  BY <1>2, <1>7, <2>1, <2>2 DEF InTime
    <2>4. Remembers(t)'
      <3>1. request'[t].wasOpen <=> account[of[x]] = "open"  BY <1>2, <1>7
      <3> QED  BY <1>2, <1>7, <2>2, <3>1, Zenon DEF Remembers
    <2>5. Sound(t)'
      BY <1>2, <1>7, <2>3, <2>4 DEF Sound, Known, OldOnesAreReplaced, RecentlyReplaced, Renews,
         SeesItsOwn, OthersAreOver
    <2> QED  BY <1>5, <2>5
  <1> QED  BY <1>3, <1>6, <1>7

\* What a request doesn't see live by now is over for good.
LEMMA ReadTokensSound ==
    ASSUME TokensInv, TypeOK', NEW t \in Threads, ReadTokens(t)
    PROVE  \A u \in Threads : Sound(u)'
  <1> DEFINE r == request[t]
             live == Live(r.account, r.now)
             q == [r EXCEPT !.step = "write",
                            !.active = {x \in live : replaced[x] = None},
                            !.old = {x \in live : replaced[x] # None}]
  <1>0. /\ r \in Request /\ Sound(t) /\ r.step = "tokens"
        /\ clock \in Nat /\ Patience \in Nat /\ Overlap \in Nat /\ Overlap > 2 * Patience
        /\ r.now \in Nat /\ r.account \in Accounts /\ r.now <= clock
    <2>1. r \in Request /\ Sound(t) /\ r.step = "tokens"  BY DEF TokensInv, TypeOK, ReadTokens
    <2>2. r.now \in Nat  BY <2>1, ServiceTokensAssumption DEF Request, Time
    <2> QED  BY <2>1, <2>2, ClockType, ServiceTokensAssumption DEF TokensInv, Sound, InTime
  <1>1. request' = [request EXCEPT ![t] = q]  BY DEF ReadTokens, TokensInv, TypeOK
  <1>2. /\ q.step = "write" /\ q.op = r.op /\ q.account = r.account /\ q.now = r.now
        /\ q.known = r.known /\ q.answer = r.answer /\ q.wasOpen = r.wasOpen
        /\ q.active = {x \in live : replaced[x] = None}
        /\ q.old = {x \in live : replaced[x] # None}
    BY <1>0 DEF Request
  <1>l. live \subseteq Tokens /\ live \subseteq Made(r.account)  BY DEF Live, Made
  <1> HIDE DEF q, live
  <1>3. OneThread(t) /\ request'[t] = q  BY <1>1 DEF OneThread, TokensInv, TypeOK
  <1>4. /\ UNCHANGED <<account, of, expires, replaced, revoked, clock, requests, maker>>
    BY DEF ReadTokens
  <1>5. Progress
    <2>1. \A x \in q.active : replaced[x] = None  BY <1>2
    <2> QED  BY <1>0, <1>3, <1>4, <2>1 DEF Progress, OneThread, Renews
  <1>6. ASSUME NEW u \in Threads \ {t} PROVE Sound(u)'
    BY <1>3, <1>4, <1>5, Bystander DEF TokensInv, OneThread
  <1>7. InTime(t)'  BY <1>0, <1>2, <1>3, <1>4 DEF Sound, InTime
  <1>8. Known(t)'  BY <1>0, <1>2, <1>3, <1>4, <1>l DEF Sound, Known, Made
  <1>9. OldOnesAreReplaced(t)' /\ RecentlyReplaced(t)'
    BY <1>2, <1>3, <1>4 DEF OldOnesAreReplaced, RecentlyReplaced, Renews
  <1>10. ASSUME NEW x \in Made(r.account), x \notin live
         PROVE  x \in revoked \/ Expired(x, clock) \/ PastOverlap(x, r.now)
    <2>1. x \in Tokens  BY DEF Made
    <2>2. ~IsValid(x, r.now)  BY <1>10 DEF live, Live
    <2>3. Expired(x, r.now) => Expired(x, clock)
      BY <1>0, <2>1, ValidityTypes DEF Expired, TokensInv
    <2> QED  BY <2>2, <2>3 DEF IsValid
  <1>11. SeesItsOwn(t)'
    <2> SUFFICES ASSUME NEW x \in Tokens, of[x] = r.account, replaced[x] = None,
                        x \notin revoked, ~Expired(x, clock)
                 PROVE  x \in q.active
      BY <1>2, <1>3, <1>4 DEF SeesItsOwn, Expired
    <2>1. x \in live  BY <1>10 DEF Made, PastOverlap
    <2> QED  BY <1>2, <2>1
  <1>12. OthersAreOver(t)'
    <2> SUFFICES ASSUME NEW x \in r.known, x \notin live, r.op \in {"revoke", "remove"}
                 PROVE  IsOver(x)'
      BY <1>2, <1>3 DEF OthersAreOver
    <2>1. x \in Made(r.account) /\ x \in Tokens  BY <1>0 DEF Sound, Known, Made
    <2>2. CASE x \in revoked \/ Expired(x, clock)  BY <1>4, <2>2 DEF IsOver, Expired
    <2>3. CASE PastOverlap(x, r.now)
      <3>1. replaced[x] # None /\ replaced[x] \in Nat /\ r.now >= replaced[x] + Overlap
        BY <2>1, <2>3, ValidityTypes DEF PastOverlap, TokensInv
      <3>2. PastOverlap(x, clock)  BY <1>0, <3>1 DEF PastOverlap
      <3>3. ASSUME NEW w \in Threads, Renews(w)' PROVE x \notin request'[w].active
        <4>1. CASE w = t  BY <1>2, <1>3, <3>1, <4>1
        <4>2. CASE w # t
          <5>1. request'[w] = request[w] /\ Renews(w)  BY <1>3, <3>3, <4>2 DEF OneThread, Renews
          <5>2. /\ request[w].now \in Nat /\ clock <= request[w].now + Patience
                /\ \A y \in request[w].active :
                      replaced[y] # None => replaced[y] + Patience >= request[w].now
            <6>1. request[w] \in Request /\ Sound(w)  BY DEF TokensInv, TypeOK
            <6>2. request[w].now \in Nat  BY <6>1, ServiceTokensAssumption DEF Request, Time
            <6> QED  BY <5>1, <6>1, <6>2 DEF Sound, InTime, RecentlyReplaced, Renews
          <5>3. ASSUME x \in request[w].active PROVE FALSE  BY <1>0, <3>1, <5>2, <5>3
          <5> QED  BY <5>1, <5>3
        <4> QED  BY <4>1, <4>2
      <3> QED  BY <1>4, <3>2, <3>3 DEF IsOver, PastOverlap
    <2> QED  BY <1>10, <2>1, <2>2, <2>3
  <1>13. Remembers(t)'
    <2>1. ~(r.op = "use" /\ r.answer = "ok")  BY <1>0 DEF Sound, InTime
    <2> QED  BY <1>2, <1>3, <2>1 DEF Remembers
  <1> QED  BY <1>6, <1>7, <1>8, <1>9, <1>11, <1>12, <1>13 DEF Sound

LEMMA AnswerClosesTheRequest ==
    ASSUME TokensInv, NEW t \in Threads, NEW answer \in {"ok", "refused"},
           Answers(t, request[t], answer)
    PROVE  /\ OneThread(t)
           /\ request'[t].step = "idle" /\ request'[t].op = request[t].op
           /\ request'[t].answer = answer /\ request'[t].wasOpen = request[t].wasOpen
  <1>1. request[t] \in Request  BY DEF TokensInv, TypeOK
  <1>2. request'[t] = [request[t] EXCEPT !.step = "idle", !.answer = answer]
    BY DEF Answers, TokensInv, TypeOK
  <1>3. OneThread(t)  BY DEF Answers, OneThread, TokensInv, TypeOK
  <1>4. request'[t].step = "idle" /\ request'[t].op = request[t].op /\ request'[t].answer = answer
    BY <1>1, <1>2 DEF Request
  <1>5. request'[t].wasOpen = request[t].wasOpen
    <2>1. "wasOpen" \in DOMAIN request[t]  BY <1>1 DEF Request
    <2> QED  BY <1>2, <2>1, Zenon
  <1> QED  BY <1>3, <1>4, <1>5, Zenon

LEMMA IssueSound ==
    ASSUME TokensInv, TypeOK', NEW t \in Threads, NEW x \in Tokens, Issue(t, x)
    PROVE  \A u \in Threads : Sound(u)'
  <1> DEFINE r == request[t]
  <1>0. /\ Answers(t, r, "ok") /\ Renews(t) /\ Sound(t) /\ r \in Request
        /\ clock \in Nat /\ clock' = clock /\ account' = account
    BY ClockType DEF Issue, TokensInv, Renews, TypeOK
  <1>1. /\ OneThread(t) /\ request'[t].step = "idle" /\ request'[t].op = r.op
    BY <1>0, AnswerClosesTheRequest
  <1>2. /\ \A y \in Tokens : of[y] # None =>
              of'[y] = of[y] /\ expires'[y] = expires[y] /\ maker'[y] = maker[y]
        /\ \A y \in Tokens : maker'[y] # maker[y] => maker'[y] = t
    BY DEF Issue, NewRow, TokensInv, TypeOK
  <1>3. /\ r.now \in Nat /\ r.now + Patience >= clock
    <2>1. r.now \in Nat  BY <1>0, ServiceTokensAssumption DEF Request, Time
    <2> QED  BY <1>0, <2>1, ServiceTokensAssumption DEF Sound, InTime, Renews
  <1>4. \A y \in Tokens : replaced'[y] # replaced[y] => replaced'[y] = r.now /\ y \in r.active
    BY DEF Issue, Replaces
  <1>5. Progress
    BY <1>0, <1>1, <1>2, <1>3, <1>4 DEF Progress, OneThread, Renews, Issue
  <1>6. ASSUME NEW u \in Threads \ {t} PROVE Sound(u)'
    BY <1>0, <1>1, <1>5, Bystander DEF TokensInv, OneThread
  <1>7. r.op # "use"  BY <1>0 DEF Renews
  <1> QED  BY <1>1, <1>6, <1>7, AnsweredIsSound

LEMMA RevokeSound ==
    ASSUME TokensInv, TypeOK', NEW t \in Threads, Revoke(t) \/ RemoveAccount(t)
    PROVE  \A u \in Threads : Sound(u)'
  <1> DEFINE r == request[t]
  <1>0. /\ Answers(t, r, "ok") /\ r.op # "use" /\ clock \in Nat
        /\ UNCHANGED <<of, expires, replaced, clock, maker>> /\ revoked \subseteq revoked'
    BY ClockType DEF Revoke, RemoveAccount, TokensInv
  <1>1. /\ OneThread(t) /\ request'[t].step = "idle" /\ request'[t].op = r.op
    BY <1>0, AnswerClosesTheRequest
  <1>2. \A a \in Accounts : account'[a] = account[a] \/ account'[a] = "closed"
    BY DEF Revoke, RemoveAccount, TokensInv, TypeOK
  <1>3. Progress
    BY <1>0, <1>1, <1>2 DEF Progress, OneThread, Renews
  <1>4. ASSUME NEW u \in Threads \ {t} PROVE Sound(u)'
    BY <1>0, <1>1, <1>3, Bystander DEF TokensInv, OneThread
  <1> QED  BY <1>0, <1>1, <1>4, AnsweredIsSound

LEMMA ReadAccountSound ==
    ASSUME TokensInv, TypeOK', NEW t \in Threads, ReadAccount(t)
    PROVE  \A u \in Threads : Sound(u)'
  <1> DEFINE r == request[t]
  <1>0. /\ r.step = "account" /\ clock \in Nat /\ Sound(t)
        /\ UNCHANGED <<account, of, expires, replaced, revoked, clock, maker>>
    BY ClockType DEF ReadAccount, TokensInv
  <1>1. PICK answer \in {"ok", "refused"} :
           Answers(t, r, answer) /\ (answer = "ok" => account[r.account] = "open")
    BY DEF ReadAccount, MayAct
  <1>2. /\ OneThread(t) /\ request'[t].step = "idle" /\ request'[t].op = r.op
        /\ request'[t].answer = answer /\ request'[t].wasOpen = r.wasOpen
    BY <1>1, AnswerClosesTheRequest
  <1>3. Progress  BY <1>0, <1>2 DEF Progress, OneThread, Renews
  <1>4. ASSUME NEW u \in Threads \ {t} PROVE Sound(u)'
    BY <1>0, <1>2, <1>3, Bystander DEF TokensInv, OneThread
  <1>5. answer = "ok" => r.wasOpen  BY <1>0, <1>1 DEF Sound, Remembers
  <1>6. request'[t].answer = "ok" => request'[t].wasOpen
    <2>1. request'[t].wasOpen <=> r.wasOpen  BY <1>2
    <2> QED  BY <1>2, <1>5, <2>1, Zenon
  <1> QED  BY <1>2, <1>4, <1>6, AnsweredIsSound

-----------------------------------------------------------------------------
\* A token that a step leaves active was so before, or is the one a renewal makes.
LEMMA OneActiveStep ==
    ASSUME TokensInv, TypeOK', [Next]_vars
    PROVE  OneActivePerThread'
  <1>c. clock \in Nat  BY ClockType DEF TokensInv
  <1>1. ASSUME UNCHANGED <<of, replaced, maker>>, clock' >= clock, clock' \in Nat,
               \A x \in Tokens : expires'[x] = expires[x],
               revoked \subseteq revoked'
        PROVE  OneActivePerThread'
    <2>1. ASSUME NEW x \in Tokens, Active(x)' PROVE Active(x)
      <3>1. of[x] # None /\ replaced[x] = None /\ x \notin revoked /\ ~PastOverlap(x, clock)
        BY <1>1, <2>1 DEF Active, IsValid, PastOverlap
      <3>2. ~Expired(x, clock)
        BY <1>1, <1>c, <2>1, ValidityTypes DEF TokensInv, Active, IsValid, Expired
      <3> QED  BY <3>1, <3>2 DEF Active, IsValid
    <2> QED  BY <1>1, <2>1 DEF OneActivePerThread, TokensInv
  <1>2. ASSUME NEW t \in Threads, NEW x \in Tokens, Issue(t, x) PROVE OneActivePerThread'
    <2> DEFINE r == request[t]
    <2>1. /\ of' = [of EXCEPT ![x] = r.account] /\ maker' = [maker EXCEPT ![x] = t]
          /\ of[x] = None /\ clock' = clock /\ revoked \subseteq revoked' /\ Renews(t)
          /\ \A y \in Tokens \ {x} : expires'[y] = expires[y]
          /\ \A y \in Tokens : replaced'[y] = IF y \in r.active THEN r.now ELSE replaced[y]
      BY <1>2 DEF Issue, NewRow, Renews, Replaces, TokensInv, TypeOK
    <2>2. r.now # None
      BY ServiceTokensAssumption DEF TokensInv, TypeOK, Request, Time
    <2>3. ASSUME NEW y \in Tokens \ {x}, Active(y)'
          PROVE  Active(y) /\ y \notin r.active /\ of'[y] = of[y] /\ maker'[y] = maker[y]
      <3>1. of'[y] = of[y] /\ maker'[y] = maker[y]  BY <2>1 DEF TokensInv, TypeOK
      <3>2. y \notin r.active /\ replaced[y] = None  BY <2>1, <2>2, <2>3 DEF Active
      <3>3. y \notin revoked /\ ~Expired(y, clock)  BY <2>1, <2>3 DEF Active, IsValid, Expired
      <3> QED  BY <2>3, <3>1, <3>2, <3>3 DEF Active, IsValid, PastOverlap
    <2>4. ASSUME NEW y \in Tokens \ {x}, Active(y)', of'[y] = of'[x], maker'[y] = maker'[x]
          PROVE  FALSE
      <3>1. Active(y) /\ y \notin r.active /\ of[y] = r.account /\ maker[y] = t
        BY <2>1, <2>3, <2>4 DEF TokensInv, TypeOK
      <3>2. y \in r.active
        BY <2>1, <3>1 DEF TokensInv, Sound, SeesItsOwn, Active, IsValid
      <3> QED  BY <3>1, <3>2
    <2> SUFFICES ASSUME NEW y \in Tokens, NEW z \in Tokens, Active(y)', Active(z)',
                        of'[y] = of'[z], maker'[y] = maker'[z], y # z
                 PROVE  FALSE
      BY DEF OneActivePerThread
    <2>5. CASE y = x  BY <2>4, <2>5
    <2>6. CASE z = x  BY <2>4, <2>6
    <2>7. CASE y # x /\ z # x
      BY <2>3, <2>7 DEF OneActivePerThread, TokensInv
    <2> QED  BY <2>5, <2>6, <2>7
  <1>3. CASE Tick  BY <1>1, <1>3, <1>c DEF Tick
  <1>4. ASSUME NEW a \in Accounts, CreateAccount(a) PROVE OneActivePerThread'
    BY <1>1, <1>4, <1>c DEF CreateAccount
  <1>5. ASSUME NEW t \in Threads,
               ReadTokens(t) \/ Revoke(t) \/ RemoveAccount(t) \/ ReadAccount(t)
        PROVE  OneActivePerThread'
    <2>1. UNCHANGED <<of, expires, replaced, clock, maker>> /\ revoked \subseteq revoked'
      BY <1>5 DEF ReadTokens, Revoke, RemoveAccount, ReadAccount
    <2> QED  BY <1>1, <1>c, <2>1
  <1>6. ASSUME NEW t \in Threads, NEW x \in Tokens, Use(t, x) PROVE OneActivePerThread'
    BY <1>1, <1>6, <1>c DEF Use
  <1>7. ASSUME NEW t \in Threads, NEW op \in {"issue", "revoke", "revoke_old", "remove"},
               NEW a \in Accounts, NEW e \in Expiries \cup {None}, Receive(t, op, a, e)
        PROVE  OneActivePerThread'
    BY <1>1, <1>7, <1>c DEF Receive
  <1>8. CASE UNCHANGED vars  BY <1>1, <1>8, <1>c DEF vars
  <1> QED  BY <1>2, <1>3, <1>4, <1>5, <1>6, <1>7, <1>8 DEF Next

LEMMA RowsStep ==
    ASSUME TokensInv, TypeOK', [Next]_vars
    PROVE  RowsHaveAnAccount'
  <1>1. ASSUME of' = of, \A a \in Accounts : account[a] # "none" => account'[a] # "none"
        PROVE  RowsHaveAnAccount'
    BY <1>1, ServiceTokensAssumption DEF RowsHaveAnAccount, TokensInv, TypeOK
  <1>2. ASSUME NEW t \in Threads, NEW x \in Tokens, Issue(t, x) PROVE RowsHaveAnAccount'
    <2>1. account[request[t].account] # "none"
      BY <1>2 DEF Issue, TokensInv, Sound, InTime
    <2>2. of' = [of EXCEPT ![x] = request[t].account] /\ account' = account
      BY <1>2 DEF Issue, NewRow
    <2> QED  BY <2>1, <2>2 DEF RowsHaveAnAccount, TokensInv, TypeOK
  <1>3. CASE Tick  BY <1>1, <1>3 DEF Tick
  <1>4. ASSUME NEW a \in Accounts, CreateAccount(a) PROVE RowsHaveAnAccount'
    BY <1>1, <1>4 DEF CreateAccount, TokensInv, TypeOK
  <1>5. ASSUME NEW t \in Threads,
               ReadTokens(t) \/ Revoke(t) \/ RemoveAccount(t) \/ ReadAccount(t)
        PROVE  RowsHaveAnAccount'
    BY <1>1, <1>5 DEF ReadTokens, Revoke, RemoveAccount, ReadAccount, TokensInv, TypeOK
  <1>6. ASSUME NEW t \in Threads, NEW x \in Tokens, Use(t, x) PROVE RowsHaveAnAccount'
    BY <1>1, <1>6 DEF Use
  <1>7. ASSUME NEW t \in Threads, NEW op \in {"issue", "revoke", "revoke_old", "remove"},
               NEW a \in Accounts, NEW e \in Expiries \cup {None}, Receive(t, op, a, e)
        PROVE  RowsHaveAnAccount'
    BY <1>1, <1>7 DEF Receive
  <1>8. CASE UNCHANGED vars  BY <1>1, <1>8 DEF vars
  <1> QED  BY <1>2, <1>3, <1>4, <1>5, <1>6, <1>7, <1>8 DEF Next

LEMMA SoundStep ==
    ASSUME TokensInv, TypeOK', [Next]_vars
    PROVE  \A u \in Threads : Sound(u)'
  <1>1. CASE Tick  BY <1>1, TickSound
  <1>2. ASSUME NEW a \in Accounts, CreateAccount(a) PROVE \A u \in Threads : Sound(u)'
    BY <1>2, CreateAccountSound
  <1>3. ASSUME NEW t \in Threads, ReadTokens(t) PROVE \A u \in Threads : Sound(u)'
    BY <1>3, ReadTokensSound
  <1>4. ASSUME NEW t \in Threads, Revoke(t) \/ RemoveAccount(t)
        PROVE  \A u \in Threads : Sound(u)'
    BY <1>4, RevokeSound
  <1>5. ASSUME NEW t \in Threads, ReadAccount(t) PROVE \A u \in Threads : Sound(u)'
    BY <1>5, ReadAccountSound
  <1>6. ASSUME NEW t \in Threads, NEW x \in Tokens, Issue(t, x)
        PROVE  \A u \in Threads : Sound(u)'
    BY <1>6, IssueSound
  <1>7. ASSUME NEW t \in Threads, NEW x \in Tokens, Use(t, x)
        PROVE  \A u \in Threads : Sound(u)'
    BY <1>7, UseSound
  <1>8. ASSUME NEW t \in Threads, NEW op \in {"issue", "revoke", "revoke_old", "remove"},
               NEW a \in Accounts, NEW e \in Expiries \cup {None}, Receive(t, op, a, e)
        PROVE  \A u \in Threads : Sound(u)'
    BY <1>8, ReceiveSound
  <1>9. CASE UNCHANGED vars
    <2>1. Progress  BY <1>9, ClockType DEF vars, Progress, TokensInv, Renews
    <2> QED  BY <1>9, <2>1, Bystander DEF vars, TokensInv
  <1> QED  BY <1>1, <1>2, <1>3, <1>4, <1>5, <1>6, <1>7, <1>8, <1>9 DEF Next

-----------------------------------------------------------------------------
LEMMA TokensInvInit == Init => TokensInv
  <1> SUFFICES ASSUME Init PROVE TokensInv  OBVIOUS
  <1>1. TypeOK  BY TypeInit
  <1>2. \A t \in Threads : Sound(t)
    BY NoRequestType DEF Init, NoRequest, Sound, InTime, Known, OldOnesAreReplaced,
       RecentlyReplaced, Renews, SeesItsOwn, OthersAreOver, Remembers
  <1>3. RowsHaveAnAccount /\ OneActivePerThread
    BY DEF Init, RowsHaveAnAccount, OneActivePerThread, Active
  <1> QED  BY <1>1, <1>2, <1>3 DEF TokensInv

LEMMA TokensInvStep == TokensInv /\ [Next]_vars => TokensInv'
  <1> SUFFICES ASSUME TokensInv, [Next]_vars PROVE TokensInv'  OBVIOUS
  <1>1. TypeOK'  BY TypeStep DEF TokensInv, Sound
  <1>2. RowsHaveAnAccount'  BY <1>1, RowsStep
  <1>3. \A u \in Threads : Sound(u)'  BY <1>1, SoundStep
  <1>4. OneActivePerThread'  BY <1>1, OneActiveStep
  <1> QED  BY <1>1, <1>2, <1>3, <1>4 DEF TokensInv

\* The step that answers an owner's request is the one of its operation.
LEMMA ItsOwnStep ==
    ASSUME TokensInv, [Next]_vars, NEW t \in Threads, request[t].step = "write",
           request'[t].step = "idle"
    PROVE  /\ request[t].op \in {"revoke", "remove"} => Revoke(t) \/ RemoveAccount(t)
           /\ request[t].op = "issue" => \E x \in Tokens : Issue(t, x)
  <1>1. ASSUME request'[t] = request[t] PROVE FALSE  BY <1>1
  <1>2. ASSUME NEW u \in Threads,
               \/ ReadTokens(u) \/ ReadAccount(u)
               \/ \E x \in Tokens : Use(u, x)
               \/ \E op \in {"issue", "revoke", "revoke_old", "remove"}, a \in Accounts,
                     e \in Expiries \cup {None} : Receive(u, op, a, e)
        PROVE  FALSE
    <2>1. CASE u = t
      <3>1. ReadTokens(t) => FALSE  BY DEF ReadTokens
      <3>2. ReadAccount(t) => FALSE  BY DEF ReadAccount
      <3>3. ASSUME NEW x \in Tokens, Use(t, x) PROVE FALSE  BY <3>3 DEF Use, Free
      <3>4. ASSUME NEW op \in {"issue", "revoke", "revoke_old", "remove"}, NEW a \in Accounts,
                   NEW e \in Expiries \cup {None}, Receive(t, op, a, e)
            PROVE  FALSE
        BY <3>4 DEF Receive, Free
      <3> QED  BY <1>2, <2>1, <3>1, <3>2, <3>3, <3>4
    <2>2. CASE u # t
      <3> USE DEF Answers, TokensInv, TypeOK
      <3>1. ReadTokens(u) => request'[t] = request[t]  BY <2>2 DEF ReadTokens
      <3>2. ReadAccount(u) => request'[t] = request[t]  BY <2>2 DEF ReadAccount
      <3>3. ASSUME NEW x \in Tokens, Use(u, x) PROVE request'[t] = request[t]
        BY <2>2, <3>3 DEF Use
      <3>4. ASSUME NEW op \in {"issue", "revoke", "revoke_old", "remove"}, NEW a \in Accounts,
                   NEW e \in Expiries \cup {None}, Receive(u, op, a, e)
            PROVE  request'[t] = request[t]
        BY <2>2, <3>4 DEF Receive
      <3> QED  BY <1>1, <1>2, <3>1, <3>2, <3>3, <3>4
    <2> QED  BY <2>1, <2>2
  <1>3. ASSUME NEW u \in Threads \ {t},
               Revoke(u) \/ RemoveAccount(u) \/ \E x \in Tokens : Issue(u, x)
        PROVE  FALSE
    <2>1. request'[t] = request[t]
      BY <1>3 DEF Revoke, RemoveAccount, Issue, Answers, TokensInv, TypeOK
    <2> QED  BY <1>1, <2>1
  <1>4. (Tick \/ (\E a \in Accounts : CreateAccount(a)) \/ UNCHANGED vars) => FALSE
    BY <1>1 DEF Tick, CreateAccount, vars
  <1>5. (\E x \in Tokens : Issue(t, x)) => request[t].op = "issue"  BY DEF Issue
  <1>6. Revoke(t) \/ RemoveAccount(t) => request[t].op \in {"revoke", "revoke_old", "remove"}
    BY DEF Revoke, RemoveAccount
  <1> QED  BY <1>2, <1>3, <1>4, <1>5, <1>6 DEF Next

\* The inductive invariant holds throughout.
THEOREM TokensInvAlways == Spec => []TokensInv
  BY TokensInvInit, TokensInvStep, PTL DEF Spec

\* Rows are well typed, and every one has its account (service_account_id isn't NULL).
THEOREM ServiceTokensTypeOK == Spec => []TypeOK
  <1>1. TokensInv => TypeOK  BY DEF TokensInv
  <1> QED  BY <1>1, TokensInvAlways, PTL

\* However many renewals cross (issue_token reads the live tokens without a lock), each worker
\* thread leaves an account one active token at the most.
THEOREM RenewalsLeaveOnePerThread == Spec => []OneActivePerThread
  <1>1. TokensInv => OneActivePerThread  BY DEF TokensInv
  <1> QED  BY <1>1, TokensInvAlways, PTL

\* With requests one at a time, one token per account is active.
COROLLARY OneTokenOneByOne ==
    ASSUME \A t, u \in Threads : t = u
    PROVE  Spec => []OneActiveToken
  <1>1. TokensInv => OneActiveToken
    <2> SUFFICES ASSUME TokensInv, NEW x \in Tokens, NEW y \in Tokens,
                        Active(x), Active(y), of[x] = of[y]
                 PROVE  x = y
      BY DEF OneActiveToken
    <2>1. maker[x] \in Threads /\ maker[y] \in Threads
      BY DEF TokensInv, Sound, TypeOK, Active
    <2> QED  BY <2>1 DEF TokensInv, OneActivePerThread
  <1> QED  BY <1>1, TokensInvAlways, PTL

\* Nothing acts as an account removed before it asked (get_service_token looks at the account,
\* not only at the token).
THEOREM TheRemovedCannotAct == Spec => []RemovedCannotAct
  <1>1. TokensInv => RemovedCannotAct  BY DEF TokensInv, Sound, Remembers, RemovedCannotAct
  <1> QED  BY <1>1, TokensInvAlways, PTL

-----------------------------------------------------------------------------
\* Revoking, or removing the account, ends every token the account had by then, as long as no
\* request takes half the overlap: a renewal under way may move an overlap's end, but never
\* that of a token that was past it (_revoke skips those).
THEOREM RevocationIsComplete == Spec => RevocationReachesAll
  <1>1. TokensInv /\ [Next]_vars =>
          \A t \in Threads :
             (/\ request[t].step = "write" /\ request[t].op \in {"revoke", "remove"}
              /\ request'[t].step = "idle")
                 => \A x \in request[t].known : ~IsValid(x, clock)'
    <2> SUFFICES ASSUME TokensInv, [Next]_vars, NEW t \in Threads,
                        request[t].step = "write", request[t].op \in {"revoke", "remove"},
                        request'[t].step = "idle", NEW x \in request[t].known
                 PROVE  ~IsValid(x, clock)'
      OBVIOUS
    <2>1. Revoke(t) \/ RemoveAccount(t)  BY ItsOwnStep
    <2>2. /\ UNCHANGED <<of, expires, replaced, clock, maker>>
          /\ revoked' = revoked \cup (request[t].active \cup request[t].old)
      BY <2>1 DEF Revoke, RemoveAccount, Revokes
    <2>3. x \in request[t].active \cup request[t].old \/ IsOver(x)
      BY DEF TokensInv, Sound, OthersAreOver
    <2>4. CASE x \in revoked'  BY <2>4 DEF IsValid
    <2>5. CASE Expired(x, clock) \/ PastOverlap(x, clock)
      BY <2>2, <2>5 DEF IsValid, Expired, PastOverlap
    <2> QED  BY <2>2, <2>3, <2>4, <2>5 DEF IsOver
  <1> QED  BY <1>1, TokensInvAlways, PTL DEF Spec, RevocationReachesAll

\* A renewal ends no active token, its own or one made while it was under way.
THEOREM RenewalsEndNothingActive == Spec => RenewalSparesTheActive
  <1>1. TokensInv /\ [Next]_vars =>
          \A t \in Threads :
             (request[t].step = "write" /\ request[t].op = "issue" /\ request'[t].step = "idle")
                 => \A x \in Tokens : Active(x) => IsValid(x, clock)'
    <2> SUFFICES ASSUME TokensInv, [Next]_vars, NEW t \in Threads,
                        request[t].step = "write", request[t].op = "issue",
                        request'[t].step = "idle", NEW x \in Tokens, Active(x)
                 PROVE  IsValid(x, clock)'
      OBVIOUS
    <2>1. PICK y \in Tokens : Issue(t, y)  BY ItsOwnStep
    <2>2. /\ of[y] = None /\ clock' = clock /\ revoked' = revoked \cup request[t].old
          /\ expires' = [expires EXCEPT ![y] = request[t].expires]
          /\ replaced'[x] = IF x \in request[t].active THEN request[t].now ELSE replaced[x]
      BY <2>1 DEF Issue, RevokedByRenewal, Replaces
    <2>3. x # y /\ x \notin revoked /\ ~Expired(x, clock) /\ replaced[x] = None
      BY <2>2 DEF Active, IsValid
    <2>4. x \notin revoked'  BY <2>2, <2>3 DEF TokensInv, Sound, OldOnesAreReplaced
    <2>5. ~Expired(x, clock)'  BY <2>2, <2>3 DEF Expired, TokensInv, TypeOK
    <2>6. ~PastOverlap(x, clock)'
      <3>1. request[t] \in Request /\ clock \in Nat  BY ClockType DEF TokensInv, TypeOK
      <3>2. request[t].now \in Nat  BY <3>1, ServiceTokensAssumption DEF Request, Time
      <3>3. clock <= request[t].now + Patience  BY DEF TokensInv, Sound, InTime
      <3>4. clock < request[t].now + Overlap  BY <3>1, <3>2, <3>3, ServiceTokensAssumption
      <3> QED  BY <2>2, <2>3, <3>1, <3>2, <3>4, ServiceTokensAssumption DEF PastOverlap
    <2> QED  BY <2>4, <2>5, <2>6 DEF IsValid
  <1> QED  BY <1>1, TokensInvAlways, PTL DEF Spec, RenewalSparesTheActive

=============================================================================
