--------------------------- MODULE OrgRolesProofs ---------------------------
(***************************************************************************)
(* What the roles' rules guarantee, and what their implementation does     *)
(* under any number of concurrent requests.  The argument for the latter:  *)
(* nobody writes a row that another thread holds (HeldRowsStay), so what a *)
(* thread knows of the rows it holds (Knows) stays true until it commits.  *)
(***************************************************************************)
EXTENDS OrgRoles, TLAPS

-----------------------------------------------------------------------------
(* The rules.                                                              *)

RulesInv ==
    /\ role \in [People -> Roles \cup {None}]
    /\ account \in [People -> {"none", "open", "closed"}]
    /\ \A p \in People : role[p] # None => account[p] = "open"
    /\ \E p \in People : role[p] = Owner

LEMMA RulesInvInit == RulesInit => RulesInv
BY DEF RulesInit, RulesInv, ActiveOwners

LEMMA RulesInvStep ==
    ASSUME RulesInv, [RulesNext]_<<role, account>>
    PROVE  RulesInv'
<1> USE DEF RulesInv, Roles, Member, Admin, Owner
<1>n. None \notin Roles
  BY OrgRulesAssumption
<1>1. CASE UNCHANGED <<role, account>>
  BY <1>1
<1>2. CASE OpenAccountsJoin
  <2>1. PICK o \in People : role[o] = Owner
    OBVIOUS
  <2>2. \A p \in People : RoleOnJoining(p) \in Roles
    BY DEF RoleOnJoining
  <2>3. role'[o] = Owner
    BY <1>2, <1>n, <2>1 DEF OpenAccountsJoin
  <2> QED
    BY <1>2, <1>n, <2>2, <2>3 DEF OpenAccountsJoin
<1>3. ASSUME NEW p \in People, StepsDown(p)
      PROVE  RulesInv'
  <2>1. PICK new \in Roles : role' = [role EXCEPT ![p] = new]
    BY <1>3 DEF StepsDown
  <2>2. role[p] # None
    BY <1>3 DEF StepsDown
  <2>3. PICK o \in People \ {p} : role[o] = Owner
    BY <1>3 DEF StepsDown, ActiveOwners
  <2> QED
    BY <1>3, <2>1, <2>2, <2>3 DEF StepsDown
<1>4. ASSUME NEW p \in People, SignsUp(p)
      PROVE  RulesInv'
  <2>1. PICK o \in People : role[o] = Owner
    OBVIOUS
  <2>2. RoleOnJoining(p) \in Roles
    BY DEF RoleOnJoining
  <2>3. o # p /\ role'[o] = Owner
    BY <1>4, <1>n, <2>1 DEF SignsUp
  <2> QED
    BY <1>4, <2>2, <2>3 DEF SignsUp
<1>5. ASSUME NEW p \in People, NEW actor \in People, ChangesRoleOf(actor, p)
      PROVE  RulesInv'
  <2>1. PICK new \in Roles : role' = [role EXCEPT ![p] = new]
    BY <1>5 DEF ChangesRoleOf
  <2>2. role'[actor] = Owner /\ role[p] # None /\ account' = account
    BY <1>5, <1>n, <2>1 DEF ChangesRoleOf
  <2> QED
    BY <2>1, <2>2
<1>6. ASSUME NEW p \in People, NEW actor \in People, HandsOver(actor, p)
      PROVE  RulesInv'
  <2>1. role'[p] = Owner /\ role[actor] # None /\ account' = account
    BY <1>6, <1>n DEF HandsOver
  <2>2. \A q \in People : role'[q] \in {role[q], Owner, Admin} /\ (q \notin {p, actor} => role'[q] = role[q])
    BY <1>6 DEF HandsOver
  <2>3. role' \in [People -> Roles \cup {None}]
    BY <1>6 DEF HandsOver
  <2>4. role[p] # None
    BY <1>6 DEF HandsOver
  <2> QED
    BY <2>1, <2>2, <2>3, <2>4
<1>7. ASSUME NEW p \in People, NEW actor \in People, Removes(actor, p)
      PROVE  RulesInv'
  <2>1. PICK o \in People : role[o] = Owner
    OBVIOUS
  <2>2. o # p
    <3>1. SUFFICES ASSUME o = p PROVE FALSE
      OBVIOUS
    <3>2. role[actor] \in Roles /\ Rank[Owner] < Rank[role[actor]]
      BY <1>7, <2>1, <3>1 DEF Removes
    <3> QED
      BY <3>2 DEF Rank
  <2> QED
    BY <1>7, <2>1, <2>2 DEF Removes
<1> QED
  BY <1>1, <1>2, <1>3, <1>4, <1>5, <1>6, <1>7 DEF RulesNext

\* There is always an owner, for any people and any first owner, when the rules are followed one
\* change at a time (the step down's refusal and the handover's order in organization.py).
THEOREM RulesKeepAnOwner == RulesSpec => []AtLeastOneOwner
<1>1. RulesInv => AtLeastOneOwner
  BY OrgRulesAssumption DEF RulesInv, AtLeastOneOwner, ActiveOwners, Owner
<1> QED
  BY <1>1, RulesInvInit, RulesInvStep, PTL DEF RulesSpec

-----------------------------------------------------------------------------
(* Their implementation: types.                                            *)

LEMMA RolesArePlain == None \notin Roles /\ \A r \in Roles : Rank[r] \in 0 .. 2
BY OrgRulesAssumption DEF Roles, Rank, Member, Admin, Owner

LEMMA IdleIsARequest == \A a \in Answers : Idle(a) \in Request
<1>1. Anyone \in People
  BY OrgRulesAssumption DEF Anyone
<1> QED
  BY <1>1 DEF Idle, Request, Steps, Ops, Roles, Member

LEMMA EndsIsTyped ==
    ASSUME TypeOK, NEW t \in Threads, NEW a \in Answers, Ends(t, a)
    PROVE  request' \in [Threads -> Request] /\ lock' \in [People -> Threads \cup {None}]
BY IdleIsARequest DEF Ends, TypeOK

LEMMA MovesIsTyped ==
    ASSUME TypeOK, NEW t \in Threads, NEW r \in Request, NEW s \in Steps, Moves(t, r, s)
    PROVE  request' \in [Threads -> Request]
<1>1. [r EXCEPT !.step = s] \in Request
  BY DEF Request
<1> QED
  BY <1>1 DEF Moves, TypeOK

LEMMA HoldingIsTyped ==
    ASSUME TypeOK, NEW t \in Threads, NEW p \in People, Holding(t, p)
    PROVE  lock' \in [People -> Threads \cup {None}]
BY DEF Holding, TypeOK

LEMMA OwnersAreFree == ActiveOwners \subseteq People /\ Joiners \subseteq People
BY DEF ActiveOwners, Joiners

LEMMA TypeOKInit == Init => TypeOK
<1> SUFFICES ASSUME Init PROVE TypeOK
  OBVIOUS
<1>1. "none" \in Answers
  BY DEF Answers
<1> QED
  BY <1>1, IdleIsARequest, OrgRolesAssumption DEF Init, RulesInit, TypeOK

LEMMA ReceiveIsTyped ==
    ASSUME TypeOK, NEW t \in Threads, NEW op \in Ops, NEW actor \in People, NEW target \in People,
           NEW new \in Roles, Receive(t, op, actor, target, new)
    PROVE  TypeOK'
<1> DEFINE r == [Idle("none") EXCEPT !.op = op, !.actor = actor, !.target = target, !.new = new,
                                     !.mine = role[actor]]
<1>1. Idle("none") \in Request
  BY IdleIsARequest DEF Answers
<1>2. role[actor] \in Roles \cup {None}
  BY DEF TypeOK
<1>3. r \in Request
  BY <1>1, <1>2 DEF Request
<1>4. requests' \in 0 .. MaxRequests
  BY OrgRolesAssumption DEF Receive, TypeOK
<1> HIDE DEF r
<1>5. CASE role[actor] = None \/ (op = "remove" /\ target = actor)
  <2>1. Ends(t, "refused") /\ "refused" \in Answers
    BY <1>5 DEF Receive, Answers
  <2> QED
    BY <1>4, <2>1, EndsIsTyped DEF Receive, TypeOK
<1>6. CASE ~(role[actor] = None \/ (op = "remove" /\ target = actor))
  <2>1. Moves(t, r, "theirs") /\ "theirs" \in Steps /\ UNCHANGED lock
    BY <1>6 DEF Receive, Steps, r
  <2>2. request' \in [Threads -> Request]
    BY <1>3, <2>1, MovesIsTyped
  <2> QED
    BY <1>4, <2>1, <2>2 DEF Receive, TypeOK
<1> QED
  BY <1>5, <1>6

\* What ReadTarget makes of a request.
Loaded(q) == [q EXCEPT !.theirs = IF q.target = q.actor THEN q.mine ELSE role[q.target]]

LEMMA LoadedIsTyped ==
    ASSUME TypeOK, NEW t \in Threads
    PROVE  Loaded(request[t]) \in Request
<1>1. request[t] \in Request
  BY DEF TypeOK
<1>2. request[t].mine \in Roles \cup {None} /\ role[request[t].target] \in Roles \cup {None}
  BY <1>1 DEF TypeOK, Request
<1> QED
  BY <1>1, <1>2 DEF Loaded, Request

\* Whatever the rules say, ReadTarget ends the request or moves it on to one of these steps.
LEMMA ReadTargetOutcomes ==
    ASSUME NEW t \in Threads, ReadTarget(t)
    PROVE  /\ request[t].step = "theirs"
           /\ UNCHANGED <<role, account, requests, crossed>>
           /\ \/ \E a \in {"refused", "ok"} : Ends(t, a)
              \/ /\ UNCHANGED lock
                 /\ \E s \in {"owners", "write", "account", "remove"} :
                       /\ Moves(t, Loaded(request[t]), s)
                       /\ s = "write" => ~LosesAnOwner(Loaded(request[t]))
BY DEF ReadTarget, Loaded

LEMMA ReadTargetIsTyped ==
    ASSUME TypeOK, NEW t \in Threads, ReadTarget(t)
    PROVE  TypeOK'
<1>1. CASE \E a \in {"refused", "ok"} : Ends(t, a)
  <2>1. PICK a \in Answers : Ends(t, a)
    BY <1>1 DEF Answers
  <2> QED
    BY <2>1, EndsIsTyped, ReadTargetOutcomes DEF TypeOK
<1>2. CASE UNCHANGED lock /\ \E s \in {"owners", "write", "account", "remove"} :
              Moves(t, Loaded(request[t]), s)
  <2>1. PICK s \in Steps : Moves(t, Loaded(request[t]), s)
    BY <1>2 DEF Steps
  <2>2. request' \in [Threads -> Request]
    BY <2>1, LoadedIsTyped, MovesIsTyped
  <2> QED
    BY <1>2, <2>2, ReadTargetOutcomes DEF TypeOK
<1> QED
  BY <1>1, <1>2, ReadTargetOutcomes

LEMMA OwnersStepsAreTyped ==
    ASSUME TypeOK, NEW t \in Threads, FindOwners(t) \/ LockOwner(t) \/ OwnersLocked(t)
    PROVE  TypeOK'
<1>r. request[t] \in Request
  BY DEF TypeOK
<1>1. CASE FindOwners(t)
  <2>1. [request[t] EXCEPT !.toLock = ActiveOwners] \in Request
    BY <1>r, OwnersAreFree DEF Request
  <2>2. request' \in [Threads -> Request]
    BY <1>1, <2>1, MovesIsTyped DEF FindOwners, Steps
  <2> QED
    BY <1>1, <2>2 DEF FindOwners, TypeOK
<1>2. CASE LockOwner(t)
  <2>1. PICK p \in request[t].toLock :
            /\ IF account[p] = "open" THEN Holding(t, p) ELSE UNCHANGED lock
            /\ request' = [request EXCEPT ![t].toLock = @ \ {p},
                                ![t].owners = IF p \in ActiveOwners THEN @ \cup {p} ELSE @]
    BY <1>2 DEF LockOwner
  <2>2. p \in People
    BY <1>r DEF Request
  <2> DEFINE q == [request[t] EXCEPT !.toLock = @ \ {p},
                                     !.owners = IF p \in ActiveOwners THEN @ \cup {p} ELSE @]
  <2>3. q \in Request
    BY <1>r, <2>2 DEF Request
  <2>4. request' = [request EXCEPT ![t] = q]
    BY <2>1 DEF TypeOK
  <2>5. request' \in [Threads -> Request]
    BY <2>3, <2>4 DEF TypeOK
  <2>6. lock' \in [People -> Threads \cup {None}]
    BY <2>1, <2>2, HoldingIsTyped DEF TypeOK
  <2> QED
    BY <1>2, <2>5, <2>6 DEF LockOwner, TypeOK
<1>3. CASE OwnersLocked(t)
  <2>1. CASE Ends(t, "refused")
    <3>1. "refused" \in Answers
      BY DEF Answers
    <3> QED
      BY <1>3, <2>1, <3>1, EndsIsTyped DEF OwnersLocked, TypeOK
  <2>2. CASE Moves(t, request[t], "write") /\ UNCHANGED lock
    <3>1. request' \in [Threads -> Request]
      BY <1>r, <2>2, MovesIsTyped DEF Steps
    <3> QED
      BY <1>3, <2>2, <3>1 DEF OwnersLocked, TypeOK
  <2> QED
    BY <1>3, <2>1, <2>2 DEF OwnersLocked
<1> QED
  BY <1>1, <1>2, <1>3

LEMMA TransferStepsAreTyped ==
    ASSUME TypeOK, NEW t \in Threads, ReadAccount(t) \/ Promote(t)
    PROVE  TypeOK'
<1>r. request[t] \in Request /\ request[t].target \in People
  BY DEF TypeOK, Request
<1>1. CASE \E a \in {"refused", "error"} : Ends(t, a) /\ UNCHANGED <<role, account, requests, crossed>>
  <2>1. PICK a \in Answers : Ends(t, a)
    BY <1>1 DEF Answers
  <2> QED
    BY <1>1, <2>1, EndsIsTyped DEF TypeOK
<1>2. CASE /\ \E s \in {"promote", "stepdown"} : Moves(t, request[t], s)
           /\ UNCHANGED lock \/ Holding(t, request[t].target)
           /\ UNCHANGED <<role, account, requests, crossed>>
  <2>1. PICK s \in Steps : Moves(t, request[t], s)
    BY <1>2 DEF Steps
  <2>2. request' \in [Threads -> Request]
    BY <1>r, <2>1, MovesIsTyped
  <2> QED
    BY <1>r, <1>2, <2>2, HoldingIsTyped DEF TypeOK
<1> QED
  BY <1>1, <1>2 DEF ReadAccount, Promote

\* The steps that write end their transaction.
LEMMA WritesAreTyped ==
    ASSUME TypeOK, NEW t \in Threads,
           \/ WriteRole(t) \/ StepDown(t) \/ RemoveMember(t) \/ Started(t) \/ BreakDeadlock(t)
    PROVE  TypeOK'
<1>r. /\ request[t] \in Request
      /\ request[t].target \in People /\ request[t].new \in Roles
  BY DEF TypeOK, Request
<1>1. \E a \in {"ok", "error"} : Ends(t, a)
  BY DEF WriteRole, StepDown, RemoveMember, Started, BreakDeadlock
<1>2. request' \in [Threads -> Request] /\ lock' \in [People -> Threads \cup {None}]
  BY <1>1, EndsIsTyped DEF Answers
<1>3. requests' = requests /\ crossed' \subseteq People
  BY <1>r DEF WriteRole, StepDown, RemoveMember, Started, BreakDeadlock, TypeOK
<1>4. account' \in [People -> {"none", "open", "closed"}]
  BY <1>r DEF WriteRole, StepDown, RemoveMember, Started, BreakDeadlock, TypeOK
<1>5. role' \in [People -> Roles \cup {None}]
  <2>1. HandedOver(request[t]) \in [People -> Roles \cup {None}]
    BY <1>r DEF HandedOver, TypeOK, Roles
  <2>2. AfterStartup(request[t]) \in [People -> Roles \cup {None}]
    BY <1>r DEF AfterStartup, JoinedAs, TypeOK, Roles
  <2> QED
    BY <1>r, <2>1, <2>2 DEF WriteRole, StepDown, RemoveMember, Started, BreakDeadlock, TypeOK
<1> QED
  BY <1>2, <1>3, <1>4, <1>5 DEF TypeOK

LEMMA StartsAreTyped ==
    ASSUME TypeOK,
           \/ \E p \in People : SignUp(p)
           \/ \E t \in Threads : Start(t) \/ Join(t) \/ ReadOwners(t) \/ ReadConfigured(t)
    PROVE  TypeOK'
<1>1. ASSUME NEW p \in People, SignUp(p)
      PROVE  TypeOK'
  <2>1. RoleOnJoining(p) \in Roles
    BY DEF RoleOnJoining, Roles
  <2> QED
    BY <1>1, <2>1 DEF SignUp, SignsUp, TypeOK
<1>2. ASSUME NEW t \in Threads, NEW r \in Request, NEW s \in Steps, Moves(t, r, s),
             UNCHANGED <<role, account, requests, crossed>>,
             lock' \in [People -> Threads \cup {None}]
      PROVE  TypeOK'
  <2>1. request' \in [Threads -> Request]
    BY <1>2, MovesIsTyped
  <2> QED
    BY <1>2, <2>1 DEF TypeOK
<1>3. ASSUME NEW t \in Threads, Start(t)
      PROVE  TypeOK'
  <2>1. Idle("none") \in Request
    BY IdleIsARequest DEF Answers
  <2>2. [Idle("none") EXCEPT !.toJoin = Joiners] \in Request
    BY <2>1, OwnersAreFree DEF Request
  <2> QED
    BY <1>2, <1>3, <2>2 DEF Start, Steps, TypeOK
<1>4. ASSUME NEW t \in Threads, Join(t)
      PROVE  TypeOK'
  <2> DEFINE r == request[t]
  <2>r. r \in Request
    BY DEF TypeOK
  <2>1. PICK p \in People, a \in Roles :
           /\ UNCHANGED <<role, account, requests, crossed>>
           /\ \/ Moves(t, [r EXCEPT !.toJoin = @ \ {p}], "joining") /\ UNCHANGED lock
              \/ Ends(t, "error")
              \/ /\ Holding(t, p)
                 /\ Moves(t, [[r EXCEPT !.toJoin = @ \ {p}]
                                 EXCEPT !.joining = @ \cup {p}, !.new = a], "joining")
    <3>1. PICK p \in r.toJoin :
             LET left == [r EXCEPT !.toJoin = @ \ {p}]
                 its == IF p = Bootstrap THEN RoleOnJoining(p) ELSE r.new
             IN
             \/ /\ role[p] # None
                /\ \/ Moves(t, left, "joining") /\ UNCHANGED lock
                   \/ Ends(t, "error")
             \/ /\ role[p] = None
                /\ Free(t, p)
                /\ Holding(t, p)
                /\ Moves(t, [left EXCEPT !.joining = @ \cup {p}, !.new = its], "joining")
      BY <1>4 DEF Join
    <3>2. p \in People /\ (IF p = Bootstrap THEN RoleOnJoining(p) ELSE r.new) \in Roles
      BY <2>r DEF Request, RoleOnJoining, Roles
    <3>3. UNCHANGED <<role, account, requests, crossed>>
      BY <1>4 DEF Join
    <3> HIDE DEF r
    <3> QED
      BY <3>1, <3>2, <3>3
  <2>2. [r EXCEPT !.toJoin = @ \ {p}] \in Request
    BY <2>r DEF Request
  <2>3. [[r EXCEPT !.toJoin = @ \ {p}] EXCEPT !.joining = @ \cup {p}, !.new = a] \in Request
    BY <2>r DEF Request
  <2> HIDE DEF r
  <2>4. "joining" \in Steps /\ "error" \in Answers
    BY DEF Steps, Answers
  <2>5. CASE Ends(t, "error")
    BY <2>1, <2>4, <2>5, EndsIsTyped DEF TypeOK
  <2>6. CASE Moves(t, [r EXCEPT !.toJoin = @ \ {p}], "joining") /\ UNCHANGED lock
    BY <1>2, <2>1, <2>2, <2>4, <2>6 DEF TypeOK
  <2>7. CASE /\ Holding(t, p)
             /\ Moves(t, [[r EXCEPT !.toJoin = @ \ {p}]
                             EXCEPT !.joining = @ \cup {p}, !.new = a], "joining")
    BY <1>2, <2>1, <2>3, <2>4, <2>7, HoldingIsTyped
  <2> QED
    BY <2>1, <2>5, <2>6, <2>7
<1>5. ASSUME NEW t \in Threads, ReadOwners(t) \/ ReadConfigured(t)
      PROVE  TypeOK'
  <2> DEFINE r == request[t]
  <2>r. r \in Request
    BY DEF TypeOK
  <2>1. CASE ReadOwners(t)
    <3>1. PICK s \in Steps : Moves(t, r, s)
      BY <2>1 DEF ReadOwners, Steps
    <3> QED
      BY <1>2, <2>r, <2>1, <3>1 DEF ReadOwners, TypeOK
  <2>2. CASE ReadConfigured(t)
    <3>1. PICK m \in Roles \cup {None} : Moves(t, [r EXCEPT !.mine = m], "startup")
      <4> DEFINE m == IF Bootstrap # None /\ account[Bootstrap] = "open"
                      THEN IF Bootstrap \in r.joining THEN r.new ELSE role[Bootstrap]
                      ELSE None
      <4>1. m \in Roles \cup {None}
        BY <2>r, OrgRulesAssumption DEF TypeOK, Request
      <4>2. Moves(t, [r EXCEPT !.mine = m], "startup")
        BY <2>2 DEF ReadConfigured
      <4> QED
        BY <4>1, <4>2
    <3>2. [r EXCEPT !.mine = m] \in Request
      BY <2>r, <3>1 DEF Request
    <3> HIDE DEF r
    <3> QED
      BY <1>2, <2>2, <3>1, <3>2 DEF ReadConfigured, Steps, TypeOK
  <2> QED
    BY <1>5, <2>1, <2>2
<1> QED
  BY <1>1, <1>3, <1>4, <1>5

LEMMA TypeOKStep ==
    ASSUME TypeOK, [Next]_vars
    PROVE  TypeOK'
<1>1. CASE UNCHANGED vars
  BY <1>1 DEF vars, TypeOK
<1>2. CASE Next
  BY <1>2, ReceiveIsTyped, ReadTargetIsTyped, OwnersStepsAreTyped, TransferStepsAreTyped,
     WritesAreTyped, StartsAreTyped DEF Next, ThreadStep
<1> QED
  BY <1>1, <1>2

\* The types are kept whatever requests interleave.
THEOREM OrgRolesTypeOK == Spec => []TypeOK
BY TypeOKInit, TypeOKStep, PTL DEF Spec

-----------------------------------------------------------------------------
(* What a thread knows of the rows it holds.                               *)

Knows(t) ==
    LET r == request[t] IN
    /\ r.step \in {"theirs", "owners"} => r.owners = {}
    /\ r.step = "lock" => \A p \in r.owners : lock[p] = t /\ p \in ActiveOwners
    /\ (r.step = "write" /\ LosesAnOwner(r))
          => \E p \in r.owners \ {r.target} : lock[p] = t /\ p \in ActiveOwners
    /\ (r.step = "stepdown" /\ r.theirs # Owner) => lock[r.target] = t /\ role[r.target] # None
    /\ r.step = "joining" => \A p \in r.toJoin : account[p] = "open" \/ p \in crossed
    /\ r.step \in {"joining", "configured", "startup"}
          => \A p \in r.joining : lock[p] = t /\ (account[p] = "open" \/ p \in crossed)

\* Whoever a removal crossed has a closed account, for good.
StayOut ==
    /\ RemovedStayOut
    /\ \A p \in crossed : account[p] = "closed"

LockInv ==
    /\ TypeOK
    /\ StayOut
    /\ \A t \in Threads : Knows(t)

LEMMA LockInvInit == Init => LockInv
BY TypeOKInit DEF Init, RulesInit, LockInv, StayOut, RemovedStayOut, Knows, Idle

LEMMA EndsKnows ==
    ASSUME TypeOK, NEW t \in Threads, NEW a \in Answers, Ends(t, a)
    PROVE  Knows(t)'
<1>1. request'[t].step = "idle"
  BY DEF Ends, Idle, TypeOK
<1> QED
  BY <1>1 DEF Knows

LEMMA KnowledgeStays ==
    ASSUME LockInv, NEW u \in Threads, request'[u] = request[u], crossed \subseteq crossed',
           \A p \in People : lock[p] = u =>
               /\ lock'[p] = u
               /\ role[p] # None => role'[p] = role[p]
               /\ account[p] = "open" => account'[p] = "open",
           \A p \in request[u].toJoin :
               account[p] = "open" => account'[p] = "open" \/ p \in crossed'
    PROVE  Knows(u)'
<1> DEFINE r == request[u]
<1>1. Knows(u) /\ r \in Request
  BY DEF LockInv, TypeOK
<1>2. r.owners \subseteq People /\ r.joining \subseteq People /\ r.target \in People
  BY <1>1 DEF Request
<1>3. \A p \in People : lock[p] = u /\ p \in ActiveOwners => lock'[p] = u /\ p \in ActiveOwners'
  BY OrgRulesAssumption DEF ActiveOwners, Owner
<1>4. r.step = "lock" => \A p \in r.owners : lock'[p] = u /\ p \in ActiveOwners'
  <2>1. r.step = "lock" => \A p \in r.owners : lock[p] = u /\ p \in ActiveOwners
    BY <1>1 DEF Knows
  <2> QED
    BY <2>1, <1>2, <1>3
<1>5. (r.step = "write" /\ LosesAnOwner(r))
         => \E p \in r.owners \ {r.target} : lock'[p] = u /\ p \in ActiveOwners'
  <2>1. (r.step = "write" /\ LosesAnOwner(r))
           => \E p \in r.owners \ {r.target} : lock[p] = u /\ p \in ActiveOwners
    BY <1>1 DEF Knows
  <2> QED
    BY <2>1, <1>2, <1>3
<1>6. (r.step = "stepdown" /\ r.theirs # Owner) => lock'[r.target] = u /\ role'[r.target] # None
  <2>1. (r.step = "stepdown" /\ r.theirs # Owner) => lock[r.target] = u /\ role[r.target] # None
    BY <1>1 DEF Knows
  <2> QED
    BY <2>1, <1>2
<1>7. r.step = "joining" => \A p \in r.toJoin : account'[p] = "open" \/ p \in crossed'
  BY <1>1 DEF Knows
<1>8. r.step \in {"joining", "configured", "startup"}
         => \A p \in r.joining : lock'[p] = u /\ (account'[p] = "open" \/ p \in crossed')
  <2>1. r.step \in {"joining", "configured", "startup"}
           => \A p \in r.joining : lock[p] = u /\ (account[p] = "open" \/ p \in crossed)
    BY <1>1 DEF Knows
  <2> QED
    BY <2>1, <1>2
<1>9. r.step \in {"theirs", "owners"} => r.owners = {}
  BY <1>1 DEF Knows
<1>10. LosesAnOwner(request[u])' <=> LosesAnOwner(r)
  BY DEF LosesAnOwner
<1> QED
  BY <1>4, <1>5, <1>6, <1>7, <1>8, <1>9, <1>10 DEF Knows

\* What t's step leaves as it was: the other threads' requests, the rows they hold, and the
\* accounts they have to join, but for those it marks as crossed.
Spares(t) ==
    /\ \A u \in Threads \ {t} : request'[u] = request[u]
    /\ crossed \subseteq crossed'
    /\ \A p \in People : lock[p] \in Threads \ {t} =>
          /\ lock'[p] = lock[p]
          /\ role[p] # None => role'[p] = role[p]
          /\ account[p] = "open" => account'[p] = "open"
    /\ \A u \in Threads \ {t} : \A p \in request[u].toJoin :
          account[p] = "open" => account'[p] = "open" \/ p \in crossed'

LEMMA OthersKnow ==
    ASSUME LockInv, NEW t \in Threads, Spares(t), NEW u \in Threads \ {t}
    PROVE  Knows(u)'
<1>1. /\ request'[u] = request[u]
      /\ crossed \subseteq crossed'
      /\ \A p \in request[u].toJoin :
            account[p] = "open" => account'[p] = "open" \/ p \in crossed'
  BY DEF Spares
<1>2. \A p \in People : lock[p] = u =>
         /\ lock'[p] = u
         /\ role[p] # None => role'[p] = role[p]
         /\ account[p] = "open" => account'[p] = "open"
  BY DEF Spares
<1> QED
  BY <1>1, <1>2, KnowledgeStays

-----------------------------------------------------------------------------
(* The steps that only read and lock.                                      *)

LEMMA EndsSpares ==
    ASSUME TypeOK, NEW t \in Threads, NEW a \in Answers, Ends(t, a),
           UNCHANGED <<role, account, crossed>>
    PROVE  Spares(t)
BY DEF Ends, Spares, TypeOK

LEMMA MovesSpares ==
    ASSUME TypeOK, NEW t \in Threads, NEW r \in Request, NEW s \in Steps, Moves(t, r, s),
           UNCHANGED <<role, account, lock, crossed>>
    PROVE  Spares(t)
BY DEF Moves, Spares, TypeOK

LEMMA ReceiveKnows ==
    ASSUME LockInv, NEW t \in Threads, NEW op \in Ops, NEW actor \in People, NEW target \in People,
           NEW new \in Roles, Receive(t, op, actor, target, new)
    PROVE  Spares(t) /\ Knows(t)'
<1> DEFINE r == [Idle("none") EXCEPT !.op = op, !.actor = actor, !.target = target, !.new = new,
                                     !.mine = role[actor]]
<1>1. CASE Ends(t, "refused")
  <2>1. "refused" \in Answers /\ UNCHANGED <<role, account, crossed>>
    BY DEF Answers, Receive
  <2> QED
    BY <1>1, <2>1, EndsKnows, EndsSpares DEF LockInv
<1>2. CASE Moves(t, r, "theirs") /\ UNCHANGED lock
  <2>1. r.owners = {}
    BY DEF Idle
  <2>2. request'[t].step = "theirs" /\ request'[t].owners = {}
    BY <1>2, <2>1 DEF Moves, LockInv, TypeOK, Idle
  <2>3. Spares(t)
    BY <1>2 DEF Moves, Spares, LockInv, TypeOK, Receive
  <2> QED
    BY <2>2, <2>3 DEF Knows
<1> QED
  BY <1>1, <1>2 DEF Receive

LEMMA ReadTargetKnows ==
    ASSUME LockInv, NEW t \in Threads, ReadTarget(t)
    PROVE  Spares(t) /\ Knows(t)'
<1>1. CASE \E a \in {"refused", "ok"} : Ends(t, a)
  <2>1. PICK a \in Answers : Ends(t, a)
    BY <1>1 DEF Answers
  <2> QED
    BY <2>1, EndsKnows, EndsSpares, ReadTargetOutcomes DEF LockInv
<1>2. CASE /\ UNCHANGED lock
           /\ \E s \in {"owners", "write", "account", "remove"} :
                 /\ Moves(t, Loaded(request[t]), s)
                 /\ s = "write" => ~LosesAnOwner(Loaded(request[t]))
  <2>1. PICK s \in {"owners", "write", "account", "remove"} :
           /\ Moves(t, Loaded(request[t]), s)
           /\ s = "write" => ~LosesAnOwner(Loaded(request[t]))
    BY <1>2
  <2>2. s \in Steps /\ Loaded(request[t]) \in Request
    BY LoadedIsTyped DEF Steps, LockInv
  <2>3. Spares(t)
    BY <1>2, <2>1, <2>2, MovesSpares, ReadTargetOutcomes DEF LockInv
  <2>4. Loaded(request[t]).owners = {}
    <3>1. request[t].owners = {} /\ request[t] \in Request
      BY ReadTargetOutcomes DEF LockInv, Knows, TypeOK
    <3> QED
      BY <3>1 DEF Loaded, Request
  <2>5. request'[t] = [Loaded(request[t]) EXCEPT !.step = s]
    BY <2>1 DEF Moves, LockInv, TypeOK
  <2>6. /\ request'[t].step = s /\ request'[t].owners = {}
        /\ LosesAnOwner(request'[t]) <=> LosesAnOwner(Loaded(request[t]))
    BY <2>2, <2>4, <2>5 DEF LosesAnOwner, Request
  <2>7. LosesAnOwner(request[t])' <=> LosesAnOwner(request'[t])
    BY DEF LosesAnOwner
  <2> QED
    BY <2>1, <2>3, <2>6, <2>7 DEF Knows
<1> QED
  BY <1>1, <1>2, ReadTargetOutcomes

LEMMA OwnersStepsKnow ==
    ASSUME LockInv, NEW t \in Threads, FindOwners(t) \/ LockOwner(t) \/ OwnersLocked(t)
    PROVE  Spares(t) /\ Knows(t)'
<1>r. request[t] \in Request /\ Knows(t)
  BY DEF LockInv, TypeOK
<1>1. CASE FindOwners(t)
  <2>1. request'[t].step = "lock" /\ request'[t].owners = {}
    BY <1>1, <1>r DEF FindOwners, Moves, Knows, LockInv, TypeOK, Request
  <2>2. Spares(t)
    BY <1>1 DEF FindOwners, Moves, Spares, LockInv, TypeOK
  <2> QED
    BY <2>1, <2>2 DEF Knows
<1>2. CASE LockOwner(t)
  <2>1. PICK p \in request[t].toLock :
            /\ Free(t, p)
            /\ IF account[p] = "open" THEN Holding(t, p) ELSE UNCHANGED lock
            /\ request' = [request EXCEPT ![t].toLock = @ \ {p},
                                ![t].owners = IF p \in ActiveOwners THEN @ \cup {p} ELSE @]
    BY <1>2 DEF LockOwner
  <2>2. p \in People /\ request[t].owners \subseteq People /\ request[t].step = "lock"
    BY <1>r, <1>2 DEF Request, LockOwner
  <2> DEFINE q == [request[t] EXCEPT !.toLock = @ \ {p},
                                     !.owners = IF p \in ActiveOwners THEN @ \cup {p} ELSE @]
  <2>3. request' = [request EXCEPT ![t] = q]
    BY <2>1 DEF LockInv, TypeOK
  <2>4. /\ request'[t].step = "lock"
        /\ request'[t].owners
              = IF p \in ActiveOwners THEN request[t].owners \cup {p} ELSE request[t].owners
    BY <1>r, <2>2, <2>3 DEF LockInv, TypeOK, Request
  <2>5. role' = role /\ account' = account /\ crossed' = crossed /\ ActiveOwners' = ActiveOwners
    BY <1>2 DEF LockOwner, ActiveOwners
  <2>6. /\ \A o \in People \ {p} : lock'[o] = lock[o]
        /\ lock[p] \in {None, t}
        /\ lock'[p] \in {lock[p], t}
        /\ p \in ActiveOwners => lock'[p] = t
    BY <2>1, <2>2 DEF Free, Holding, LockInv, TypeOK, ActiveOwners
  <2>7. Spares(t)
    <3>1. \A u \in Threads \ {t} : request'[u] = request[u]
      BY <2>3 DEF LockInv, TypeOK
    <3> QED
      BY <2>5, <2>6, <3>1, OrgRolesAssumption DEF Spares
  <2>8. \A o \in request'[t].owners : lock'[o] = t /\ o \in ActiveOwners'
    BY <1>r, <2>2, <2>4, <2>5, <2>6 DEF Knows
  <2> QED
    BY <2>4, <2>7, <2>8 DEF Knows
<1>3. CASE OwnersLocked(t)
  <2>1. CASE Ends(t, "refused")
    BY <1>3, <2>1, EndsKnows, EndsSpares DEF OwnersLocked, LockInv, Answers
  <2>2. CASE request[t].owners \ {request[t].target} # {} /\ Moves(t, request[t], "write") /\ UNCHANGED lock
    <3>1. /\ request'[t].step = "write"
          /\ request'[t].owners = request[t].owners
          /\ request'[t].target = request[t].target
      BY <1>r, <2>2 DEF Moves, LockInv, TypeOK, Request
    <3>2. \A p \in request[t].owners : lock'[p] = t /\ p \in ActiveOwners'
      BY <1>r, <1>3, <2>2 DEF OwnersLocked, Knows, ActiveOwners
    <3>3. Spares(t)
      BY <1>3, <2>2 DEF OwnersLocked, Moves, Spares, LockInv, TypeOK
    <3> QED
      BY <2>2, <3>1, <3>2, <3>3 DEF Knows
  <2> QED
    BY <1>3, <2>1, <2>2 DEF OwnersLocked
<1> QED
  BY <1>1, <1>2, <1>3

LEMMA TransferStepsKnow ==
    ASSUME LockInv, NEW t \in Threads, ReadAccount(t) \/ Promote(t)
    PROVE  Spares(t) /\ Knows(t)'
<1>r. request[t] \in Request /\ request[t].target \in People
  BY DEF LockInv, TypeOK, Request
<1>1. CASE \E a \in {"refused", "error"} : Ends(t, a) /\ UNCHANGED <<role, account, crossed>>
  BY <1>1, EndsKnows, EndsSpares DEF LockInv, Answers
<1>2. CASE /\ Moves(t, request[t], "promote") \/ (Moves(t, request[t], "stepdown") /\ request[t].theirs = Owner)
           /\ UNCHANGED <<role, account, lock, crossed>>
  <2>1. request'[t].step \in {"promote", "stepdown"} /\ (request'[t].step = "stepdown" => request'[t].theirs = Owner)
    BY <1>r, <1>2 DEF Moves, LockInv, TypeOK, Request
  <2>2. Spares(t)
    BY <1>2 DEF Moves, Spares, LockInv, TypeOK
  <2> QED
    BY <2>1, <2>2 DEF Knows
<1>3. CASE /\ Free(t, request[t].target) /\ role[request[t].target] # None
           /\ Moves(t, request[t], "stepdown") /\ Holding(t, request[t].target)
           /\ UNCHANGED <<role, account, crossed>>
  <2>1. request'[t].step = "stepdown" /\ request'[t].target = request[t].target
    BY <1>r, <1>3 DEF Moves, LockInv, TypeOK, Request
  <2>2. lock'[request[t].target] = t /\ role'[request[t].target] # None
    BY <1>r, <1>3 DEF Holding, LockInv, TypeOK
  <2>3. Spares(t)
    BY <1>r, <1>3, OrgRolesAssumption DEF Moves, Holding, Free, Spares, LockInv, TypeOK
  <2> QED
    BY <2>1, <2>2, <2>3 DEF Knows
<1> QED
  BY <1>1, <1>2, <1>3 DEF ReadAccount, Promote

-----------------------------------------------------------------------------
(* The steps that write.                                                   *)

\* A commit that writes, of the rows people hold, those alone that t holds or nobody does.
LEMMA CommitSpares ==
    ASSUME TypeOK, NEW t \in Threads, NEW a \in Answers, Ends(t, a),
           \A p \in People : (~Free(t, p) /\ role[p] # None) => role'[p] = role[p],
           \A p \in People : (~Free(t, p) /\ account[p] = "open") => account'[p] = "open",
           crossed \subseteq crossed',
           \A u \in Threads : \A p \in request[u].toJoin :
               account[p] = "open" => account'[p] = "open" \/ p \in crossed'
    PROVE  Spares(t) /\ Knows(t)'
<1>1. Knows(t)'
  BY EndsKnows
<1>2. \A u \in Threads \ {t} : request'[u] = request[u]
  BY DEF Ends, TypeOK
<1>3. \A p \in People : lock[p] \in Threads \ {t} => lock'[p] = lock[p] /\ ~Free(t, p)
  BY OrgRolesAssumption DEF Ends, Free
<1> QED
  BY <1>1, <1>2, <1>3 DEF Spares

LEMMA WriteRoleKnows ==
    ASSUME LockInv, NEW t \in Threads, WriteRole(t)
    PROVE  Spares(t) /\ Knows(t)' /\ StayOut'
<1>r. request[t].target \in People /\ Free(t, request[t].target)
  BY DEF LockInv, TypeOK, Request, WriteRole
<1>1. PICK a \in Answers : Ends(t, a)
  BY DEF WriteRole, Answers
<1>2. account' = account /\ crossed' = crossed
  BY DEF WriteRole
<1>3. \A p \in People \ {request[t].target} : role'[p] = role[p]
  BY <1>r DEF WriteRole, LockInv, TypeOK
<1>4. role[request[t].target] = None => role' = role
  BY DEF WriteRole
<1>5. Spares(t) /\ Knows(t)'
  BY <1>r, <1>1, <1>2, <1>3, CommitSpares DEF LockInv
<1> QED
  BY <1>r, <1>2, <1>3, <1>4, <1>5 DEF StayOut, RemovedStayOut, LockInv

LEMMA StepDownKnows ==
    ASSUME LockInv, NEW t \in Threads, StepDown(t)
    PROVE  Spares(t) /\ Knows(t)' /\ StayOut'
<1>r. request[t].target \in People /\ request[t].actor \in People /\ Free(t, request[t].actor)
  BY DEF LockInv, TypeOK, Request, StepDown
<1>k. request[t].theirs # Owner => lock[request[t].target] = t /\ role[request[t].target] # None
  BY DEF LockInv, Knows, StepDown
<1>1. PICK a \in Answers : Ends(t, a)
  BY DEF StepDown, Answers
<1>2. account' = account /\ crossed' = crossed
  BY DEF StepDown
<1>3. \A p \in People \ {request[t].target, request[t].actor} : role'[p] = role[p]
  BY <1>r DEF StepDown, HandedOver, LockInv, TypeOK
<1>4. role[request[t].actor] = None => role' = role
  BY DEF StepDown
<1>5. request[t].target # request[t].actor =>
         \/ role'[request[t].target] = role[request[t].target]
         \/ lock[request[t].target] = t /\ role[request[t].target] # None
  BY <1>r, <1>k DEF StepDown, HandedOver, LockInv, TypeOK
<1>6. Spares(t) /\ Knows(t)'
  <2>1. \A p \in People : ~Free(t, p) => role'[p] = role[p]
    BY <1>r, <1>3, <1>5 DEF Free
  <2> QED
    BY <1>1, <1>2, <2>1, CommitSpares DEF LockInv
<1>7. StayOut'
  <2>1. \A p \in People : role'[p] # role[p] => role[p] # None
    BY <1>r, <1>3, <1>4, <1>5
  <2> QED
    BY <1>2, <2>1 DEF StayOut, RemovedStayOut, LockInv
<1> QED
  BY <1>6, <1>7

LEMMA RemoveMemberKnows ==
    ASSUME LockInv, NEW t \in Threads, RemoveMember(t)
    PROVE  Spares(t) /\ Knows(t)' /\ StayOut'
<1>r. request[t].target \in People /\ Free(t, request[t].target)
  BY DEF LockInv, TypeOK, Request, RemoveMember
<1>1. Ends(t, "ok") /\ "ok" \in Answers
  BY DEF RemoveMember, Answers
<1>2. \A p \in People \ {request[t].target} : role'[p] = role[p] /\ account'[p] = account[p]
  BY <1>r DEF RemoveMember, LockInv, TypeOK
<1>3. role'[request[t].target] = None
  BY <1>r DEF RemoveMember, LockInv, TypeOK
<1>4. crossed \subseteq crossed'
  BY DEF RemoveMember
<1>5. \A u \in Threads : \A p \in request[u].toJoin :
         account[p] = "open" => account'[p] = "open" \/ p \in crossed'
  <2>1. \A u \in Threads : request[u].toJoin \subseteq People
    BY DEF LockInv, TypeOK, Request
  <2>2. \A u \in Threads : request[t].target \in request[u].toJoin => request[t].target \in crossed'
    BY DEF RemoveMember
  <2> QED
    BY <1>2, <2>1, <2>2
<1>6. Spares(t) /\ Knows(t)'
  BY <1>r, <1>1, <1>2, <1>4, <1>5, CommitSpares DEF LockInv
<1>7. StayOut'
  <2>1. account'[request[t].target] = "closed"
    BY <1>r DEF RemoveMember, LockInv, TypeOK
  <2>2. crossed' \subseteq crossed \cup {request[t].target} /\ crossed \subseteq People
    BY DEF RemoveMember, LockInv, TypeOK
  <2> QED
    BY <1>r, <1>2, <1>3, <1>4, <2>1, <2>2 DEF StayOut, RemovedStayOut, LockInv
<1> QED
  BY <1>6, <1>7

LEMMA StartedKnows ==
    ASSUME LockInv, NEW t \in Threads, Started(t)
    PROVE  Spares(t) /\ Knows(t)' /\ StayOut'
<1> DEFINE r == request[t]
<1>k. /\ r.joining \subseteq People
      /\ \A p \in r.joining : lock[p] = t /\ (account[p] = "open" \/ p \in crossed)
      /\ Promotes(r) => Free(t, Bootstrap)
  BY DEF LockInv, TypeOK, Request, Knows, Started
<1>1. PICK a \in Answers : Ends(t, a)
  BY DEF Started, Answers
<1>2. account' = account /\ crossed' = crossed
  BY DEF Started
<1>3. \A p \in People : role'[p] # role[p]
          => p \in r.joining \/ (Promotes(r) /\ p = Bootstrap /\ role[p] # None)
  BY DEF Started, AfterStartup, LockInv, TypeOK
<1>4. \A p \in People : ~Free(t, p) => role'[p] = role[p]
  BY <1>k, <1>3 DEF Free
<1>5. Spares(t) /\ Knows(t)'
  BY <1>1, <1>2, <1>4, CommitSpares DEF LockInv
<1>6. StayOut'
  BY <1>k, <1>2, <1>3 DEF StayOut, RemovedStayOut, LockInv
<1> QED
  BY <1>5, <1>6

LEMMA StartKnows ==
    ASSUME LockInv, NEW t \in Threads, Start(t)
    PROVE  Spares(t) /\ Knows(t)'
<1>1. /\ request'[t].step = "joining" /\ request'[t].toJoin = Joiners /\ request'[t].joining = {}
      /\ \A u \in Threads \ {t} : request'[u] = request[u]
  BY DEF Start, Moves, Idle, LockInv, TypeOK
<1>2. UNCHANGED <<role, account, lock, crossed>>
  BY DEF Start
<1>3. \A p \in Joiners : account'[p] = "open"
  BY <1>2 DEF Joiners
<1> QED
  BY <1>1, <1>2, <1>3 DEF Knows, Spares

\* The row t inserts is nobody else's, and its account was open when t read it.
LEMMA JoinKnows ==
    ASSUME LockInv, NEW t \in Threads, Join(t)
    PROVE  Spares(t) /\ Knows(t)'
<1> DEFINE r == request[t]
<1>r. /\ r \in Request /\ r.step = "joining"
      /\ r.toJoin \subseteq People /\ r.joining \subseteq People
      /\ \A p \in r.toJoin : account[p] = "open" \/ p \in crossed
      /\ \A p \in r.joining : lock[p] = t /\ (account[p] = "open" \/ p \in crossed)
  BY DEF LockInv, TypeOK, Request, Knows, Join
<1>u. UNCHANGED <<role, account, crossed>>
  BY DEF Join
<1>1. CASE Ends(t, "error")
  BY <1>1, <1>u, EndsKnows, EndsSpares DEF LockInv, Answers
<1>2. CASE /\ \A u \in Threads \ {t} : request'[u] = request[u]
           /\ request'[t].step = "joining"
           /\ \E p \in r.toJoin :
                 /\ request'[t].toJoin = r.toJoin \ {p}
                 /\ \/ request'[t].joining = r.joining /\ UNCHANGED lock
                    \/ request'[t].joining = r.joining \cup {p} /\ Free(t, p) /\ Holding(t, p)
  <2>1. PICK p \in r.toJoin :
           /\ request'[t].toJoin = r.toJoin \ {p}
           /\ \/ request'[t].joining = r.joining /\ UNCHANGED lock
              \/ request'[t].joining = r.joining \cup {p} /\ Free(t, p) /\ Holding(t, p)
    BY <1>2
  <2>2. \A q \in People : lock[q] \in Threads \ {t} => lock'[q] = lock[q]
    BY <1>r, <2>1, OrgRolesAssumption DEF Free, Holding, LockInv, TypeOK
  <2>3. \A q \in request'[t].joining : lock'[q] = t /\ (account[q] = "open" \/ q \in crossed)
    BY <1>r, <2>1 DEF Holding, LockInv, TypeOK
  <2>4. Spares(t)
    BY <1>2, <1>u, <2>2 DEF Spares
  <2>5. \A q \in request'[t].toJoin : account[q] = "open" \/ q \in crossed
    BY <1>r, <2>1
  <2> HIDE DEF r
  <2> QED
    BY <1>2, <1>u, <2>3, <2>4, <2>5 DEF Knows
<1>3. Ends(t, "error") \/ \E p \in r.toJoin :
         \/ Moves(t, [r EXCEPT !.toJoin = @ \ {p}], "joining") /\ UNCHANGED lock
         \/ /\ Free(t, p) /\ Holding(t, p)
            /\ \E a \in Roles :
                  Moves(t, [[r EXCEPT !.toJoin = @ \ {p}]
                              EXCEPT !.joining = @ \cup {p}, !.new = a], "joining")
  <2>1. \A p \in People : (IF p = Bootstrap THEN RoleOnJoining(p) ELSE r.new) \in Roles
    BY <1>r DEF Request, RoleOnJoining, Roles
  <2> QED
    BY <1>r, <2>1 DEF Join
<1>4. ASSUME NEW p \in r.toJoin,
             \/ Moves(t, [r EXCEPT !.toJoin = @ \ {p}], "joining") /\ UNCHANGED lock
             \/ /\ Free(t, p) /\ Holding(t, p)
                /\ \E a \in Roles :
                      Moves(t, [[r EXCEPT !.toJoin = @ \ {p}]
                                  EXCEPT !.joining = @ \cup {p}, !.new = a], "joining")
      PROVE  Spares(t) /\ Knows(t)'
  <2>1. \A u \in Threads \ {t} : request'[u] = request[u]
    BY <1>4 DEF Moves, LockInv, TypeOK
  <2>2. CASE Moves(t, [r EXCEPT !.toJoin = @ \ {p}], "joining") /\ UNCHANGED lock
    <3>1. request'[t] = [[r EXCEPT !.toJoin = @ \ {p}] EXCEPT !.step = "joining"]
      BY <2>2 DEF Moves, LockInv, TypeOK
    <3>2. /\ request'[t].step = "joining" /\ request'[t].toJoin = r.toJoin \ {p}
          /\ request'[t].joining = r.joining
      BY <1>r, <3>1 DEF Request
    <3> QED
      BY <1>2, <2>1, <2>2, <3>2
  <2>3. ASSUME NEW a \in Roles, Free(t, p), Holding(t, p),
               Moves(t, [[r EXCEPT !.toJoin = @ \ {p}]
                           EXCEPT !.joining = @ \cup {p}, !.new = a], "joining")
        PROVE  Spares(t) /\ Knows(t)'
    <3>1. request'[t] = [[[r EXCEPT !.toJoin = @ \ {p}]
                            EXCEPT !.joining = @ \cup {p}, !.new = a] EXCEPT !.step = "joining"]
      BY <2>3 DEF Moves, LockInv, TypeOK
    <3>2. /\ request'[t].step = "joining" /\ request'[t].toJoin = r.toJoin \ {p}
          /\ request'[t].joining = r.joining \cup {p}
      BY <1>r, <3>1 DEF Request
    <3> QED
      BY <1>2, <2>1, <2>3, <3>2
  <2> QED
    BY <1>4, <2>2, <2>3
<1> QED
  BY <1>1, <1>3, <1>4

LEMMA ReadOwnersKnows ==
    ASSUME LockInv, NEW t \in Threads, ReadOwners(t) \/ ReadConfigured(t)
    PROVE  Spares(t) /\ Knows(t)'
<1> DEFINE r == request[t]
<1>r. r \in Request /\ Knows(t) /\ r.step \in {"joining", "configured"}
  BY DEF LockInv, TypeOK, ReadOwners, ReadConfigured
<1>u. UNCHANGED <<role, account, lock, crossed>>
  BY DEF ReadOwners, ReadConfigured
<1>1. /\ request'[t].step \in {"configured", "startup"} /\ request'[t].joining = r.joining
      /\ \A u \in Threads \ {t} : request'[u] = request[u]
  <2> DEFINE m == IF Bootstrap # None /\ account[Bootstrap] = "open"
                  THEN IF Bootstrap \in r.joining THEN r.new ELSE role[Bootstrap]
                  ELSE None
  <2>1. ASSUME NEW q \in {r, [r EXCEPT !.mine = m]},
               NEW s \in {"configured", "startup"}, Moves(t, q, s)
        PROVE  /\ request'[t].step = s /\ request'[t].joining = r.joining
               /\ \A u \in Threads \ {t} : request'[u] = request[u]
    <3>1. /\ request'[t] = [q EXCEPT !.step = s]
          /\ \A u \in Threads \ {t} : request'[u] = request[u]
      BY <2>1 DEF Moves, LockInv, TypeOK
    <3>2. [q EXCEPT !.step = s].step = s /\ [q EXCEPT !.step = s].joining = r.joining
      BY <1>r DEF Request
    <3> QED
      BY <3>1, <3>2
  <2>2. CASE ReadOwners(t)
    <3>1. \E s \in {"configured", "startup"} : Moves(t, r, s)
      BY <2>2 DEF ReadOwners
    <3> HIDE DEF r
    <3> QED
      BY <2>1, <3>1
  <2>3. CASE ReadConfigured(t)
    BY <2>1, <2>3 DEF ReadConfigured
  <2> QED
    BY <2>2, <2>3
<1>2. \A p \in r.joining : lock[p] = t /\ (account[p] = "open" \/ p \in crossed)
  BY <1>r DEF Knows
<1> QED
  BY <1>u, <1>1, <1>2 DEF Knows, Spares

LEMMA SignUpKnows ==
    ASSUME LockInv, NEW p \in People, SignUp(p)
    PROVE  StayOut' /\ \A u \in Threads : Knows(u)'
<1>1. account[p] = "none" /\ UNCHANGED <<request, lock, crossed>>
  BY DEF SignUp, SignsUp
<1>2. role[p] = None
  BY <1>1 DEF LockInv, StayOut, RemovedStayOut
<1>3. \A q \in People \ {p} : role'[q] = role[q] /\ account'[q] = account[q]
  BY DEF SignUp, SignsUp, LockInv, TypeOK
<1>4. account'[p] = "open"
  BY DEF SignUp, SignsUp, LockInv, TypeOK
<1>5. \A q \in People : /\ role[q] # None => role'[q] = role[q]
                        /\ account[q] = "open" => account'[q] = "open"
  BY <1>1, <1>2, <1>3
<1>6. \A u \in Threads : Knows(u)'
  <2>1. \A u \in Threads : request[u].toJoin \subseteq People /\ request'[u] = request[u]
    BY <1>1 DEF LockInv, TypeOK, Request
  <2>2. \A q \in People : lock'[q] = lock[q]
    BY <1>1
  <2> QED
    BY <1>1, <1>5, <2>1, <2>2, KnowledgeStays
<1>7. StayOut'
  <2>1. p \notin crossed /\ crossed' = crossed /\ crossed \subseteq People
    BY <1>1 DEF LockInv, StayOut, TypeOK
  <2> QED
    BY <1>3, <1>4, <2>1 DEF StayOut, RemovedStayOut, LockInv
<1> QED
  BY <1>6, <1>7

LEMMA LockInvStep ==
    ASSUME LockInv, [Next]_vars
    PROVE  LockInv'
<1>t. TypeOK'
  BY TypeOKStep DEF LockInv
<1>1. CASE UNCHANGED vars
  BY <1>t, <1>1 DEF vars, LockInv, StayOut, RemovedStayOut, Knows, LosesAnOwner, ActiveOwners
<1>2. ASSUME NEW p \in People, SignUp(p)
      PROVE  LockInv'
  BY <1>t, <1>2, SignUpKnows DEF LockInv
<1>3. ASSUME NEW t \in Threads, Spares(t), Knows(t)', StayOut'
      PROVE  LockInv'
  BY <1>t, <1>3, OthersKnow DEF LockInv
<1>4. ASSUME UNCHANGED <<role, account, crossed>>
      PROVE  StayOut'
  BY <1>4 DEF StayOut, RemovedStayOut, LockInv
<1>5. ASSUME NEW t \in Threads, ReadTarget(t) \/ FindOwners(t) \/ LockOwner(t) \/ OwnersLocked(t)
                                \/ ReadAccount(t) \/ Promote(t) \/ Start(t) \/ Join(t)
                                \/ ReadOwners(t) \/ ReadConfigured(t)
      PROVE  LockInv'
  <2>1. UNCHANGED <<role, account, crossed>>
    BY <1>5 DEF ReadTarget, FindOwners, LockOwner, OwnersLocked, ReadAccount, Promote, Start, Join,
                ReadOwners, ReadConfigured
  <2> QED
    BY <1>3, <1>4, <1>5, <2>1, ReadTargetKnows, OwnersStepsKnow, TransferStepsKnow, StartKnows,
       JoinKnows, ReadOwnersKnows
<1>6. ASSUME NEW t \in Threads, WriteRole(t) \/ StepDown(t) \/ RemoveMember(t) \/ Started(t)
      PROVE  LockInv'
  BY <1>3, <1>6, WriteRoleKnows, StepDownKnows, RemoveMemberKnows, StartedKnows
<1>7. ASSUME NEW t \in Threads, BreakDeadlock(t)
      PROVE  LockInv'
  <2>1. Ends(t, "error") /\ "error" \in Answers /\ UNCHANGED <<role, account, crossed>>
    BY <1>7 DEF BreakDeadlock, Answers
  <2> QED
    BY <1>3, <1>4, <2>1, EndsKnows, EndsSpares DEF LockInv
<1>8. ASSUME NEW t \in Threads, NEW op \in Ops, NEW actor \in People, NEW target \in People,
             NEW new \in Roles, Receive(t, op, actor, target, new)
      PROVE  LockInv'
  <2>1. UNCHANGED <<role, account, crossed>>
    BY <1>8 DEF Receive
  <2> QED
    BY <1>3, <1>4, <1>8, <2>1, ReceiveKnows
<1> QED
  BY <1>1, <1>2, <1>5, <1>6, <1>7, <1>8 DEF Next, ThreadStep

\* Who was removed stays out of the organization, however many requests about them and starts of
\* tasks were under way (remove_member, ensure_memberships), but for whom a start had read to join
\* and another joined before the removal.
THEOREM RemovedPeopleStayOut == Spec => []RemovedStayOut
<1>1. LockInv => RemovedStayOut
  BY DEF LockInv, StayOut
<1> QED
  BY <1>1, LockInvInit, LockInvStep, PTL DEF Spec

\* A request at its last step, change_role's, ends by that step or as a deadlock's victim.
LEMMA OnlyWriteRoleEndsIt ==
    ASSUME LockInv, Next, NEW t \in Threads, request[t].step = "write", request'[t].step = "idle"
    PROVE  WriteRole(t) \/ BreakDeadlock(t)
<1>1. ASSUME NEW u \in Threads, Spares(u)
      PROVE  u = t
  BY <1>1 DEF Spares
<1>2. ASSUME NEW p \in People, SignUp(p)
      PROVE  FALSE
  BY <1>2 DEF SignUp
<1>3. ASSUME NEW u \in Threads, ReadTarget(u) \/ FindOwners(u) \/ LockOwner(u) \/ OwnersLocked(u)
                                \/ ReadAccount(u) \/ Promote(u) \/ StepDown(u) \/ RemoveMember(u)
                                \/ Started(u) \/ Start(u) \/ Join(u) \/ ReadOwners(u)
                                \/ ReadConfigured(u)
      PROVE  FALSE
  <2>1. u = t
    BY <1>1, <1>3, ReadTargetKnows, OwnersStepsKnow, TransferStepsKnow, StepDownKnows,
       RemoveMemberKnows, StartedKnows, StartKnows, JoinKnows, ReadOwnersKnows
  <2> QED
    BY <1>3, <2>1 DEF ReadTarget, FindOwners, LockOwner, OwnersLocked, ReadAccount, Promote,
                      StepDown, RemoveMember, Started, Start, Join, ReadOwners, ReadConfigured
<1>4. ASSUME NEW u \in Threads, NEW op \in Ops, NEW actor \in People, NEW target \in People,
             NEW new \in Roles, Receive(u, op, actor, target, new)
      PROVE  FALSE
  <2>1. u = t
    BY <1>1, <1>4, ReceiveKnows
  <2> QED
    BY <1>4, <2>1 DEF Receive
<1>5. ASSUME NEW u \in Threads, WriteRole(u)
      PROVE  u = t
  BY <1>1, <1>5, WriteRoleKnows
<1>6. ASSUME NEW u \in Threads, BreakDeadlock(u)
      PROVE  u = t
  <2>1. Ends(u, "error")
    BY <1>6 DEF BreakDeadlock
  <2> QED
    BY <2>1 DEF Ends, LockInv, TypeOK
<1> QED
  BY <1>2, <1>3, <1>4, <1>5, <1>6 DEF Next, ThreadStep

\* An owner's step down leaves another owner, for any number of people and threads
\* (_ensure_another_owner's SELECT ... FOR UPDATE).
THEOREM StepDownIsSafe == Spec => StepDownLeavesAnOwner
<1>1. ASSUME LockInv, Next, NEW t \in Threads, request[t].step = "write",
             LosesAnOwner(request[t]), request'[t].step = "idle", request'[t].answer = "ok"
      PROVE  \E p \in People \ {request[t].target} : role'[p] = Owner /\ account'[p] = "open"
  <2>1. request[t].owners \subseteq People /\ request[t].target \in People
    BY <1>1 DEF LockInv, TypeOK, Request
  <2>2. PICK p \in request[t].owners \ {request[t].target} : lock[p] = t /\ p \in ActiveOwners
    BY <1>1 DEF LockInv, Knows
  <2>3. role[p] = Owner /\ account[p] = "open"
    BY <2>2 DEF ActiveOwners
  <2>4. WriteRole(t)
    <3>1. ~BreakDeadlock(t)
      BY <1>1 DEF BreakDeadlock, Ends, Idle, LockInv, TypeOK
    <3> QED
      BY <1>1, <3>1, OnlyWriteRoleEndsIt
  <2>5. role'[p] = role[p] /\ account' = account
    BY <1>1, <2>1, <2>2, <2>4 DEF WriteRole, LockInv, TypeOK
  <2> QED
    BY <2>1, <2>2, <2>3, <2>5
<1>2. LockInv /\ [Next]_vars =>
        [\A t \in Threads :
            (/\ request[t].step = "write" /\ LosesAnOwner(request[t])
             /\ request'[t].step = "idle" /\ request'[t].answer = "ok")
                => \E p \in People \ {request[t].target} : role'[p] = Owner /\ account'[p] = "open"]_vars
  BY <1>1
<1> QED
  BY <1>2, LockInvInit, LockInvStep, PTL DEF Spec, StepDownLeavesAnOwner

-----------------------------------------------------------------------------
(* One request at a time, the code is the rules.                           *)

NotARequest == {"idle", "joining", "configured", "startup"}

\* What a request found of its actor and of its target, and decided on it, is so until it ends,
\* when nobody else's request is under way.
Decided(t) ==
    LET r == request[t] IN
    /\ r.step \notin NotARequest => r.mine = role[r.actor] /\ r.mine # None
    /\ r.step \notin NotARequest \cup {"theirs"} => r.theirs = role[r.target] /\ r.theirs # None
    /\ r.step \in {"owners", "lock", "write"} => MayChange(r)
    /\ r.step \in {"owners", "lock"} => LosesAnOwner(r)
    /\ r.step = "write" => r.theirs # r.new
    /\ r.step \in {"account", "promote", "stepdown"} => MayHandOver(r)
    /\ r.step = "remove" => MayRemove(r)
    /\ r.step = "joining" => r.mine = None /\ r.new = Member /\ r.toJoin \cup r.joining = Joiners
    /\ r.step = "startup" => r.mine = None /\ r.new = Member /\ r.joining = Joiners
    /\ r.step # "configured"

\* The inductive invariant: the rules' own, too.
OneByOneInv == LockInv /\ RulesInv /\ \A t \in Threads : Decided(t)

LEMMA EndsDecided ==
    ASSUME TypeOK, NEW t \in Threads, NEW a \in Answers, Ends(t, a)
    PROVE  Decided(t)'
BY DEF Ends, Idle, TypeOK, Decided, NotARequest

\* An actor's and a target's rows stay, and so do those of who is to join.
LEMMA StaysDecided ==
    ASSUME TypeOK, NEW t \in Threads, Decided(t), request'[t] = request[t],
           \A p \in People : role[p] # None => role'[p] = role[p],
           Joiners' = Joiners
    PROVE  Decided(t)'
<1>1. request[t] \in Request /\ request[t].actor \in People /\ request[t].target \in People
  BY DEF TypeOK, Request
<1>2. request[t].step \notin NotARequest => role'[request[t].actor] = role[request[t].actor]
  BY <1>1 DEF Decided, NotARequest
<1>3. request[t].step \notin NotARequest \cup {"theirs"} =>
          role'[request[t].target] = role[request[t].target]
  BY <1>1 DEF Decided, NotARequest
<1> QED
  BY <1>2, <1>3 DEF Decided, NotARequest, MayChange, LosesAnOwner, MayHandOver, MayRemove

LEMMA SignUpStaysDecided ==
    ASSUME OneByOneInv, NEW p \in People, SignUp(p)
    PROVE  \A t \in Threads : Decided(t)'
<1>1. /\ account[p] = "none" /\ account' = [account EXCEPT ![p] = "open"]
      /\ role' = [role EXCEPT ![p] = RoleOnJoining(p)] /\ UNCHANGED request
  BY DEF SignUp, SignsUp
<1>2. role[p] = None
  BY <1>1 DEF OneByOneInv, RulesInv
<1>3. RoleOnJoining(p) # None
  BY RolesArePlain DEF RoleOnJoining, Roles, Member, Owner
<1>4. \A q \in People : role[q] # None => role'[q] = role[q]
  BY <1>1, <1>2 DEF OneByOneInv, RulesInv
<1>5. Joiners' = Joiners
  BY <1>1, <1>3 DEF OneByOneInv, RulesInv, Joiners
<1> QED
  BY <1>1, <1>4, <1>5, StaysDecided DEF OneByOneInv, LockInv

\* A request that moves on has decided what it should have.
LEMMA MovesDecided ==
    ASSUME OneByOneInv, NEW t \in Threads, UNCHANGED role,
           ReadTarget(t) \/ FindOwners(t) \/ LockOwner(t) \/ OwnersLocked(t) \/ ReadAccount(t)
              \/ Promote(t)
    PROVE  Decided(t)'
<1> DEFINE r == request[t]
<1>1. TypeOK /\ r \in Request /\ Decided(t)
  BY DEF OneByOneInv, LockInv, TypeOK
<1>2. ASSUME NEW a \in Answers, Ends(t, a) PROVE Decided(t)'
  BY <1>1, <1>2, EndsDecided
<1>3. CASE ReadTarget(t)
  <2> DEFINE q == Loaded(r)
  <2>1. /\ r.step = "theirs" /\ q.actor = r.actor /\ q.target = r.target /\ q.mine = r.mine
        /\ q.new = r.new /\ q.owners = r.owners /\ q \in Request
        /\ q.theirs = IF r.target = r.actor THEN r.mine ELSE role[r.target]
    BY <1>1, <1>3, LoadedIsTyped DEF ReadTarget, Loaded, Request
  <2>2. q.theirs = role[q.target]
    BY <1>1, <2>1 DEF Decided, NotARequest
  <2> HIDE DEF q
  <2>3. CASE \E a \in {"refused", "ok"} : Ends(t, a)
    BY <1>2, <2>3 DEF Answers
  <2>4. CASE /\ role[q.target] # None
             /\ \/ MayChange(q) /\ LosesAnOwner(q) /\ Moves(t, q, "owners")
                \/ MayChange(q) /\ ~LosesAnOwner(q) /\ q.theirs # q.new /\ Moves(t, q, "write")
                \/ MayHandOver(q) /\ Moves(t, q, "account")
                \/ MayRemove(q) /\ Moves(t, q, "remove")
    <3>1. PICK s \in {"owners", "write", "account", "remove"} :
             /\ Moves(t, q, s)
             /\ s \in {"owners", "write"} => MayChange(q)
             /\ s = "owners" => LosesAnOwner(q)
             /\ s = "write" => q.theirs # q.new
             /\ s = "account" => MayHandOver(q)
             /\ s = "remove" => MayRemove(q)
      BY <2>4
    <3>2. request'[t] = [q EXCEPT !.step = s]
      BY <1>1, <3>1 DEF Moves, TypeOK
    <3>3. q.mine = role[q.actor] /\ q.mine # None
      BY <1>1, <2>1 DEF Decided, NotARequest
    <3>4. /\ request'[t].step = s /\ request'[t].actor = q.actor /\ request'[t].target = q.target
          /\ request'[t].mine = q.mine /\ request'[t].theirs = q.theirs /\ request'[t].new = q.new
      BY <2>1, <3>2 DEF Request
    <3> QED
      BY <2>2, <2>4, <3>1, <3>3, <3>4 DEF Decided, NotARequest, MayChange, LosesAnOwner, MayHandOver, MayRemove
  <2> QED
    BY <1>3, <2>3, <2>4 DEF ReadTarget, Loaded, q
<1>4. CASE FindOwners(t) \/ LockOwner(t) \/ (OwnersLocked(t) /\ Moves(t, r, "write"))
           \/ (ReadAccount(t) /\ Moves(t, r, IF r.theirs = Owner THEN "stepdown" ELSE "promote"))
           \/ (Promote(t) /\ Moves(t, r, "stepdown"))
  <2>1. PICK s \in Steps :
          /\ request'[t].step = s /\ request'[t].actor = r.actor /\ request'[t].target = r.target
          /\ request'[t].mine = r.mine /\ request'[t].theirs = r.theirs /\ request'[t].new = r.new
          /\ \/ r.step \in {"owners", "lock"} /\ s \in {"lock", "write"}
             \/ r.step \in {"account", "promote"} /\ s \in {"stepdown", "promote"}
    <3> DEFINE Carried(s) ==
                 /\ request'[t].step = s /\ request'[t].actor = r.actor
                 /\ request'[t].target = r.target /\ request'[t].mine = r.mine
                 /\ request'[t].theirs = r.theirs /\ request'[t].new = r.new
    <3>1. ASSUME NEW s \in Steps, Moves(t, r, s)
          PROVE  Carried(s)
      BY <1>1, <3>1 DEF Moves, TypeOK, Request
    <3>2. CASE FindOwners(t)
      <4>1. r.step = "owners" /\ request'[t] = [[r EXCEPT !.toLock = ActiveOwners] EXCEPT !.step = "lock"]
        BY <1>1, <3>2 DEF FindOwners, Moves, TypeOK
      <4>2. Carried("lock")
        BY <1>1, <4>1 DEF Request
      <4> QED
        BY <4>1, <4>2 DEF Steps
    <3>3. CASE LockOwner(t)
      <4>1. PICK p \in r.toLock, new \in SUBSET People :
               request' = [request EXCEPT ![t].toLock = r.toLock \ {p}, ![t].owners = new]
        <5>1. PICK p \in r.toLock :
                 request' = [request EXCEPT ![t].toLock = r.toLock \ {p},
                               ![t].owners = IF p \in ActiveOwners THEN r.owners \cup {p} ELSE r.owners]
          BY <3>3 DEF LockOwner
        <5>2. r.owners \in SUBSET People /\ r.toLock \in SUBSET People
          BY <1>1 DEF Request
        <5> QED
          BY <5>1, <5>2
      <4>2. r.step = "lock"
        BY <3>3 DEF LockOwner
      <4>3. Carried("lock")
        BY <1>1, <4>1, <4>2 DEF TypeOK, Request
      <4> QED
        BY <4>2, <4>3 DEF Steps
    <3>4. CASE OwnersLocked(t) /\ Moves(t, r, "write")
      BY <3>1, <3>4 DEF OwnersLocked, Steps
    <3>5. CASE ReadAccount(t) /\ Moves(t, r, IF r.theirs = Owner THEN "stepdown" ELSE "promote")
      BY <3>1, <3>5 DEF ReadAccount, Steps
    <3>6. CASE Promote(t) /\ Moves(t, r, "stepdown")
      BY <3>1, <3>6 DEF Promote, Steps
    <3> QED
      BY <1>4, <3>2, <3>3, <3>4, <3>5, <3>6
  <2> QED
    BY <1>1, <2>1 DEF Decided, NotARequest, MayChange, LosesAnOwner, MayHandOver
<1>5. CASE \E a \in {"refused", "error"} : Ends(t, a)
  BY <1>2, <1>5 DEF Answers
<1> QED
  BY <1>3, <1>4, <1>5 DEF OwnersLocked, ReadAccount, Promote

\* A request that begins, and a task that starts.
LEMMA BeginsDecided ==
    ASSUME OneByOneInv, NEW t \in Threads,
           \/ Start(t)
           \/ \E op \in Ops, actor, target \in People, new \in Roles :
                 Receive(t, op, actor, target, new)
    PROVE  Decided(t)'
<1>1. TypeOK /\ UNCHANGED <<role, account>>
  BY DEF Start, Receive, OneByOneInv, LockInv
<1>2. CASE Start(t)
  <2>1. /\ request'[t].step = "joining" /\ request'[t].toJoin = Joiners
        /\ request'[t].joining = {} /\ request'[t].mine = None /\ request'[t].new = Member
    BY <1>1, <1>2 DEF Start, Moves, Idle, TypeOK
  <2> QED
    BY <1>1, <2>1 DEF Decided, NotARequest, Joiners
<1>3. ASSUME NEW op \in Ops, NEW actor \in People, NEW target \in People, NEW new \in Roles,
             Receive(t, op, actor, target, new)
      PROVE  Decided(t)'
  <2>1. CASE Ends(t, "refused")
    BY <1>1, <2>1, EndsDecided DEF Answers
  <2>2. CASE ~Ends(t, "refused")
    <3>1. role[actor] # None
      BY <1>3, <2>2 DEF Receive
    <3>2. PICK q \in {[Idle("none") EXCEPT !.op = op, !.actor = actor, !.target = target,
                                           !.new = new, !.mine = role[actor]]} :
             Moves(t, q, "theirs")
      BY <1>3, <2>2 DEF Receive
    <3>3. request'[t].step = "theirs" /\ request'[t].actor = actor /\ request'[t].mine = role[actor]
      BY <1>1, <3>2 DEF Moves, Idle, TypeOK
    <3> QED
      BY <1>1, <3>1, <3>3 DEF Decided, NotARequest
  <2> QED
    BY <2>1, <2>2
<1> QED
  BY <1>2, <1>3

\* With an owner there, everybody joins as a member, and nobody is promoted.
LEMMA StartsDecided ==
    ASSUME OneByOneInv, NEW t \in Threads, Join(t) \/ ReadOwners(t) \/ ReadConfigured(t)
    PROVE  Decided(t)'
<1> DEFINE r == request[t]
<1>1. /\ TypeOK /\ r \in Request /\ Decided(t) /\ UNCHANGED <<role, account>>
      /\ Joiners' = Joiners
  BY DEF OneByOneInv, LockInv, TypeOK, Join, ReadOwners, ReadConfigured, Joiners
<1>2. ActiveOwners # {}
  BY OrgRulesAssumption DEF OneByOneInv, RulesInv, ActiveOwners, Owner
<1>3. ~ReadConfigured(t)
  BY <1>1 DEF ReadConfigured, Decided
<1>4. CASE ReadOwners(t)
  <2>1. Moves(t, r, "startup") /\ r.step = "joining" /\ r.toJoin = {}
    BY <1>2, <1>4 DEF ReadOwners, OwnersSeen
  <2>2. /\ request'[t].step = "startup" /\ request'[t].mine = r.mine
        /\ request'[t].new = r.new /\ request'[t].joining = r.joining
    BY <1>1, <2>1 DEF Moves, TypeOK, Request
  <2>3. r.mine = None /\ r.new = Member /\ r.joining = Joiners
    BY <1>1, <2>1 DEF Decided
  <2> HIDE DEF r
  <2> QED
    BY <1>1, <2>2, <2>3 DEF Decided, NotARequest
<1>5. CASE Join(t)
  <2>1. /\ r.step = "joining" /\ r.mine = None /\ r.new = Member
        /\ r.toJoin \cup r.joining = Joiners
    BY <1>1, <1>5 DEF Join, Decided
  <2>2. PICK p \in r.toJoin :
           Moves(t, [[r EXCEPT !.toJoin = @ \ {p}]
                       EXCEPT !.joining = @ \cup {p}, !.new = Member], "joining")
    <3>1. \A p \in r.toJoin : role[p] = None
      BY <2>1 DEF Joiners
    <3>2. \A p \in People : (IF p = Bootstrap THEN RoleOnJoining(p) ELSE r.new) = Member
      BY <1>2, <2>1 DEF RoleOnJoining
    <3>3. r.toJoin \subseteq People
      BY <1>1 DEF Request
    <3> QED
      BY <1>5, <3>1, <3>2, <3>3 DEF Join
  <2>3. request'[t] = [[[r EXCEPT !.toJoin = @ \ {p}]
                          EXCEPT !.joining = @ \cup {p}, !.new = Member] EXCEPT !.step = "joining"]
    BY <1>1, <2>2 DEF Moves, TypeOK
  <2>4. /\ request'[t].step = "joining" /\ request'[t].mine = None /\ request'[t].new = Member
        /\ request'[t].toJoin = r.toJoin \ {p} /\ request'[t].joining = r.joining \cup {p}
    BY <1>1, <2>1, <2>3 DEF Request
  <2>5. request'[t].toJoin \cup request'[t].joining = Joiners
    BY <2>1, <2>4
  <2> HIDE DEF r
  <2> QED
    BY <1>1, <2>4, <2>5 DEF Decided, NotARequest
<1> QED
  BY <1>3, <1>4, <1>5

\* What a request writes is a change the rules allow.
LEMMA WritesFollowTheRules ==
    ASSUME OneByOneInv, NEW t \in Threads,
           WriteRole(t) \/ StepDown(t) \/ RemoveMember(t) \/ Started(t)
    PROVE  [RulesNext]_<<role, account>>
<1> DEFINE r == request[t]
<1>1. /\ r \in Request /\ Decided(t) /\ Knows(t) /\ RulesInv
      /\ r.actor \in People /\ r.target \in People /\ r.new \in Roles
  BY DEF OneByOneInv, LockInv, TypeOK, Request
<1>2. CASE WriteRole(t)
  <2>1. /\ role' = [role EXCEPT ![r.target] = r.new] /\ UNCHANGED account
        /\ r.theirs = role[r.target] /\ r.theirs # None /\ r.theirs # r.new /\ MayChange(r)
        /\ r.mine = role[r.actor]
    BY <1>1, <1>2 DEF WriteRole, Decided, NotARequest
  <2>2. CASE r.target = r.actor
    <3>1. r.theirs \in Roles /\ Rank[r.new] < Rank[r.theirs]
      BY <1>1, <2>1, <2>2 DEF MayChange, Rank, Roles, Member, Admin, Owner, RulesInv
    <3>2. r.theirs = Owner => LosesAnOwner(r)
      BY <2>1 DEF LosesAnOwner
    <3>3. r.theirs = Owner => ActiveOwners # {r.target}
      <4>1. SUFFICES ASSUME r.theirs = Owner PROVE \E p \in ActiveOwners : p # r.target
        OBVIOUS
      <4>2. PICK p \in r.owners \ {r.target} : role[p] = Owner
        BY <1>1, <1>2, <3>2, <4>1 DEF Knows, WriteRole, ActiveOwners
      <4>3. p \in People /\ account[p] = "open"
        BY <1>1, <4>2, OrgRulesAssumption DEF Request, RulesInv, Owner
      <4> QED
        BY <4>2, <4>3 DEF ActiveOwners
    <3>4. StepsDown(r.target)
      BY <1>1, <2>1, <3>1, <3>3 DEF StepsDown
    <3> QED
      BY <1>1, <3>4 DEF RulesNext
  <2>3. CASE r.target # r.actor
    <3>1. r.mine = Owner /\ r.theirs # Owner
      BY <2>1, <2>3 DEF MayChange
    <3>2. role[r.target] \in {Member, Admin}
      BY <1>1, <2>1, <3>1 DEF RulesInv, Roles
    <3>3. ChangesRoleOf(r.actor, r.target)
      BY <1>1, <2>1, <2>3, <3>1, <3>2 DEF ChangesRoleOf
    <3> QED
      BY <1>1, <3>3 DEF RulesNext
  <2> QED
    BY <2>2, <2>3
<1>3. CASE StepDown(t)
  <2>1. /\ r.mine = Owner /\ r.target # r.actor /\ role[r.actor] = Owner
        /\ r.theirs = role[r.target] /\ role[r.target] # None
    BY <1>1, <1>3 DEF StepDown, Decided, NotARequest, MayHandOver
  <2>2. role' = HandedOver(r) /\ UNCHANGED account
    BY <1>3, <2>1, OrgRulesAssumption DEF StepDown, Owner
  <2>3. role' = [role EXCEPT ![r.target] = Owner, ![r.actor] = Admin]
    BY <1>1, <2>1, <2>2 DEF HandedOver, RulesInv
  <2>4. HandsOver(r.actor, r.target)
    BY <2>1, <2>2, <2>3 DEF HandsOver
  <2> QED
    BY <1>1, <2>4 DEF RulesNext
<1>4. CASE RemoveMember(t)
  <2>1. /\ role' = [role EXCEPT ![r.target] = None]
        /\ account' = [account EXCEPT ![r.target] = "closed"]
        /\ r.mine = role[r.actor] /\ r.mine # None /\ r.theirs = role[r.target] /\ r.theirs # None
        /\ MayRemove(r)
    BY <1>1, <1>4 DEF RemoveMember, Decided, NotARequest
  <2>2. role[r.actor] \in {Admin, Owner}
    BY <1>1, <2>1 DEF MayRemove, RulesInv, Roles
  <2>3. Removes(r.actor, r.target)
    BY <2>1, <2>2 DEF Removes, MayRemove
  <2> QED
    BY <1>1, <2>3 DEF RulesNext
<1>5. CASE Started(t)
  <2>1. r.mine = None /\ r.new = Member /\ r.joining = Joiners
    BY <1>1, <1>5 DEF Started, Decided, NotARequest
  <2>2. role' = AfterStartup(r) /\ UNCHANGED account /\ ~Promotes(r)
    BY <1>5, <2>1 DEF Started, Promotes
  <2>3. \A p \in People : RoleOnJoining(p) = Member /\ JoinedAs(r, p) = Member
    BY <1>1, <2>1, OrgRulesAssumption DEF RoleOnJoining, JoinedAs, RulesInv, ActiveOwners, Owner
  <2>4. role' = [p \in People |->
                   IF role[p] = None /\ account[p] = "open" THEN RoleOnJoining(p) ELSE role[p]]
    BY <2>1, <2>2, <2>3 DEF AfterStartup, Joiners
  <2> QED
    BY <2>2, <2>4 DEF OpenAccountsJoin, RulesNext
<1> QED
  BY <1>2, <1>3, <1>4, <1>5

LEMMA OneByOneStep ==
    ASSUME \A t, u \in Threads : t = u, OneByOneInv, [Next]_vars
    PROVE  OneByOneInv' /\ [RulesNext]_<<role, account>>
<1>1. LockInv'
  BY LockInvStep DEF OneByOneInv
<1>2. (\A t \in Threads : Decided(t)') /\ [RulesNext]_<<role, account>>
  <2>1. CASE UNCHANGED vars
    BY <2>1 DEF vars, OneByOneInv, Decided, NotARequest, Joiners, MayChange, LosesAnOwner, MayHandOver, MayRemove
  <2>2. ASSUME NEW p \in People, SignUp(p)
        PROVE  (\A t \in Threads : Decided(t)') /\ RulesNext
    BY <2>2, SignUpStaysDecided DEF SignUp, RulesNext
  <2>3. ASSUME NEW t \in Threads, Decided(t)'
        PROVE  \A u \in Threads : Decided(u)'
    BY <2>3
  <2>4. ASSUME NEW t \in Threads, WriteRole(t) \/ StepDown(t) \/ RemoveMember(t) \/ Started(t)
        PROVE  Decided(t)' /\ [RulesNext]_<<role, account>>
    <3>1. PICK a \in Answers : Ends(t, a)
      BY <2>4 DEF WriteRole, StepDown, RemoveMember, Started, Answers
    <3> QED
      BY <2>4, <3>1, EndsDecided, WritesFollowTheRules DEF OneByOneInv, LockInv
  <2>5. ASSUME NEW t \in Threads,
               \/ ReadTarget(t) \/ FindOwners(t) \/ LockOwner(t) \/ OwnersLocked(t)
               \/ ReadAccount(t) \/ Promote(t) \/ BreakDeadlock(t) \/ Start(t)
               \/ Join(t) \/ ReadOwners(t) \/ ReadConfigured(t)
               \/ \E op \in Ops, actor, target \in People, new \in Roles :
                     Receive(t, op, actor, target, new)
        PROVE  Decided(t)' /\ UNCHANGED <<role, account>>
    <3>1. UNCHANGED <<role, account>>
      BY <2>5 DEF ReadTarget, FindOwners, LockOwner, OwnersLocked, ReadAccount, Promote,
                  BreakDeadlock, Start, Join, ReadOwners, ReadConfigured, Receive
    <3>2. BreakDeadlock(t) => Decided(t)'
      BY EndsDecided DEF BreakDeadlock, Answers, OneByOneInv, LockInv
    <3> QED
      BY <2>5, <3>1, <3>2, MovesDecided, BeginsDecided, StartsDecided
  <2> QED
    BY <2>1, <2>2, <2>3, <2>4, <2>5 DEF Next, ThreadStep
<1>3. RulesInv'
  BY <1>2, RulesInvStep DEF OneByOneInv
<1> QED
  BY <1>1, <1>2, <1>3 DEF OneByOneInv

\* When one thread serves requests, each of them changes the roles as the rules say, whatever
\* accounts are made and tasks start meanwhile (change_role, transfer_ownership, remove_member,
\* ensure_memberships): the code's SELECTs and UPDATEs implement OrgRules.
THEOREM OneByOneFollowsTheRules ==
    ASSUME \A t, u \in Threads : t = u
    PROVE  Spec => FollowsTheRules
<1>1. Init => OneByOneInv
  BY LockInvInit, RulesInvInit DEF Init, OneByOneInv, Decided, NotARequest, Idle
<1>2. Init => Rules!RulesInit
  BY DEF Init, RulesInit, Rules!RulesInit, ActiveOwners, Rules!ActiveOwners, Roles, Rules!Roles,
         Member, Rules!Member, Admin, Rules!Admin, Owner, Rules!Owner
<1>3. [RulesNext]_<<role, account>> => [Rules!RulesNext]_<<role, account>>
  BY DEF RulesNext, Rules!RulesNext, OpenAccountsJoin, Rules!OpenAccountsJoin,
         RoleOnJoining, Rules!RoleOnJoining, StepsDown, Rules!StepsDown, SignsUp, Rules!SignsUp,
         ChangesRoleOf, Rules!ChangesRoleOf, HandsOver, Rules!HandsOver, Removes, Rules!Removes,
         ActiveOwners, Rules!ActiveOwners, Rank, Rules!Rank, Roles, Rules!Roles,
         Member, Rules!Member, Admin, Rules!Admin, Owner, Rules!Owner
<1>4. OneByOneInv /\ [Next]_vars => OneByOneInv' /\ [Rules!RulesNext]_<<role, account>>
  BY <1>3, OneByOneStep
<1> QED
  BY <1>1, <1>2, <1>4, PTL DEF Spec, FollowsTheRules, Rules!RulesSpec

=============================================================================
