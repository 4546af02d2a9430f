------------------------------ MODULE OrgRoles ------------------------------
(***************************************************************************)
(* Changing the organization's roles (server/utils/organization.py): a     *)
(* request reads its actor's membership, then its target's, decides on     *)
(* what it read, and writes later.  Only an owner's own step down locks    *)
(* the owners' rows meanwhile.                                             *)
(*                                                                         *)
(* PostgreSQL's READ COMMITTED: a SELECT sees what is committed; an UPDATE *)
(* or DELETE waits for the row's lock, which its transaction then holds to *)
(* its end, and applies to the row as it is by then; a SELECT FOR UPDATE   *)
(* waits likewise and reads again what it waited for.  The session writes  *)
(* only the attributes that differ from what it loaded.                    *)
(*                                                                         *)
(* Abstracted: a write and the commit right behind it are one action; the  *)
(* audit of the changes and the logo are left out, and so are service      *)
(* accounts, which are nobody's target here and change nothing             *)
(* (_ensure_person).                                                       *)
(***************************************************************************)
EXTENDS OrgRules, FiniteSets

CONSTANTS
    Threads,     \* worker threads of all the tasks
    MaxRequests  \* bound: requests received (starts of a task are not counted)

ASSUME OrgRolesAssumption ==
    /\ MaxRequests \in Nat
    /\ None \notin Threads
    /\ IsFiniteSet(Threads)

VARIABLES
    request,  \* request[t]: the request t serves, or its answer
    lock,     \* lock[p]: the thread holding p's row of `organization_members`, or None
    requests, \* requests received so far
    crossed   \* history: whom a removal took out while a task that starts had them to join

vars == <<role, account, request, lock, requests, crossed>>

Ops     == {"change", "transfer", "remove"}
Steps   == {"idle", "theirs", "account", "owners", "lock", "write", "promote", "stepdown",
            "remove", "joining", "configured", "startup"}
Answers == {"none", "ok", "refused", "error"}

\* `mine` and `theirs` are the roles the request loaded; `toLock` the owners its FOR UPDATE has
\* not reached, `owners` those it locked and found to be owners still; `toJoin` the accounts a
\* starting task has still to join, `joining` those whose membership it inserted.
Request == [step : Steps, op : Ops, actor : People, target : People, new : Roles,
            mine : Roles \cup {None}, theirs : Roles \cup {None},
            toLock : SUBSET People, owners : SUBSET People, toJoin : SUBSET People,
            joining : SUBSET People, answer : Answers]

TypeOK ==
    /\ role \in [People -> Roles \cup {None}]
    /\ account \in [People -> {"none", "open", "closed"}]
    /\ request \in [Threads -> Request]
    /\ lock \in [People -> Threads \cup {None}]
    /\ requests \in 0 .. MaxRequests
    /\ crossed \subseteq People

Anyone == CHOOSE p \in People : TRUE

Idle(a) == [step |-> "idle", op |-> "change", actor |-> Anyone, target |-> Anyone, new |-> Member,
            mine |-> None, theirs |-> None, toLock |-> {}, owners |-> {}, toJoin |-> {},
            joining |-> {}, answer |-> a]

Init ==
    /\ RulesInit
    /\ request = [t \in Threads |-> Idle("none")]
    /\ lock = [p \in People |-> None]
    /\ requests = 0
    /\ crossed = {}

Moves(t, r, s) == request' = [request EXCEPT ![t] = [r EXCEPT !.step = s]]

\* The end of the transaction, committed or rolled back.
Ends(t, a) ==
    /\ request' = [request EXCEPT ![t] = Idle(a)]
    /\ lock' = [p \in People |-> IF lock[p] = t THEN None ELSE lock[p]]

\* What t may lock: a row nobody else holds.
Free(t, p) == lock[p] \in {None, t}
Holding(t, p) == lock' = [lock EXCEPT ![p] = t]

-----------------------------------------------------------------------------
\* The actor is authenticated and its membership read (_memberships, get_membership).
Receive(t, op, actor, target, new) ==
    /\ request[t].step = "idle"
    /\ requests < MaxRequests
    /\ account[actor] = "open"
    /\ requests' = requests + 1
    /\ LET r == [Idle("none") EXCEPT !.op = op, !.actor = actor, !.target = target, !.new = new,
                                     !.mine = role[actor]]
       IN  IF role[actor] = None \/ (op = "remove" /\ target = actor)
           THEN Ends(t, "refused")
           ELSE Moves(t, r, "theirs") /\ UNCHANGED lock
    /\ UNCHANGED <<role, account, crossed>>

\* The rules, on the roles as they were loaded.
MayChange(r) ==
    IF r.target = r.actor THEN Rank[r.new] <= Rank[r.theirs]
                          ELSE r.mine = Owner /\ r.theirs # Owner
MayHandOver(r) == r.mine = Owner /\ r.target # r.actor
MayRemoveEquals(r) == r.mine # Member /\ Rank[r.theirs] <= Rank[r.mine]  \* mutant
MayRemove(r)   == r.mine # Member /\ Rank[r.theirs] < Rank[r.mine]

LosesAnOwner(r) == r.theirs = Owner /\ r.new # Owner

\* The target's membership is read, and the rules applied.  For one's own role the session
\* returns the row it has already loaded.
ReadTarget(t) ==
    LET q == request[t]
        r == [q EXCEPT !.theirs = IF q.target = q.actor THEN q.mine ELSE role[q.target]]
    IN
    /\ q.step = "theirs"
    /\ \/ role[r.target] = None /\ Ends(t, "refused")
       \/ /\ role[r.target] # None
          /\ \/ /\ r.op = "change"
                /\ IF ~MayChange(r) THEN Ends(t, "refused")
                   ELSE IF LosesAnOwner(r) THEN Moves(t, r, "owners") /\ UNCHANGED lock
                   ELSE IF r.theirs = r.new THEN Ends(t, "ok")  \* nothing to write
                   ELSE Moves(t, r, "write") /\ UNCHANGED lock
             \/ /\ r.op = "transfer"
                /\ IF MayHandOver(r) THEN Moves(t, r, "account") /\ UNCHANGED lock
                                     ELSE Ends(t, "refused")
             \/ /\ r.op = "remove"
                /\ IF MayRemove(r) THEN Moves(t, r, "remove") /\ UNCHANGED lock
                                   ELSE Ends(t, "refused")
    /\ UNCHANGED <<role, account, requests, crossed>>

(***************************************************************************)
(* _ensure_another_owner: SELECT ... FOR UPDATE of the owners' rows.  Its  *)
(* snapshot picks the rows; each is locked in turn, after whoever holds it *)
(* commits, and left out when it is no owner's any more.  A row removed    *)
(* meanwhile, its account closed with it, is gone whatever row a start put *)
(* in its place.                                                           *)
(***************************************************************************)
\* Mutant: the rows are counted without a lock.
CountOwners(t) ==
    /\ request[t].step = "owners"
    /\ Moves(t, [request[t] EXCEPT !.owners = ActiveOwners], "lock")
    /\ UNCHANGED <<role, account, lock, requests, crossed>>

FindOwners(t) ==
    /\ request[t].step = "owners"
    /\ Moves(t, [request[t] EXCEPT !.toLock = ActiveOwners], "lock")
    /\ UNCHANGED <<role, account, lock, requests, crossed>>

LockOwner(t) ==
    /\ request[t].step = "lock"
    /\ \E p \in request[t].toLock :
          /\ Free(t, p)
          /\ IF account[p] = "open" THEN Holding(t, p) ELSE UNCHANGED lock
          /\ request' = [request EXCEPT ![t].toLock = @ \ {p},
                              ![t].owners = IF p \in ActiveOwners THEN @ \cup {p} ELSE @]
    /\ UNCHANGED <<role, account, requests, crossed>>

OwnersLocked(t) ==
    LET r == request[t] IN
    /\ r.step = "lock"
    /\ r.toLock = {}
    /\ IF r.owners \ {r.target} = {} THEN Ends(t, "refused")
                                     ELSE Moves(t, r, "write") /\ UNCHANGED lock
    /\ UNCHANGED <<role, account, requests, crossed>>

\* change_role's UPDATE and commit.  A row deleted meanwhile matches nothing: StaleDataError.
WriteRole(t) ==
    LET r == request[t] IN
    /\ r.step = "write"
    /\ Free(t, r.target)
    /\ IF role[r.target] = None
       THEN Ends(t, "error") /\ UNCHANGED role
       ELSE Ends(t, "ok") /\ role' = [role EXCEPT ![r.target] = r.new]
    /\ UNCHANGED <<account, requests, crossed>>

-----------------------------------------------------------------------------
\* transfer_ownership: `theirs.user` is loaded, and its account must be open.  Someone who is
\* an owner already needs no UPDATE.
ReadAccount(t) ==
    LET r == request[t] IN
    /\ r.step = "account"
    /\ IF account[r.target] # "open" THEN Ends(t, "refused")
       ELSE UNCHANGED lock /\ Moves(t, r, IF r.theirs = Owner THEN "stepdown" ELSE "promote")
    /\ UNCHANGED <<role, account, requests, crossed>>

\* The first flush.
Promote(t) ==
    LET r == request[t] IN
    /\ r.step = "promote"
    /\ Free(t, r.target)
    /\ IF role[r.target] = None THEN Ends(t, "error")
                                ELSE Moves(t, r, "stepdown") /\ Holding(t, r.target)
    /\ UNCHANGED <<role, account, requests, crossed>>

HandedOver(r) ==
    [role EXCEPT ![r.target] = IF r.theirs = Owner THEN @ ELSE Owner, ![r.actor] = Admin]

\* The second flush, and the commit of both.
StepDown(t) ==
    LET r == request[t] IN
    /\ r.step = "stepdown"
    /\ Free(t, r.actor)
    /\ IF role[r.actor] = None
       THEN Ends(t, "error") /\ UNCHANGED role
       ELSE Ends(t, "ok") /\ role' = HandedOver(r)
    /\ UNCHANGED <<account, requests, crossed>>

\* remove_member's two writes and commit.  A row already deleted is no error.
RemoveMember(t) ==
    LET r == request[t] IN
    /\ r.step = "remove"
    /\ Free(t, r.target)
    /\ account' = [account EXCEPT ![r.target] = "closed"]
    /\ role' = [role EXCEPT ![r.target] = None]
    /\ crossed' = crossed \cup {p \in {r.target} : \E u \in Threads : p \in request[u].toJoin}
    /\ Ends(t, "ok")
    /\ UNCHANGED requests

-----------------------------------------------------------------------------
\* A new account joins (join_default_organization, in the transaction that makes it).
SignUp(p) == SignsUp(p) /\ UNCHANGED <<request, lock, requests, crossed>>

(***************************************************************************)
(* ensure_memberships, when a task starts, which no lock covers.  The      *)
(* accounts to join are read, and their rows inserted one by one; then the *)
(* owners are read, and when there is none the configured first owner      *)
(* becomes one (break-glass).                                              *)
(***************************************************************************)
\* Mutant: the accounts are not asked to be open.
JoinersWithClosed == {p \in People : account[p] # "none" /\ role[p] = None}
Joiners == {p \in People : account[p] = "open" /\ role[p] = None}

Start(t) ==
    /\ request[t].step = "idle"
    /\ Moves(t, [Idle("none") EXCEPT !.toJoin = Joiners], "joining")
    /\ UNCHANGED <<role, account, lock, requests, crossed>>

\* An INSERT waits for another of the same row, and fails on the key when that one commits.
\* `new` is the role the configured owner joined with; the others join as members.
Join(t) ==
    LET r == request[t] IN
    /\ r.step = "joining"
    /\ \E p \in r.toJoin :
          LET left == [r EXCEPT !.toJoin = @ \ {p}]
              its == IF p = Bootstrap THEN RoleOnJoining(p) ELSE r.new
          IN
          \/ /\ role[p] # None  \* another start joined p, before it was looked for or after
             /\ \/ Moves(t, left, "joining") /\ UNCHANGED lock
                \/ Ends(t, "error")
          \/ /\ role[p] = None
             /\ Free(t, p)
             /\ Holding(t, p)
             /\ Moves(t, [left EXCEPT !.joining = @ \cup {p}, !.new = its], "joining")
    /\ UNCHANGED <<role, account, requests, crossed>>

\* The owners it sees, its own uncommitted row included.
OwnersSeen(r) ==
    ActiveOwners \cup {p \in r.joining \cap {Bootstrap} : r.new = Owner /\ account[p] = "open"}

ReadOwners(t) ==
    LET r == request[t] IN
    /\ r.step = "joining"
    /\ r.toJoin = {}
    /\ Moves(t, r, IF OwnersSeen(r) = {} THEN "configured" ELSE "startup")
    /\ UNCHANGED <<role, account, lock, requests, crossed>>

\* Without an owner, the configured one's open account, if any, and its membership are read.
ReadConfigured(t) ==
    LET r == request[t]
        its == IF Bootstrap \in r.joining THEN r.new ELSE role[Bootstrap]
        found == Bootstrap # None /\ account[Bootstrap] = "open"
    IN
    /\ r.step = "configured"
    /\ Moves(t, [r EXCEPT !.mine = IF found THEN its ELSE None], "startup")
    /\ UNCHANGED <<role, account, lock, requests, crossed>>

\* The configured owner's membership is written when it isn't an owner's already.
Promotes(r) == r.mine \notin {None, Owner}

JoinedAs(r, p) == IF p = Bootstrap THEN r.new ELSE Member

\* Mutant: it is made owner when it joins, and never once it is a member.
OwnerOnJoiningOnly(r) == [p \in People |-> IF p \in r.joining THEN JoinedAs(r, p) ELSE role[p]]

AfterStartup(r) ==
    [p \in People |->
        IF Promotes(r) /\ p = Bootstrap THEN Owner
        ELSE IF p \in r.joining THEN JoinedAs(r, p) ELSE role[p]]

\* The configured owner removed since: its UPDATE matches nothing, and the task starts again.
Started(t) ==
    LET r == request[t] IN
    /\ r.step = "startup"
    /\ Promotes(r) => Free(t, Bootstrap)
    /\ IF Promotes(r) /\ Bootstrap \notin r.joining /\ role[Bootstrap] = None
       THEN Ends(t, "error") /\ UNCHANGED role
       ELSE Ends(t, "ok") /\ role' = AfterStartup(r)
    /\ UNCHANGED <<account, requests, crossed>>

-----------------------------------------------------------------------------
\* The rows t waits for: any of those its FOR UPDATE has to lock, or it has to insert, in an
\* order of its own.
Needs(t) ==
    LET r == request[t] IN
    CASE r.step = "lock" -> r.toLock
      [] r.step = "joining" -> {p \in r.toJoin : role[p] = None}
      [] r.step \in {"write", "promote", "remove"} -> {r.target}
      [] r.step = "stepdown" -> {r.actor}
      [] r.step = "startup" /\ Promotes(r) -> {Bootstrap}
      [] OTHER -> {}

WaitsFor(t, u) == u # t /\ \E p \in Needs(t) : lock[p] = u

\* PostgreSQL breaks a cycle of waits by failing one of its transactions.
BreakDeadlock(t) ==
    /\ \E n \in 2 .. Cardinality(Threads) :
          \E cycle \in [0 .. n - 1 -> Threads] :
             /\ cycle[0] = t
             /\ \A i \in 0 .. n - 1 : WaitsFor(cycle[i], cycle[(i + 1) % n])
    /\ Ends(t, "error")
    /\ UNCHANGED <<role, account, requests, crossed>>

ThreadStep(t) ==
    \/ ReadTarget(t) \/ FindOwners(t) \/ LockOwner(t) \/ OwnersLocked(t) \/ WriteRole(t)
    \/ ReadAccount(t) \/ Promote(t) \/ StepDown(t) \/ RemoveMember(t)
    \/ Join(t) \/ ReadOwners(t) \/ ReadConfigured(t) \/ Started(t) \/ BreakDeadlock(t)

Next ==
    \/ \E p \in People : SignUp(p)
    \/ \E t \in Threads :
          \/ ThreadStep(t)
          \/ Start(t)
          \/ \E op \in Ops, actor, target \in People, new \in Roles :
                /\ op # "change" => new = Member
                /\ Receive(t, op, actor, target, new)

Spec == Init /\ [][Next]_vars

\* What a thread has under way goes on, and when it has nothing a task starts again now and then
\* (each deployment starts one).
Fairness == \A t \in Threads : WF_vars(ThreadStep(t) \/ Start(t))
FairSpec == Spec /\ Fairness

-----------------------------------------------------------------------------
\* An owner who steps down leaves another one, however many step down at once, are removed or
\* handed the role meanwhile: the locks of _ensure_another_owner last until the commit.
StepDownLeavesAnOwner ==
    [][\A t \in Threads :
          (/\ request[t].step = "write" /\ LosesAnOwner(request[t])
           /\ request'[t].step = "idle" /\ request'[t].answer = "ok")
              => \E p \in People \ {request[t].target} : role'[p] = Owner /\ account'[p] = "open"]_vars

\* "Inactive accounts stay out" (ensure_memberships): whoever was removed has no membership
\* again, whatever requests about them were under way and however often the tasks start.  Except
\* whom a task had read to join, another start joined and a removal took out before the insert.
RemovedStayOut == \A p \in People : role[p] # None => account[p] = "open" \/ p \in crossed

\* One request at a time, the code is the rules.
Rules == INSTANCE OrgRules
FollowsTheRules == Rules!RulesSpec

\* Break-glass: whenever there is no owner, a start gives the organization one, unless nobody is
\* configured, or who is isn't a member or was removed.
OwnerComesBack ==
    []<>(\/ ActiveOwners # {}
         \/ Bootstrap = None \/ role[Bootstrap] = None \/ account[Bootstrap] # "open")

=============================================================================
