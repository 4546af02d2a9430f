---------------------------- MODULE ServiceTokens ----------------------------
(***************************************************************************)
(* Service accounts and their tokens (server/utils/service_accounts.py):   *)
(* owners create and remove accounts, make, renew and revoke their tokens, *)
(* while the services use them (get_service_token in server/core/auth.py). *)
(*                                                                         *)
(* Every route is a plain `def`: a worker thread with a session of its     *)
(* own, in READ COMMITTED, and no row is locked before it is written.  An  *)
(* owner's request reads the account, takes the time, reads the live       *)
(* tokens, and commits what it decided on them; a service's reads its      *)
(* token, then the account.                                                *)
(*                                                                         *)
(* Time is in units of a fraction of the overlap.  Abstracted: names,      *)
(* descriptions and roles of accounts; scopes and address ranges, which a  *)
(* renewal copies; last_used_at and the audit's rows.                      *)
(***************************************************************************)
EXTENDS Integers, FiniteSets

CONSTANTS
    Accounts,     \* service accounts: users of kind `service`
    Tokens,       \* rows of `service_tokens`
    Threads,      \* worker threads of all the tasks, a request at a time each
    Overlap,      \* RENEWAL_OVERLAP
    Patience,     \* no request takes longer
    Expiries,     \* the values expires_at takes when it is set
    MaxTime,      \* bound: the clock stops there
    MaxRequests,  \* bound: requests received
    None          \* NULL

ASSUME ServiceTokensAssumption ==
    /\ Overlap \in Nat /\ Patience \in Nat /\ Overlap > 2 * Patience
    /\ MaxTime \in Nat /\ MaxRequests \in Nat
    /\ Expiries \subseteq Nat
    /\ None \notin Nat /\ None \notin Accounts /\ None \notin Threads

VARIABLES
    account,   \* account[a]: not made yet, open, or closed by its removal
    of,        \* of[x]: the account token x is for; None while there's no such row
    expires,   \* expires[x]: expires_at
    replaced,  \* replaced[x]: replaced_at
    revoked,   \* the tokens with a revoked_at
    request,   \* request[t]: what t is doing, or its answer
    clock,
    requests,  \* requests received so far
    maker      \* history: maker[x], the thread that made x

vars == <<account, of, expires, replaced, revoked, request, clock, requests, maker>>

Time == 0 .. MaxTime

\* A request: what it has read.  `active` and `old` are the live tokens it saw, the active
\* ones and those in their overlap; `known` (history) the account's tokens when it came, and
\* `wasOpen` (history) whether the account of the token it presents was open by then.
Request == [step : {"idle", "tokens", "write", "account"},
            op : {"none", "issue", "revoke", "revoke_old", "remove", "use"},
            account : Accounts \cup {None}, expires : Expiries \cup {None}, now : Time,
            active : SUBSET Tokens, old : SUBSET Tokens, known : SUBSET Tokens,
            wasOpen : BOOLEAN, answer : {"none", "ok", "refused"}]

TypeOK ==
    /\ account \in [Accounts -> {"none", "open", "closed"}]
    /\ of \in [Tokens -> Accounts \cup {None}]
    /\ expires \in [Tokens -> Expiries \cup {None}]
    /\ replaced \in [Tokens -> Time \cup {None}]
    /\ revoked \subseteq {x \in Tokens : of[x] # None}
    /\ request \in [Threads -> Request]
    /\ clock \in Time
    /\ requests \in 0 .. MaxRequests
    /\ maker \in [Tokens -> Threads \cup {None}]
    /\ \A x \in Tokens : maker[x] # None <=> of[x] # None  \* service_account_id isn't NULL

NoRequest == [step |-> "idle", op |-> "none", account |-> None, expires |-> None, now |-> 0,
              active |-> {}, old |-> {}, known |-> {}, wasOpen |-> FALSE, answer |-> "none"]

Init ==
    /\ account = [a \in Accounts |-> "none"]
    /\ of = [x \in Tokens |-> None]
    /\ expires = [x \in Tokens |-> None]
    /\ replaced = [x \in Tokens |-> None]
    /\ revoked = {}
    /\ request = [t \in Threads |-> NoRequest]
    /\ clock = 0
    /\ requests = 0
    /\ maker = [x \in Tokens |-> None]

Made(a) == {x \in Tokens : of[x] = a}

\* is_valid: not revoked, not expired, not past its overlap.
PastOverlap(x, now) == replaced[x] # None /\ now >= replaced[x] + Overlap
Expired(x, now)     == expires[x] # None /\ now >= expires[x]
IsValid(x, now)     == x \notin revoked /\ ~Expired(x, now) /\ ~PastOverlap(x, now)

Free(t) == request[t].step = "idle" /\ requests < MaxRequests

Answers(t, r, answer) ==
    request' = [request EXCEPT ![t] = [r EXCEPT !.step = "idle", !.answer = answer]]

-----------------------------------------------------------------------------
(***************************************************************************)
(* The owners' requests.                                                   *)
(***************************************************************************)
\* create_account.  Its placeholder address is its own, so nothing crosses it.
CreateAccount(a) ==
    /\ account[a] = "none"
    /\ account' = [account EXCEPT ![a] = "open"]
    /\ UNCHANGED <<of, expires, replaced, revoked, request, clock, requests, maker>>

\* get_account, in the owner's organization and active; then the time is taken.
Receive(t, op, a, e) ==
    /\ Free(t)
    /\ op \in {"issue", "revoke", "revoke_old", "remove"}
    /\ e # None => op = "issue" /\ e > clock
    /\ account[a] # "none"
    /\ requests' = requests + 1
    /\ LET r == [NoRequest EXCEPT !.op = op, !.account = a, !.expires = e, !.now = clock,
                                  !.known = Made(a)] IN
       \/ account[a] = "closed" /\ Answers(t, r, "refused")
       \/ account[a] = "open" /\ request' = [request EXCEPT ![t] = [r EXCEPT !.step = "tokens"]]
    /\ UNCHANGED <<account, of, expires, replaced, revoked, clock, maker>>

Live(a, now) == {x \in Made(a) : IsValid(x, now)}

\* live_tokens: the account's tokens that authenticate at the time taken.
ReadTokens(t) ==
    /\ request[t].step = "tokens"
    /\ LET live == Live(request[t].account, request[t].now) IN
       request' = [request EXCEPT ![t].step = "write",
                                  ![t].active = {x \in live : replaced[x] = None},
                                  ![t].old = {x \in live : replaced[x] # None}]
    /\ UNCHANGED <<account, of, expires, replaced, revoked, clock, requests, maker>>

\* Mutants: the token it had stays the active one; the loop revokes every live token; the new
\* row's service_account_id is left out.
NothingReplaced(r) == {}
WholeListEnds(r) == r.active \cup r.old

\* What a renewal does to the live tokens it saw: an active one starts its overlap, one in its
\* overlap ends.
Replaces(r) == r.active
RevokedByRenewal(r) == r.old

NewRow(x, r) == [of EXCEPT ![x] = r.account]

\* issue_token.
Issue(t, x) ==
    LET r == request[t] IN
    /\ r.step = "write" /\ r.op = "issue"
    /\ of[x] = None /\ maker[x] = None
    /\ of' = NewRow(x, r)
    /\ expires' = [expires EXCEPT ![x] = r.expires]
    /\ maker' = [maker EXCEPT ![x] = t]
    /\ replaced' = [y \in Tokens |-> IF y \in Replaces(r) THEN r.now ELSE replaced[y]]
    /\ revoked' = revoked \cup RevokedByRenewal(r)
    /\ Answers(t, r, "ok")
    /\ UNCHANGED <<account, clock, requests>>

RevokesActive(r) == IF r.op = "revoke_old" THEN r.old ELSE r.active  \* mutant: the overlap left

\* _revoke: every live token, or only those in their overlap.
Revokes(r) == IF r.op = "revoke_old" THEN r.old ELSE r.active \cup r.old

\* revoke_tokens.
Revoke(t) ==
    LET r == request[t] IN
    /\ r.step = "write" /\ r.op \in {"revoke", "revoke_old"}
    /\ revoked' = revoked \cup Revokes(r)
    /\ Answers(t, r, "ok")
    /\ UNCHANGED <<account, of, expires, replaced, clock, requests, maker>>

\* remove_account: revokes its tokens, takes it out of the organization and closes it.
RemoveAccount(t) ==
    LET r == request[t] IN
    /\ r.step = "write" /\ r.op = "remove"
    /\ revoked' = revoked \cup Revokes(r)
    /\ account' = [account EXCEPT ![r.account] = "closed"]
    /\ Answers(t, r, "ok")
    /\ UNCHANGED <<of, expires, replaced, clock, requests, maker>>

-----------------------------------------------------------------------------
(***************************************************************************)
(* A service's request.                                                    *)
(***************************************************************************)
\* get_service_token, up to the token.
Use(t, x) ==
    /\ Free(t)
    /\ of[x] # None
    /\ requests' = requests + 1
    /\ LET r == [NoRequest EXCEPT !.op = "use", !.account = of[x], !.now = clock,
                                  !.wasOpen = account[of[x]] = "open"] IN
       \/ ~IsValid(x, clock) /\ Answers(t, r, "refused")
       \/ IsValid(x, clock) /\ request' = [request EXCEPT ![t] = [r EXCEPT !.step = "account"]]
    /\ UNCHANGED <<account, of, expires, replaced, revoked, clock, maker>>

AnyAccountActs(a) == TRUE  \* mutant: the token is enough
MayAct(a) == account[a] = "open"

\* Then its account, which must be active.
ReadAccount(t) ==
    LET r == request[t] IN
    /\ r.step = "account"
    /\ Answers(t, r, IF MayAct(r.account) THEN "ok" ELSE "refused")
    /\ UNCHANGED <<account, of, expires, replaced, revoked, clock, requests, maker>>

-----------------------------------------------------------------------------
\* Time passes; a request under way is answered within Patience.
Tick ==
    /\ clock < MaxTime
    /\ \A t \in Threads : request[t].step # "idle" => clock < request[t].now + Patience
    /\ clock' = clock + 1
    /\ UNCHANGED <<account, of, expires, replaced, revoked, request, requests, maker>>

Next ==
    \/ Tick
    \/ \E a \in Accounts : CreateAccount(a)
    \/ \E t \in Threads :
          \/ ReadTokens(t) \/ Revoke(t) \/ RemoveAccount(t) \/ ReadAccount(t)
          \/ \E x \in Tokens : Issue(t, x) \/ Use(t, x)
          \/ \E op \in {"issue", "revoke", "revoke_old", "remove"}, a \in Accounts,
                e \in Expiries \cup {None} : Receive(t, op, a, e)

Spec == Init /\ [][Next]_vars

-----------------------------------------------------------------------------
\* The tokens "neither replaced nor revoked" (server/core/models/service_token.py), and not
\* expired.
Active(x) == of[x] # None /\ IsValid(x, clock) /\ replaced[x] = None

\* Renewals that cross each leave an active token, and no more than that: of two active tokens
\* of an account, different threads made each, however many renewals they served.
OneActivePerThread ==
    \A x, y \in Tokens :
        (Active(x) /\ Active(y) /\ of[x] = of[y] /\ maker[x] = maker[y]) => x = y

\* "One token per account is active" (server/core/models/service_token.py).
OneActiveToken ==
    \A x, y \in Tokens : (Active(x) /\ Active(y) /\ of[x] = of[y]) => x = y

\* When revoking (or removing the account) is answered, every token the account had when it was
\* asked for is over, whatever renewals cross it: none that starts a new overlap for one that
\* was past its own.
RevocationReachesAll ==
    [][\A t \in Threads :
          (/\ request[t].step = "write" /\ request[t].op \in {"revoke", "remove"}
           /\ request'[t].step = "idle")
              => \A x \in request[t].known : ~IsValid(x, clock)']_vars

\* "The token it had keeps working" (issue_token): a renewal ends no active token, not even one
\* made while it was under way.
RenewalSparesTheActive ==
    [][\A t \in Threads :
          (request[t].step = "write" /\ request[t].op = "issue" /\ request'[t].step = "idle")
              => \A x \in Tokens : Active(x) => IsValid(x, clock)']_vars

\* Nothing acts as an account that was removed before it asked, not even with a token that a
\* renewal made after the removal had revoked them all.
RemovedCannotAct ==
    \A t \in Threads :
        (request[t].op = "use" /\ request[t].answer = "ok") => request[t].wasOpen

=============================================================================
