------------------------------- MODULE SignIn -------------------------------
(***************************************************************************)
(* Signing in: with Google (server/app/google_auth.py and                  *)
(* server/utils/google_sign_in.py; for the MCP server,                     *)
(* mcp_server/google_oauth.py), with a password, and what a session does   *)
(* to its account's password and API key (server/app/auth.py).             *)
(*                                                                         *)
(* An account is told by its address, which never changes; Google's        *)
(* accounts by their subject, and their addresses do change.  Every        *)
(* handler is a plain `def` in a worker thread with a session of its own,  *)
(* in READ COMMITTED: what it reads is what was committed by then, and     *)
(* what it writes is committed at its end.  An UPDATE writes the columns   *)
(* whose value differs from the one loaded.                                *)
(*                                                                         *)
(* A way in is known by where it comes from: from a sign-up, whose address *)
(* nobody verified ("unproven"), or from a sign-in with Google.  Histories *)
(* turn into "late" the unproven ways in that a link to Google can't see:  *)
(* those of requests under way while it is.                                *)
(*                                                                         *)
(* Abstracted: names and profiles, the Workspace's domain, the cookie, the *)
(* limit on failed passwords (RateLimits), service accounts.              *)
(***************************************************************************)
EXTENDS Integers, FiniteSets

CONSTANTS
    Emails,       \* addresses; `users.email` is unique
    Subjects,     \* Google's accounts: the `sub` of their ID tokens
    Threads,      \* worker threads of all the tasks
    States,       \* the sign-ins /start begins: `state`, and the code it ends in
    StateTTL,     \* STATE_TTL
    CodeTTL,      \* LOGIN_CODE_TTL
    Fresh,        \* FRESH_SESSION
    AllowSignUp,  \* settings.allow_password_signup
    MaxTime,      \* bound: the clock, in units of `iat`'s second, stops there
    MaxRequests,  \* bound: requests received
    MaxMoves,     \* bound: addresses Google gives to an account
    None          \* NULL

ASSUME SignInAssumption ==
    /\ StateTTL \in Nat /\ CodeTTL \in Nat /\ Fresh \in Nat
    /\ AllowSignUp \in BOOLEAN
    /\ MaxTime \in Nat /\ MaxRequests \in Nat /\ MaxMoves \in Nat
    /\ None \notin Nat \cup Emails \cup Subjects \cup States
    /\ None \notin {"unproven", "google", "late"}

VARIABLES
    account,    \* account[e]: the row of `users` with the address e
    identity,   \* identity[g]: the account of g's row in `user_identities`, or None
    address,    \* address[g]: the address Google vouches for, or None
    state,      \* state[s]: when s's row in `google_auth_states` was made; None without one
    started,    \* the states made so far
    code,       \* code[s]: s's row in `login_codes`
    sessions,   \* the JWTs given out
    request,    \* request[t]: what the thread t has read
    now,
    requests,   \* requests received so far
    moves       \* addresses given so far

vars == <<account, identity, address, state, started, code, sessions, request, now,
          requests, moves>>

Time == 0 .. MaxTime
Roots == {"unproven", "google", "late"}
Account == [made : BOOLEAN, open : BOOLEAN, password : Roots \cup {None},
            key : Roots \cup {None}, cutoff : Time]
Code == [of : Emails \cup {None}, at : Time]
Session == [of : Emails, iat : Time, root : Roots, from : States \cup {None}]
Steps == {"idle", "asking", "known", "unknown", "insert", "found", "link", "redeemed",
          "register", "verified", "session"}
FirstSteps == {"unknown", "insert", "found", "link"}  \* of a first sign-in
Request == [step : Steps, from : States \cup {None}, sub : Subjects \cup {None},
            addr : Emails \cup {None}, root : Roots, at : Time,
            password : BOOLEAN, key : BOOLEAN]

SignInTypeOK ==
    /\ account \in [Emails -> Account]
    /\ identity \in [Subjects -> Emails \cup {None}]
    /\ address \in [Subjects -> Emails \cup {None}]
    /\ state \in [States -> Time \cup {None}]
    /\ started \subseteq States
    /\ code \in [States -> Code]
    /\ sessions \subseteq Session
    /\ request \in [Threads -> Request]
    /\ now \in Time /\ requests \in 0 .. MaxRequests /\ moves \in 0 .. MaxMoves

NoAccount == [made |-> FALSE, open |-> FALSE, password |-> None, key |-> None, cutoff |-> 0]
NoCode == [of |-> None, at |-> 0]
Nothing == [step |-> "idle", from |-> None, sub |-> None, addr |-> None, root |-> "google",
            at |-> 0, password |-> FALSE, key |-> FALSE]

\* Google's side: no two of its accounts have the same address.
OneHolderEach(f) == \A g, h \in Subjects : f[g] # None /\ f[g] = f[h] => g = h

Init ==
    /\ account = [e \in Emails |-> NoAccount]
    /\ identity = [g \in Subjects |-> None]
    /\ address \in {f \in [Subjects -> Emails \cup {None}] : OneHolderEach(f)}
    /\ state = [s \in States |-> None]
    /\ started = {}
    /\ code = [s \in States |-> NoCode]
    /\ sessions = {}
    /\ request = [t \in Threads |-> Nothing]
    /\ now = 0 /\ requests = 0 /\ moves = 0

\* A way in that is set, as the column loaded says.
Set(way) == way # None
HasGoogle(e) == \E g \in Subjects : identity[g] = e

Receives(t) ==
    /\ request[t].step = "idle"
    /\ requests < MaxRequests
    /\ requests' = requests + 1

Goes(t, r) == request' = [request EXCEPT ![t] = r]
Ends(t)    == Goes(t, Nothing)

-----------------------------------------------------------------------------
(***************************************************************************)
(* Sign in with Google.                                                    *)
(***************************************************************************)
\* /start: the expired states are deleted, and a new one made.
Unexpired(s) == state[s] # None /\ state[s] + StateTTL >= now

StartSignIn(s) ==
    /\ s \notin started
    /\ started' = started \cup {s}
    /\ state' = [q \in States |-> IF q = s THEN now ELSE IF Unexpired(q) THEN state[q] ELSE None]
    /\ UNCHANGED <<account, identity, address, code, sessions, request, now, requests, moves>>

\* take_code_verifier: a DELETE ... RETURNING with its own commit, so the state is used up
\* whatever comes of the rest.
TakeReturns(s) == state[s] # None /\ now < state[s] + StateTTL
StateKept(s) == state  \* a wrong version: read, and deleted when it expires
TakeLeaves(s) == [state EXCEPT ![s] = None]

TakeState(t, s) ==
    /\ Receives(t)
    /\ s \in started
    /\ state' = TakeLeaves(s)
    /\ IF TakeReturns(s)
       THEN Goes(t, [Nothing EXCEPT !.step = "asking", !.from = s])
       ELSE UNCHANGED request
    /\ UNCHANGED <<account, identity, address, started, code, sessions, now, moves>>

\* The MCP server's sign-in: fastmcp keeps the state, and its proxy gives the token.
McpSignIn(t) ==
    /\ Receives(t)
    /\ Goes(t, [Nothing EXCEPT !.step = "asking"])
    /\ UNCHANGED <<account, identity, address, state, started, code, sessions, now, moves>>

\* Google denies it, can't be reached, or its answer doesn't check out.
Refused(t) ==
    /\ request[t].step = "asking"
    /\ Ends(t)
    /\ UNCHANGED <<account, identity, address, state, started, code, sessions, now, requests,
                   moves>>

\* account_for, then sign_in_with_google reads the identity: g's, or none yet.
Identify(t, g) ==
    /\ request[t].step = "asking"
    /\ address[g] # None
    /\ LET r == [request[t] EXCEPT !.sub = g] IN
       \/ identity[g] = None /\ Goes(t, [r EXCEPT !.step = "unknown", !.addr = address[g]])
       \/ /\ identity[g] # None /\ account[identity[g]].open
          /\ Goes(t, [r EXCEPT !.step = "known", !.addr = identity[g]])
       \/ identity[g] # None /\ ~account[identity[g]].open /\ Ends(t)
    /\ UNCHANGED <<account, identity, address, state, started, code, sessions, now, requests,
                   moves>>

\* The account with the address.
FindUser(t) ==
    /\ request[t].step = "unknown"
    /\ LET r == request[t]
           a == account[r.addr] IN
       \/ ~a.made /\ Goes(t, [r EXCEPT !.step = "insert"])
       \/ a.made /\ ~a.open /\ Ends(t)
       \/ /\ a.made /\ a.open
          /\ Goes(t, [r EXCEPT !.step = "found", !.password = Set(a.password),
                               !.key = Set(a.key)])
    /\ UNCHANGED <<account, identity, address, state, started, code, sessions, now, requests,
                   moves>>

\* user.has_google loads the identities: a second query.  None, and the time is taken
\* for `sessions_valid_from`; one, and it's another Google account's.
OnceUnlinked(e) == account[e].made  \* a wrong version
Linkable(e) == ~HasGoogle(e)

CheckGoogle(t) ==
    /\ request[t].step = "found"
    /\ \/ ~Linkable(request[t].addr) /\ Ends(t)
       \/ Linkable(request[t].addr) /\ Goes(t, [request[t] EXCEPT !.step = "link", !.at = now])
    /\ UNCHANGED <<account, identity, address, state, started, code, sessions, now, requests,
                   moves>>

\* The one-time code of a sign-in the page began; the MCP server's has none.
IssueCode(r) ==
    code' = IF r.from = None THEN code ELSE [code EXCEPT ![r.from] = [of |-> r.addr, at |-> now]]

OpenKnown(t) ==
    /\ request[t].step = "known"
    /\ IssueCode(request[t])
    /\ Ends(t)
    /\ UNCHANGED <<account, identity, address, state, started, sessions, now, requests, moves>>

\* The unique keys: an address's account, a subject's identity.  IntegrityError, and the
\* callback answers try_again with nothing kept.
Crossed(r) == identity[r.sub] # None \/ (r.step = "insert" /\ account[r.addr].made)

TryAgain(t) ==
    /\ request[t].step \in {"insert", "link"}
    /\ Crossed(request[t])
    /\ Ends(t)
    /\ UNCHANGED <<account, identity, address, state, started, code, sessions, now, requests,
                   moves>>

InsertUser(t) ==
    /\ request[t].step = "insert"
    /\ ~Crossed(request[t])
    /\ account' = [account EXCEPT ![request[t].addr] =
                      [NoAccount EXCEPT !.made = TRUE, !.open = TRUE]]
    /\ identity' = [identity EXCEPT ![request[t].sub] = request[t].addr]
    /\ IssueCode(request[t])
    /\ Ends(t)
    /\ UNCHANGED <<address, state, started, sessions, now, requests, moves>>

\* _lock_out_whoever_made_it: the columns it writes, over the row a as it is by then.  One it
\* loaded as NULL isn't written.
Late(root) == IF root = "unproven" THEN "late" ELSE root
LateWay(way) == IF way = "unproven" THEN "late" ELSE way
KeyKept(r, a) == [a EXCEPT !.password = None, !.cutoff = r.at]  \* a wrong version
LockedRow(r, a) ==
    [a EXCEPT !.password = IF r.password THEN None ELSE LateWay(a.password),
              !.key = IF r.key THEN None ELSE LateWay(a.key),
              !.cutoff = r.at]

\* History: the sessions the cutoff spares, and the requests under way, are late.
LateSessions(e, at) ==
    {IF s.of = e /\ s.iat >= at THEN [s EXCEPT !.root = Late(s.root)] ELSE s : s \in sessions}
LateRequests(e) ==
    [t \in Threads |-> IF request[t].addr = e
                       THEN [request[t] EXCEPT !.root = Late(request[t].root)] ELSE request[t]]

Link(t) ==
    LET r == request[t]
        e == r.addr IN
    /\ r.step = "link"
    /\ ~Crossed(r)
    /\ account' = [account EXCEPT ![e] = LockedRow(r, account[e])]
    /\ identity' = [identity EXCEPT ![r.sub] = e]
    /\ sessions' = LateSessions(e, r.at)
    /\ IssueCode(r)
    /\ request' = [LateRequests(e) EXCEPT ![t] = Nothing]
    /\ UNCHANGED <<address, state, started, now, requests, moves>>

\* /exchange: a DELETE ... RETURNING, and the JWT once it's committed.
RedeemReturns(s) == code[s].of # None /\ now < code[s].at + CodeTTL
RedeemLeaves(s) == [code EXCEPT ![s] = NoCode]

Redeem(t, s) ==
    /\ Receives(t)
    /\ code[s].of # None
    /\ code' = RedeemLeaves(s)
    /\ IF RedeemReturns(s) /\ account[code[s].of].open
       THEN Goes(t, [Nothing EXCEPT !.step = "redeemed", !.from = s, !.addr = code[s].of])
       ELSE UNCHANGED request
    /\ UNCHANGED <<account, identity, address, state, started, sessions, now, moves>>

-----------------------------------------------------------------------------
(***************************************************************************)
(* Passwords.                                                              *)
(***************************************************************************)
\* /register looks for the address, then makes the account: its unique key may refuse it.
Register(t, e) ==
    /\ AllowSignUp
    /\ Receives(t)
    /\ IF account[e].made
       THEN UNCHANGED request
       ELSE Goes(t, [Nothing EXCEPT !.step = "register", !.addr = e, !.root = "unproven"])
    /\ UNCHANGED <<account, identity, address, state, started, code, sessions, now, moves>>

InsertRegistered(t) ==
    /\ request[t].step = "register"
    /\ account' = IF account[request[t].addr].made THEN account
                  ELSE [account EXCEPT ![request[t].addr] =
                           [NoAccount EXCEPT !.made = TRUE, !.open = TRUE,
                                             !.password = request[t].root]]
    /\ Ends(t)
    /\ UNCHANGED <<identity, address, state, started, code, sessions, now, requests, moves>>

\* /login: the password matches, then the JWT is made.  Whether the account is open is
\* the request's that brings it.
Login(t, e) ==
    /\ Receives(t)
    /\ Set(account[e].password)
    /\ Goes(t, [Nothing EXCEPT !.step = "verified", !.addr = e, !.root = account[e].password])
    /\ UNCHANGED <<account, identity, address, state, started, code, sessions, now, moves>>

\* create_access_token, for /exchange and /login: `iat` is its own moment.
GiveToken(t) ==
    /\ request[t].step \in {"redeemed", "verified"}
    /\ sessions' = sessions \cup {[of |-> request[t].addr, iat |-> now, root |-> request[t].root,
                                   from |-> request[t].from]}
    /\ Ends(t)
    /\ UNCHANGED <<account, identity, address, state, started, code, now, requests, moves>>

-----------------------------------------------------------------------------
(***************************************************************************)
(* What a session does to its account's ways in.                           *)
(***************************************************************************)
\* get_signed_in_session.
Accepts(s) == s.iat >= account[s.of].cutoff

Authenticate(t, s) ==
    /\ Receives(t)
    /\ Accepts(s) /\ account[s.of].open
    /\ Goes(t, [Nothing EXCEPT !.step = "session", !.addr = s.of, !.root = s.root, !.at = s.iat,
                               !.password = Set(account[s.of].password),
                               !.key = Set(account[s.of].key)])
    /\ UNCHANGED <<account, identity, address, state, started, code, sessions, now, moves>>

IsFresh(r) == now - r.at <= Fresh

\* change_password and set_password.  `proved`: the current password is given, and matches.
MaySetPassword(r, proved) ==
    \/ proved /\ r.password
    \/ ~proved /\ (r.password => HasGoogle(r.addr)) /\ IsFresh(r)

SetPassword(t, proved) ==
    /\ request[t].step = "session"
    /\ MaySetPassword(request[t], proved)
    /\ account' = [account EXCEPT ![request[t].addr].password = request[t].root]
    /\ Ends(t)
    /\ UNCHANGED <<identity, address, state, started, code, sessions, now, requests, moves>>

\* remove_password.
AnyFreshMay(r) == IsFresh(r)  \* a wrong version
MayRemovePassword(r) == HasGoogle(r.addr) /\ IsFresh(r)

RemovePassword(t) ==
    /\ request[t].step = "session"
    /\ MayRemovePassword(request[t])
    /\ account' = IF request[t].password
                  THEN [account EXCEPT ![request[t].addr].password = None] ELSE account
    /\ Ends(t)
    /\ UNCHANGED <<identity, address, state, started, code, sessions, now, requests, moves>>

GenerateApiKey(t) ==
    /\ request[t].step = "session"
    /\ account' = [account EXCEPT ![request[t].addr].key = request[t].root]
    /\ Ends(t)
    /\ UNCHANGED <<identity, address, state, started, code, sessions, now, requests, moves>>

\* With a session or the key itself; which of them isn't told apart.
RevokeApiKey(t) ==
    /\ request[t].step = "session"
    /\ account' = IF request[t].key
                  THEN [account EXCEPT ![request[t].addr].key = None] ELSE account
    /\ Ends(t)
    /\ UNCHANGED <<identity, address, state, started, code, sessions, now, requests, moves>>

\* A 400, 403 or 409.
Declined(t) ==
    /\ request[t].step = "session"
    /\ Ends(t)
    /\ UNCHANGED <<account, identity, address, state, started, code, sessions, now, requests,
                   moves>>

\* remove_member (module OrgRoles) closes the account and clears its key.
Close(e) ==
    /\ account[e].open
    /\ requests < MaxRequests /\ requests' = requests + 1
    /\ account' = [account EXCEPT ![e].open = FALSE, ![e].key = None]
    /\ UNCHANGED <<identity, address, state, started, code, sessions, request, now, moves>>

-----------------------------------------------------------------------------
(***************************************************************************)
(* Google gives an account an address, its first or another, and whoever  *)
(* had it has none.  No sign-in with that address is under way: Google     *)
(* keeps a freed one back for days.                                        *)
(***************************************************************************)
Address(g, e) ==
    /\ moves < MaxMoves /\ moves' = moves + 1
    /\ \A t \in Threads : request[t].step \in FirstSteps => request[t].addr # e
    /\ address' = [h \in Subjects |-> IF h = g THEN e
                                      ELSE IF address[h] = e THEN None ELSE address[h]]
    /\ UNCHANGED <<account, identity, state, started, code, sessions, request, now, requests>>

Tick ==
    /\ now < MaxTime
    /\ now' = now + 1
    /\ UNCHANGED <<account, identity, address, state, started, code, sessions, request, requests,
                   moves>>

ThreadStep(t) ==
    \/ \E s \in States : TakeState(t, s)
    \/ \E s \in States : Redeem(t, s)
    \/ McpSignIn(t)
    \/ Refused(t)
    \/ \E g \in Subjects : Identify(t, g)
    \/ FindUser(t)
    \/ CheckGoogle(t)
    \/ OpenKnown(t)
    \/ TryAgain(t)
    \/ InsertUser(t)
    \/ Link(t)
    \/ \E e \in Emails : Register(t, e)
    \/ InsertRegistered(t)
    \/ \E e \in Emails : Login(t, e)
    \/ GiveToken(t)
    \/ \E s \in sessions : Authenticate(t, s)
    \/ \E proved \in BOOLEAN : SetPassword(t, proved)
    \/ RemovePassword(t)
    \/ GenerateApiKey(t)
    \/ RevokeApiKey(t)
    \/ Declined(t)

Next ==
    \/ \E t \in Threads : ThreadStep(t)
    \/ \E s \in States : StartSignIn(s)
    \/ \E e \in Emails : Close(e)
    \/ \E g \in Subjects, e \in Emails : Address(g, e)
    \/ Tick

Spec == Init /\ [][Next]_vars

-----------------------------------------------------------------------------
(***************************************************************************)
(* What it promises.                                                       *)
(***************************************************************************)
\* Rule 3: once an account is linked to Google, nothing its sign-up left lets anyone in: not
\* its password, its API key, or a session.  What escapes is what a request under way while
\* the link was wrote or was given (google_sign_in.py:153-160).
LockedOut ==
    \A e \in Emails : HasGoogle(e) =>
        /\ account[e].password # "unproven"
        /\ account[e].key # "unproven"
        /\ \A s \in sessions : s.of = e /\ s.root = "unproven" => ~Accepts(s)
        /\ \A t \in Threads : request[t].addr = e /\ request[t].step # "register" =>
                            request[t].root # "unproven"

\* Rule 4: an account opens for one Google account alone, whoever has its address now and
\* however first sign-ins cross (google_sign_in.py:105-117).
OneGoogleEach ==
    \A g, h \in Subjects : identity[g] # None /\ identity[g] = identity[h] => g = h

\* An account always has a way in: a password, or Google's (auth.py:374).
AlwaysAWayIn ==
    \A e \in Emails : account[e].made => Set(account[e].password) \/ HasGoogle(e)

\* A sign-in the page began opens one session at most: its state and its code are each good
\* once, however many requests bring them (google_sign_in.py:72-85, 179-191).
OneSessionEach ==
    \A s \in States :
        /\ \A j, k \in sessions : j.from = s /\ k.from = s => j = k
        /\ \A t, u \in Threads : request[t].from = s /\ request[u].from = s => t = u
        /\ \A j \in sessions : j.from = s => code[s].of = None
        /\ \A t \in Threads : request[t].from = s =>
              code[s].of = None /\ \A j \in sessions : j.from # s
=============================================================================
