---------------------------- MODULE SignInProofs ----------------------------
(***************************************************************************)
(* Theorems of SignIn, for any number of addresses, Google accounts,       *)
(* threads and sign-ins, and any lifetimes.                                *)
(***************************************************************************)
EXTENDS SignIn, TLAPS

\* What a request has read still holds of its account.
SoundRequest(r) ==
    /\ r.step \notin {"idle", "asking"} => r.addr \in Emails
    /\ r.step \in {"known", "found", "link", "redeemed", "verified", "session"} =>
          account[r.addr].made
    /\ r.root # "google" => r.step \in {"register", "verified", "session"}
    /\ (r.root = "unproven" /\ r.step # "register") => ~HasGoogle(r.addr)
    /\ r.step \in FirstSteps =>
          r.sub \in Subjects /\ \A h \in Subjects : address[h] = r.addr => h = r.sub
    /\ r.step = "link" => \A h \in Subjects : identity[h] = r.addr => h = r.sub

\* First sign-ins with one address are of one Google account.
SameSubject(r, q) ==
    (r.step \in FirstSteps /\ q.step \in FirstSteps /\ r.addr = q.addr) => r.sub = q.sub

RequestsSound ==
    /\ \A t \in Threads : SoundRequest(request[t])
    /\ \A t, u \in Threads : SameSubject(request[t], request[u])

\* What refers to an account refers to one that was made.
RowsHaveAnAccount ==
    /\ \A g \in Subjects : identity[g] # None => account[identity[g]].made
    /\ \A s \in States : code[s].of # None => account[code[s].of].made
    /\ \A j \in sessions : account[j.of].made

\* An account not made yet has no password, nor anything else.
PasswordsAreMade == \A e \in Emails : ~account[e].made => account[e] = NoAccount

\* LockedOut, but for the requests under way, which SoundRequest is about.
AccountLocked(e) ==
    HasGoogle(e) =>
        /\ account[e].password # "unproven"
        /\ account[e].key # "unproven"
        /\ \A s \in sessions : s.of = e /\ s.root = "unproven" => ~Accepts(s)

AccountsInv ==
    /\ SignInTypeOK
    /\ OneHolderEach(address)
    /\ RequestsSound
    /\ RowsHaveAnAccount
    /\ PasswordsAreMade
    /\ OneGoogleEach
    /\ AlwaysAWayIn
    /\ \A e \in Emails : AccountLocked(e)

-----------------------------------------------------------------------------
LEMMA NothingType == Nothing \in Request /\ NoAccount \in Account /\ NoCode \in Code
  BY SignInAssumption
  DEF Nothing, NoAccount, NoCode, Request, Account, Code, Steps, Roots, Time

\* Receiving a request counts it.
LEMMA ReceivesType ==
    ASSUME SignInTypeOK, NEW t \in Threads, Receives(t)
    PROVE  requests' \in 0 .. MaxRequests
  BY SignInAssumption DEF SignInTypeOK, Receives

\* A thread that goes on with another request.
LEMMA GoesType ==
    ASSUME SignInTypeOK, NEW t \in Threads, NEW r \in Request, Goes(t, r)
    PROVE  request' \in [Threads -> Request]
  BY DEF SignInTypeOK, Goes

LEMMA EndsType ==
    ASSUME SignInTypeOK, NEW t \in Threads, Ends(t)
    PROVE  request' \in [Threads -> Request]
  BY NothingType, GoesType DEF Ends

LEMMA LateIsRoot == \A root \in Roots : Late(root) \in Roots
  BY DEF Roots, Late

LEMMA LockedRowType ==
    ASSUME NEW r \in Request, NEW a \in Account
    PROVE  /\ LockedRow(r, a) \in Account
           /\ LockedRow(r, a).made = a.made
           /\ LockedRow(r, a).password # "unproven"
           /\ LockedRow(r, a).key # "unproven"
           /\ LockedRow(r, a).cutoff = r.at
  BY SignInAssumption DEF LockedRow, LateWay, Request, Account, Roots

-----------------------------------------------------------------------------
(***************************************************************************)
(* Every action keeps the types.                                           *)
(***************************************************************************)
\* The steps that only read: a request changes, and perhaps the states.
OnlyReads(t) ==
    \/ \E s \in States : TakeState(t, s)
    \/ McpSignIn(t)
    \/ Refused(t)
    \/ \E g \in Subjects : Identify(t, g)
    \/ FindUser(t)
    \/ CheckGoogle(t)
    \/ TryAgain(t)
    \/ \E e \in Emails : Register(t, e)
    \/ \E e \in Emails : Login(t, e)
    \/ \E s \in sessions : Authenticate(t, s)
    \/ Declined(t)

LEMMA ReadsType ==
    ASSUME SignInTypeOK, NEW t \in Threads, OnlyReads(t)
    PROVE  SignInTypeOK'
  <1> USE NothingType, SignInAssumption
  <1>1. CASE \E s \in States : TakeState(t, s)
    <2>1. PICK s \in States : TakeState(t, s)
      BY <1>1
    <2>2. [Nothing EXCEPT !.step = "asking", !.from = s] \in Request
      BY DEF Request, Steps
    <2>3. request' \in [Threads -> Request]
      BY <2>1, <2>2, GoesType DEF TakeState, SignInTypeOK
    <2>4. state' \in [States -> Time \cup {None}]
      BY <2>1 DEF TakeState, TakeLeaves, SignInTypeOK
    <2> QED
      BY <2>1, <2>3, <2>4, ReceivesType DEF TakeState, SignInTypeOK
  <1>2. CASE McpSignIn(t)
    <2>1. [Nothing EXCEPT !.step = "asking"] \in Request
      BY DEF Request, Steps
    <2> QED
      BY <1>2, <2>1, GoesType, ReceivesType DEF McpSignIn, SignInTypeOK
  <1>3. CASE Refused(t) \/ TryAgain(t) \/ Declined(t)
    BY <1>3, EndsType DEF Refused, TryAgain, Declined, SignInTypeOK
  <1>4. CASE \E g \in Subjects : Identify(t, g)
    <2>1. PICK g \in Subjects : Identify(t, g)
      BY <1>4
    <2>2. /\ request[t] \in Request
          /\ identity[g] \in Emails \cup {None} /\ address[g] \in Emails \cup {None}
      BY DEF SignInTypeOK
    <2>3. /\ [request[t] EXCEPT !.sub = g, !.step = "unknown", !.addr = address[g]] \in Request
          /\ [request[t] EXCEPT !.sub = g, !.step = "known", !.addr = identity[g]] \in Request
      BY <2>2 DEF Request, Steps
    <2>4. request' \in [Threads -> Request]
      BY <2>1, <2>3, GoesType, EndsType DEF Identify
    <2> QED
      BY <2>1, <2>4 DEF Identify, SignInTypeOK
  <1>5. CASE FindUser(t)
    <2>1. request[t] \in Request
      BY DEF SignInTypeOK
    <2>2. /\ [request[t] EXCEPT !.step = "insert"] \in Request
          /\ \A p, k \in BOOLEAN : [request[t] EXCEPT !.step = "found", !.password = p,
                                                      !.key = k] \in Request
      BY <2>1 DEF Request, Steps
    <2>3. request' \in [Threads -> Request]
      BY <1>5, <2>2, GoesType, EndsType DEF FindUser, Set
    <2> QED
      BY <1>5, <2>3 DEF FindUser, SignInTypeOK
  <1>6. CASE CheckGoogle(t)
    <2>1. [request[t] EXCEPT !.step = "link", !.at = now] \in Request
      BY DEF SignInTypeOK, Request, Steps
    <2>2. request' \in [Threads -> Request]
      BY <1>6, <2>1, GoesType, EndsType DEF CheckGoogle
    <2> QED
      BY <1>6, <2>2 DEF CheckGoogle, SignInTypeOK
  <1>7. CASE \E e \in Emails : Register(t, e)
    <2>1. PICK e \in Emails : Register(t, e)
      BY <1>7
    <2>2. [Nothing EXCEPT !.step = "register", !.addr = e, !.root = "unproven"] \in Request
      BY DEF Request, Steps, Roots
    <2>3. request' \in [Threads -> Request]
      BY <2>1, <2>2, GoesType DEF Register, SignInTypeOK
    <2> QED
      BY <2>1, <2>3, ReceivesType DEF Register, SignInTypeOK
  <1>8. CASE \E e \in Emails : Login(t, e)
    <2>1. PICK e \in Emails : Login(t, e)
      BY <1>8
    <2>2. account[e].password \in Roots
      BY <2>1 DEF Login, Set, SignInTypeOK, Account
    <2>3. [Nothing EXCEPT !.step = "verified", !.addr = e, !.root = account[e].password]
              \in Request
      BY <2>2 DEF Request, Steps
    <2>4. request' \in [Threads -> Request]
      BY <2>1, <2>3, GoesType DEF Login
    <2> QED
      BY <2>1, <2>4, ReceivesType DEF Login, SignInTypeOK
  <1>9. CASE \E s \in sessions : Authenticate(t, s)
    <2>1. PICK s \in sessions : Authenticate(t, s)
      BY <1>9
    <2>2. s \in Session
      BY DEF SignInTypeOK
    <2>3. \A p, k \in BOOLEAN :
              [Nothing EXCEPT !.step = "session", !.addr = s.of, !.root = s.root, !.at = s.iat,
                              !.password = p, !.key = k] \in Request
      BY <2>2 DEF Request, Steps, Session
    <2>4. request' \in [Threads -> Request]
      BY <2>1, <2>3, GoesType DEF Authenticate, Set
    <2> QED
      BY <2>1, <2>4, ReceivesType DEF Authenticate, SignInTypeOK
  <1> QED
    BY <1>1, <1>2, <1>3, <1>4, <1>5, <1>6, <1>7, <1>8, <1>9 DEF OnlyReads

LEMMA IssueCodeType ==
    ASSUME SignInTypeOK, NEW t \in Threads, request[t].addr \in Emails, IssueCode(request[t])
    PROVE  code' \in [States -> Code]
  <1>1. request[t].from \in States \cup {None}
    BY DEF SignInTypeOK, Request
  <1>2. [of |-> request[t].addr, at |-> now] \in Code
    BY DEF SignInTypeOK, Code
  <1> QED
    BY <1>1, <1>2 DEF IssueCode, SignInTypeOK

\* The steps of a thread that write.
Writes(t) ==
    \/ \E s \in States : Redeem(t, s)
    \/ OpenKnown(t)
    \/ InsertUser(t)
    \/ Link(t)
    \/ InsertRegistered(t)
    \/ GiveToken(t)
    \/ \E proved \in BOOLEAN : SetPassword(t, proved)
    \/ RemovePassword(t)
    \/ GenerateApiKey(t)
    \/ RevokeApiKey(t)

LEMMA WritesType ==
    ASSUME SignInTypeOK, NEW t \in Threads, SoundRequest(request[t]), Writes(t)
    PROVE  SignInTypeOK'
  <1> USE NothingType, SignInAssumption
  <1>r. /\ request[t] \in Request
        /\ request[t].step \in Steps \ {"idle", "asking"} => request[t].addr \in Emails
    BY DEF SignInTypeOK, SoundRequest
  <1>a. \A e \in Emails : account[e] \in Account
    BY DEF SignInTypeOK
  <1>1. CASE \E s \in States : Redeem(t, s)
    <2>1. PICK s \in States : Redeem(t, s)
      BY <1>1
    <2>2. code[s].of \in Emails
      BY <2>1 DEF Redeem, SignInTypeOK, Code
    <2>3. [Nothing EXCEPT !.step = "redeemed", !.from = s, !.addr = code[s].of] \in Request
      BY <2>2 DEF Request, Steps
    <2>4. request' \in [Threads -> Request]
      BY <2>1, <2>3, GoesType DEF Redeem, SignInTypeOK
    <2>5. code' \in [States -> Code]
      BY <2>1 DEF Redeem, RedeemLeaves, SignInTypeOK
    <2> QED
      BY <2>1, <2>4, <2>5, ReceivesType DEF Redeem, SignInTypeOK
  <1>2. CASE OpenKnown(t)
    BY <1>2, <1>r, EndsType, IssueCodeType DEF OpenKnown, SignInTypeOK, Steps
  <1>3. CASE InsertUser(t)
    <2>1. request[t].addr \in Emails /\ request[t].sub \in Subjects
      BY <1>3, <1>r DEF InsertUser, Steps, SoundRequest, FirstSteps
    <2>2. account' \in [Emails -> Account]
      BY <1>3 DEF InsertUser, SignInTypeOK, Account
    <2>3. identity' \in [Subjects -> Emails \cup {None}]
      BY <1>3, <2>1 DEF InsertUser, SignInTypeOK
    <2> QED
      BY <1>3, <2>1, <2>2, <2>3, EndsType, IssueCodeType DEF InsertUser, SignInTypeOK
  <1>4. CASE Link(t)
    <2>1. request[t].addr \in Emails /\ request[t].sub \in Subjects
      BY <1>4, <1>r DEF Link, Steps, SoundRequest, FirstSteps
    <2>2. LockedRow(request[t], account[request[t].addr]) \in Account
      BY <2>1, <1>a, <1>r, LockedRowType
    <2>3. account' \in [Emails -> Account]
      BY <1>4, <2>2 DEF Link, SignInTypeOK
    <2>4. identity' \in [Subjects -> Emails \cup {None}]
      BY <1>4, <2>1 DEF Link, SignInTypeOK
    <2>5. sessions' \subseteq Session
      <3>1. \A s \in sessions : s \in Session /\ [s EXCEPT !.root = Late(s.root)] \in Session
        BY LateIsRoot DEF SignInTypeOK, Session
      <3> QED
        BY <1>4, <3>1 DEF Link, LateSessions
    <2>6. request' \in [Threads -> Request]
      <3>1. \A u \in Threads : /\ request[u] \in Request
                               /\ [request[u] EXCEPT !.root = Late(request[u].root)] \in Request
        BY LateIsRoot DEF SignInTypeOK, Request
      <3>2. LateRequests(request[t].addr) \in [Threads -> Request]
        BY <3>1 DEF LateRequests
      <3> QED
        BY <1>4, <3>2 DEF Link
    <2>7. code' \in [States -> Code]
      BY <1>4, <2>1, IssueCodeType DEF Link
    <2> QED
      BY <1>4, <2>3, <2>4, <2>5, <2>6, <2>7 DEF Link, SignInTypeOK
  <1>5. CASE InsertRegistered(t)
    <2>1. [NoAccount EXCEPT !.made = TRUE, !.open = TRUE, !.password = request[t].root]
              \in Account
      BY <1>r DEF Account, Request
    <2>2. account' \in [Emails -> Account]
      BY <1>5, <2>1 DEF InsertRegistered, SignInTypeOK
    <2> QED
      BY <1>5, <2>2, EndsType DEF InsertRegistered, SignInTypeOK
  <1>6. CASE GiveToken(t)
    <2>1. [of |-> request[t].addr, iat |-> now, root |-> request[t].root,
           from |-> request[t].from] \in Session
      BY <1>6, <1>r DEF GiveToken, SignInTypeOK, Session, Request, Steps
    <2> QED
      BY <1>6, <2>1, EndsType DEF GiveToken, SignInTypeOK
  <1>7. ASSUME request[t].step = "session",
               NEW way \in Roots \cup {None},
               \/ account' = account
               \/ account' = [account EXCEPT ![request[t].addr].password = way]
               \/ account' = [account EXCEPT ![request[t].addr].key = way]
        PROVE  account' \in [Emails -> Account]
    <2>1. request[t].addr \in Emails
      BY <1>7, <1>r DEF Steps
    <2>2. /\ [account[request[t].addr] EXCEPT !.password = way] \in Account
          /\ [account[request[t].addr] EXCEPT !.key = way] \in Account
      BY <2>1, <1>a DEF Account
    <2> QED
      BY <1>7, <2>1, <2>2 DEF SignInTypeOK
  <1>8. request[t].root \in Roots \cup {None}
    BY <1>r DEF Request
  <1>9. CASE \E proved \in BOOLEAN : SetPassword(t, proved)
    <2>1. account' \in [Emails -> Account]
      BY <1>9, <1>7, <1>8 DEF SetPassword
    <2> QED
      BY <1>9, <2>1, EndsType DEF SetPassword, SignInTypeOK
  <1>10. CASE GenerateApiKey(t)
    <2>1. account' \in [Emails -> Account]
      BY <1>10, <1>7, <1>8 DEF GenerateApiKey
    <2> QED
      BY <1>10, <2>1, EndsType DEF GenerateApiKey, SignInTypeOK
  <1>11. CASE RemovePassword(t)
    <2>1. account' \in [Emails -> Account]
      BY <1>11, <1>7 DEF RemovePassword
    <2> QED
      BY <1>11, <2>1, EndsType DEF RemovePassword, SignInTypeOK
  <1>12. CASE RevokeApiKey(t)
    <2>1. account' \in [Emails -> Account]
      BY <1>12, <1>7 DEF RevokeApiKey
    <2> QED
      BY <1>12, <2>1, EndsType DEF RevokeApiKey, SignInTypeOK
  <1> QED
    BY <1>1, <1>2, <1>3, <1>4, <1>5, <1>6, <1>9, <1>10, <1>11, <1>12 DEF Writes

\* What no thread does.
Elsewhere ==
    \/ \E s \in States : StartSignIn(s)
    \/ \E e \in Emails : Close(e)
    \/ \E g \in Subjects, e \in Emails : Address(g, e)
    \/ Tick

LEMMA ElsewhereType ==
    ASSUME SignInTypeOK, Elsewhere
    PROVE  SignInTypeOK'
  <1> USE SignInAssumption
  <1>1. CASE \E s \in States : StartSignIn(s)
    BY <1>1 DEF StartSignIn, SignInTypeOK
  <1>2. CASE \E e \in Emails : Close(e)
    <2>1. PICK e \in Emails : Close(e)
      BY <1>2
    <2>2. [account[e] EXCEPT !.open = FALSE, !.key = None] \in Account
      BY DEF SignInTypeOK, Account
    <2>3. account' = [account EXCEPT ![e] = [account[e] EXCEPT !.open = FALSE, !.key = None]]
      BY <2>1 DEF Close, SignInTypeOK, Account
    <2>4. account' \in [Emails -> Account]
      BY <2>2, <2>3 DEF SignInTypeOK
    <2> QED
      BY <2>1, <2>4 DEF Close, SignInTypeOK
  <1>3. CASE \E g \in Subjects, e \in Emails : Address(g, e)
    <2>1. PICK g \in Subjects, e \in Emails : Address(g, e)
      BY <1>3
    <2>2. address' \in [Subjects -> Emails \cup {None}]
      BY <2>1 DEF Address, SignInTypeOK
    <2> QED
      BY <2>1, <2>2 DEF Address, SignInTypeOK
  <1>4. CASE Tick
    <2>1. now' \in Time /\ now \in Time
      BY <1>4 DEF Tick, SignInTypeOK, Time
    <2> QED
      BY <1>4, <2>1 DEF Tick, SignInTypeOK
  <1> QED
    BY <1>1, <1>2, <1>3, <1>4 DEF Elsewhere

LEMMA NextSplits == Next => Elsewhere \/ \E t \in Threads : OnlyReads(t) \/ Writes(t)
  BY DEF Next, ThreadStep, OnlyReads, Writes, Elsewhere

-----------------------------------------------------------------------------
(***************************************************************************)
(* Every action keeps the invariant: first those that only read, each of   *)
(* which leaves its thread a request that is sound.                        *)
(***************************************************************************)
LEMMA NothingIsSound ==
    SoundRequest(Nothing) /\ \A q : SameSubject(Nothing, q) /\ SameSubject(q, Nothing)
  BY DEF SoundRequest, SameSubject, Nothing, FirstSteps

LEMMA RequestMoves ==
    ASSUME AccountsInv, SignInTypeOK', UNCHANGED <<account, identity, address, code, sessions>>,
           NEW t \in Threads, NEW r, Goes(t, r), SoundRequest(r),
           \A u \in Threads : SameSubject(r, request[u])
    PROVE  AccountsInv'
  <1>1. \A u \in Threads : request'[u] = IF u = t THEN r ELSE request[u]
    BY DEF Goes, AccountsInv, SignInTypeOK
  <1>2. \A q : SoundRequest(q) => SoundRequest(q)'
    BY DEF SoundRequest, HasGoogle
  <1>3. RequestsSound'
    <2>1. \A u \in Threads : SoundRequest(request'[u])
      BY <1>1 DEF AccountsInv, RequestsSound
    <2>2. \A u \in Threads : SoundRequest(request[u])'
      BY <2>1 DEF SoundRequest, HasGoogle
    <2>3. \A u, v \in Threads : SameSubject(request'[u], request'[v])
      BY <1>1 DEF AccountsInv, RequestsSound, SameSubject
    <2>4. (\A u, v \in Threads : SameSubject(request[u], request[v]))'
      BY <2>3 DEF SameSubject
    <2> QED
      BY <2>2, <2>4 DEF RequestsSound
  <1>4. RowsHaveAnAccount' /\ PasswordsAreMade' /\ OneGoogleEach' /\ OneHolderEach(address)'
    BY DEF AccountsInv, RowsHaveAnAccount, PasswordsAreMade, OneGoogleEach, OneHolderEach
  <1>5. AlwaysAWayIn' /\ (\A e \in Emails : AccountLocked(e))'
    BY DEF AccountsInv, AlwaysAWayIn, AccountLocked, HasGoogle, Set, Accepts
  <1> QED
    BY <1>3, <1>4, <1>5 DEF AccountsInv

LEMMA ReadsKeep ==
    ASSUME AccountsInv, SignInTypeOK', NEW t \in Threads, OnlyReads(t)
    PROVE  AccountsInv'
  <1> USE NothingIsSound
  <1>r. /\ request[t] \in Request /\ SoundRequest(request[t])
        /\ \A u \in Threads : SameSubject(request[t], request[u])
    BY DEF AccountsInv, SignInTypeOK, RequestsSound
  <1>n. None \notin Emails
    BY SignInAssumption
  <1>1. ASSUME UNCHANGED <<account, identity, address, code, sessions, request>>
        PROVE  AccountsInv'
    BY <1>1 DEF AccountsInv, RequestsSound, SoundRequest, SameSubject, RowsHaveAnAccount,
                PasswordsAreMade,
                OneGoogleEach, OneHolderEach, AlwaysAWayIn, AccountLocked, HasGoogle, Set, Accepts
  <1>2. ASSUME UNCHANGED <<account, identity, address, code, sessions>>, Ends(t)
        PROVE  AccountsInv'
    BY <1>2, RequestMoves DEF Ends
  <1>3. CASE \E s \in States : TakeState(t, s)
    <2>1. PICK s \in States : TakeState(t, s)
      BY <1>3
    <2> DEFINE r == [Nothing EXCEPT !.step = "asking", !.from = s]
    <2>2. SoundRequest(r) /\ \A q : SameSubject(r, q)
      BY DEF SoundRequest, SameSubject, Nothing, FirstSteps
    <2> QED
      BY <2>1, <2>2, <1>1, RequestMoves DEF TakeState
  <1>4. CASE McpSignIn(t)
    <2> DEFINE r == [Nothing EXCEPT !.step = "asking"]
    <2>1. SoundRequest(r) /\ \A q : SameSubject(r, q)
      BY DEF SoundRequest, SameSubject, Nothing, FirstSteps
    <2> QED
      BY <1>4, <2>1, RequestMoves DEF McpSignIn
  <1>5. CASE Refused(t) \/ TryAgain(t) \/ Declined(t)
    BY <1>5, <1>2 DEF Refused, TryAgain, Declined
  <1>6. CASE \E g \in Subjects : Identify(t, g)
    <2>1. PICK g \in Subjects : Identify(t, g)
      BY <1>6
    <2>2. request[t].step = "asking" /\ request[t].root = "google"
      BY <2>1, <1>r DEF Identify, SoundRequest
    <2>3. address[g] \in Emails /\ identity[g] \in Emails \cup {None}
      BY <2>1 DEF Identify, AccountsInv, SignInTypeOK
    <2> DEFINE r == [request[t] EXCEPT !.sub = g, !.step = "unknown", !.addr = address[g]]
               k == [request[t] EXCEPT !.sub = g, !.step = "known", !.addr = identity[g]]
    <2>4. /\ r.step = "unknown" /\ r.root = "google" /\ r.sub = g /\ r.addr = address[g]
          /\ k.step = "known" /\ k.root = "google" /\ k.sub = g /\ k.addr = identity[g]
      BY <1>r, <2>2 DEF Request
    <2>5. SoundRequest(r)
      <3>1. \A h \in Subjects : address[h] = address[g] => h = g
        BY <2>3, <1>n DEF AccountsInv, OneHolderEach
      <3> HIDE DEF r
      <3> QED
        BY <2>3, <2>4, <3>1 DEF SoundRequest
    <2>6. ASSUME NEW u \in Threads
          PROVE  SameSubject(r, request[u])
      <3>1. SoundRequest(request[u])
        BY DEF AccountsInv, RequestsSound
      <3> QED
        BY <3>1, <2>4 DEF SoundRequest, SameSubject
    <2>7. identity[g] # None => SoundRequest(k) /\ \A q : SameSubject(k, q)
      BY <2>3, <2>4 DEF SoundRequest, SameSubject, FirstSteps, AccountsInv, RowsHaveAnAccount
    <2>8. CASE Goes(t, r)
      BY <2>1, <2>5, <2>6, <2>8, RequestMoves DEF Identify
    <2>9. CASE identity[g] # None /\ Goes(t, k)
      BY <2>1, <2>7, <2>9, RequestMoves DEF Identify
    <2> HIDE DEF r, k
    <2>10. CASE Ends(t)
      BY <2>1, <2>10, <1>2 DEF Identify
    <2> QED
      BY <2>1, <2>8, <2>9, <2>10 DEF Identify, r, k
  <1>7. CASE FindUser(t)
    <2> DEFINE a == account[request[t].addr]
               i == [request[t] EXCEPT !.step = "insert"]
               f == [request[t] EXCEPT !.step = "found", !.password = Set(a.password),
                                       !.key = Set(a.key)]
    <2>1. request[t].step = "unknown"
      BY <1>7 DEF FindUser
    <2>2. /\ i.step = "insert" /\ i.addr = request[t].addr /\ i.sub = request[t].sub
          /\ i.root = request[t].root
          /\ f.step = "found" /\ f.addr = request[t].addr /\ f.sub = request[t].sub
          /\ f.root = request[t].root
      BY <1>r DEF Request
    <2>3. SoundRequest(i) /\ (a.made => SoundRequest(f))
      BY <2>1, <2>2, <1>r DEF SoundRequest, FirstSteps
    <2>4. \A u \in Threads : SameSubject(i, request[u]) /\ SameSubject(f, request[u])
      BY <2>1, <2>2, <1>r DEF SameSubject, FirstSteps
    <2>5. Ends(t) \/ Goes(t, i) \/ (a.made /\ Goes(t, f))
      BY <1>7 DEF FindUser
    <2>6. UNCHANGED <<account, identity, address, code, sessions>>
      BY <1>7 DEF FindUser
    <2> HIDE DEF a, i, f
    <2> QED
      BY <2>3, <2>4, <2>5, <2>6, <1>2, RequestMoves
  <1>8. CASE CheckGoogle(t)
    <2> DEFINE r == [request[t] EXCEPT !.step = "link", !.at = now]
    <2>1. request[t].step = "found"
      BY <1>8 DEF CheckGoogle
    <2>2. /\ r.step = "link" /\ r.addr = request[t].addr /\ r.sub = request[t].sub
          /\ r.root = request[t].root
      BY <1>r DEF Request
    <2>3. Linkable(request[t].addr) => SoundRequest(r)
      BY <2>1, <2>2, <1>r DEF SoundRequest, FirstSteps, Linkable, HasGoogle
    <2>4. \A u \in Threads : SameSubject(r, request[u])
      BY <2>1, <2>2, <1>r DEF SameSubject, FirstSteps
    <2>5. Ends(t) \/ (Linkable(request[t].addr) /\ Goes(t, r))
      BY <1>8 DEF CheckGoogle
    <2>6. UNCHANGED <<account, identity, address, code, sessions>>
      BY <1>8 DEF CheckGoogle
    <2> HIDE DEF r
    <2> QED
      BY <2>3, <2>4, <2>5, <2>6, <1>2, RequestMoves
  <1>9. CASE \E e \in Emails : Register(t, e)
    <2>1. PICK e \in Emails : Register(t, e)
      BY <1>9
    <2> DEFINE r == [Nothing EXCEPT !.step = "register", !.addr = e, !.root = "unproven"]
    <2>2. SoundRequest(r) /\ \A q : SameSubject(r, q)
      BY DEF SoundRequest, SameSubject, Nothing, FirstSteps
    <2> QED
      BY <2>1, <2>2, <1>1, RequestMoves DEF Register
  <1>10. CASE \E e \in Emails : Login(t, e)
    <2>1. PICK e \in Emails : Login(t, e)
      BY <1>10
    <2> DEFINE r == [Nothing EXCEPT !.step = "verified", !.addr = e,
                                    !.root = account[e].password]
    <2>2. account[e] \in Account /\ account[e].password # None
      BY <2>1 DEF Login, Set, AccountsInv, SignInTypeOK
    <2>3. account[e].made
      BY <2>1, <2>2 DEF Login, AccountsInv, PasswordsAreMade, NoAccount
    <2>4. HasGoogle(e) => account[e].password # "unproven"
      BY DEF AccountsInv, AccountLocked
    <2>5. SoundRequest(r) /\ \A q : SameSubject(r, q)
      BY <2>3, <2>4 DEF SoundRequest, SameSubject, Nothing, FirstSteps
    <2> QED
      BY <2>1, <2>5, RequestMoves DEF Login
  <1>11. CASE \E s \in sessions : Authenticate(t, s)
    <2>1. PICK s \in sessions : Authenticate(t, s)
      BY <1>11
    <2> DEFINE r == [Nothing EXCEPT !.step = "session", !.addr = s.of, !.root = s.root,
                                    !.at = s.iat, !.password = Set(account[s.of].password),
                                    !.key = Set(account[s.of].key)]
    <2>2. s.of \in Emails /\ account[s.of].made
      BY DEF AccountsInv, SignInTypeOK, Session, RowsHaveAnAccount
    <2>3. s.root = "unproven" => ~HasGoogle(s.of)
      BY <2>1, <2>2 DEF Authenticate, AccountsInv, AccountLocked
    <2>4. SoundRequest(r) /\ \A q : SameSubject(r, q)
      BY <2>2, <2>3 DEF SoundRequest, SameSubject, Nothing, FirstSteps
    <2> QED
      BY <2>1, <2>4, RequestMoves DEF Authenticate
  <1> QED
    BY <1>3, <1>4, <1>5, <1>6, <1>7, <1>8, <1>9, <1>10, <1>11 DEF OnlyReads

-----------------------------------------------------------------------------
(***************************************************************************)
(* Then those that write.                                                  *)
(***************************************************************************)
\* The other requests of a step that ends t's and makes no identity.
LEMMA OthersStaySound ==
    ASSUME AccountsInv, NEW t \in Threads, Ends(t) \/ request' = request,
           UNCHANGED <<address, identity>>,
           \A e \in Emails : account[e].made => account'[e].made
    PROVE  RequestsSound'
  <1>1. \A u \in Threads : request'[u] \in {Nothing, request[u]}
    BY DEF Ends, Goes, AccountsInv, SignInTypeOK
  <1>2. \A u \in Threads : SoundRequest(request'[u])
    BY <1>1, NothingIsSound DEF AccountsInv, RequestsSound
  <1>3. \A u \in Threads : SoundRequest(request[u])'
    BY <1>2 DEF SoundRequest, HasGoogle
  <1>4. \A u, v \in Threads : SameSubject(request'[u], request'[v])
    BY <1>1, NothingIsSound DEF AccountsInv, RequestsSound
  <1>5. (\A u, v \in Threads : SameSubject(request[u], request[v]))'
    BY <1>4 DEF SameSubject
  <1> QED
    BY <1>3, <1>5 DEF RequestsSound

\* What an account's row may become, without a change to the others or to the identities.
LEMMA RowChanges ==
    ASSUME AccountsInv, SignInTypeOK', NEW t \in Threads, Ends(t) \/ request' = request,
           UNCHANGED <<address, identity, code, sessions>>,
           NEW e \in Emails, NEW row \in Account, account' = [account EXCEPT ![e] = row],
           row.made, account[e].made => row.cutoff = account[e].cutoff,
           Set(row.password) \/ HasGoogle(e),
           HasGoogle(e) => row.password # "unproven" /\ row.key # "unproven"
    PROVE  AccountsInv'
  <1>1. \A d \in Emails : account'[d] = IF d = e THEN row ELSE account[d]
    BY DEF AccountsInv, SignInTypeOK
  <1>2. RequestsSound'
    BY <1>1, OthersStaySound
  <1>3. RowsHaveAnAccount'
    BY <1>1 DEF AccountsInv, RowsHaveAnAccount, SignInTypeOK, Code, Session
  <1>4. PasswordsAreMade' /\ OneGoogleEach' /\ OneHolderEach(address)'
    BY <1>1 DEF AccountsInv, PasswordsAreMade, OneGoogleEach, OneHolderEach
  <1>5. AlwaysAWayIn'
    BY <1>1 DEF AccountsInv, AlwaysAWayIn, HasGoogle
  <1>6. ASSUME NEW d \in Emails
        PROVE  AccountLocked(d)'
    <2>1. AccountLocked(d)
      BY DEF AccountsInv
    <2>2. HasGoogle(d) => account[d].made
      BY SignInAssumption DEF HasGoogle, AccountsInv, RowsHaveAnAccount
    <2>3. HasGoogle(d)' = HasGoogle(d)
      BY DEF HasGoogle
    <2>4. account'[d].cutoff = account[d].cutoff \/ ~HasGoogle(d)
      BY <1>1, <2>2
    <2>5. HasGoogle(d) => account'[d].password # "unproven" /\ account'[d].key # "unproven"
      BY <1>1, <2>1 DEF AccountLocked
    <2>6. \A j \in sessions : j.of = d /\ HasGoogle(d) => (Accepts(j)' <=> Accepts(j))
      BY <2>4 DEF Accepts
    <2> QED
      BY <2>1, <2>3, <2>5, <2>6 DEF AccountLocked
  <1> QED
    BY <1>2, <1>3, <1>4, <1>5, <1>6 DEF AccountsInv

\* A change of the codes and the sessions alone.
LEMMA RecordsChange ==
    ASSUME AccountsInv, SignInTypeOK', NEW t \in Threads, Ends(t) \/ request' = request,
           UNCHANGED <<account, address, identity>>,
           \A s \in States : code'[s].of # None => account[code'[s].of].made,
           \A j \in sessions' : \/ j \in sessions
                                \/ account[j.of].made /\ (j.root = "unproven" => ~HasGoogle(j.of))
    PROVE  AccountsInv'
  <1>1. RequestsSound'
    BY OthersStaySound
  <1>2. RowsHaveAnAccount'
    BY DEF AccountsInv, RowsHaveAnAccount
  <1>3. PasswordsAreMade' /\ OneGoogleEach' /\ OneHolderEach(address)' /\ AlwaysAWayIn'
    BY DEF AccountsInv, PasswordsAreMade, OneGoogleEach, OneHolderEach, AlwaysAWayIn, HasGoogle
  <1>4. \A d \in Emails : AccountLocked(d)'
    BY DEF AccountsInv, AccountLocked, HasGoogle, Accepts
  <1> QED
    BY <1>1, <1>2, <1>3, <1>4 DEF AccountsInv

LEMMA IssuedCodesHaveAnAccount ==
    ASSUME AccountsInv, NEW t \in Threads, request[t].addr \in Emails, IssueCode(request[t]),
           account'[request[t].addr].made,
           \A e \in Emails : account[e].made => account'[e].made
    PROVE  \A s \in States : code'[s].of # None => account'[code'[s].of].made
  <1>1. /\ \A s \in States : code[s].of \in Emails \cup {None}
        /\ \A s \in States : code[s].of # None => account[code[s].of].made
    BY DEF AccountsInv, RowsHaveAnAccount, SignInTypeOK, Code
  <1>2. \A s \in States : code'[s] = code[s] \/ code'[s].of = request[t].addr
    BY DEF IssueCode, AccountsInv, SignInTypeOK
  <1> SUFFICES ASSUME NEW s \in States, code'[s].of # None
               PROVE  account'[code'[s].of].made
    OBVIOUS
  <1>3. CASE code'[s] = code[s]
    BY <1>1, <1>3
  <1>4. CASE code'[s].of = request[t].addr
    BY <1>4
  <1> QED
    BY <1>2, <1>3, <1>4

LEMMA InsertUserKeeps ==
    ASSUME AccountsInv, SignInTypeOK', NEW t \in Threads, InsertUser(t)
    PROVE  AccountsInv'
  <1>n. None \notin Emails
    BY SignInAssumption
  <1>1. SoundRequest(request[t]) /\ request[t].step = "insert"
    BY DEF InsertUser, AccountsInv, RequestsSound
  <1>2. PICK e \in Emails, g \in Subjects : e = request[t].addr /\ g = request[t].sub
    BY <1>1 DEF SoundRequest, FirstSteps
  <1>3. ~account[e].made /\ identity[g] = None
    BY <1>1, <1>2 DEF InsertUser, Crossed
  <1>4. \A h \in Subjects : identity[h] # e
    BY <1>2, <1>3, <1>n DEF AccountsInv, RowsHaveAnAccount
  <1>5. /\ account'[e].made /\ account'[e].password = None /\ account'[e].key = None
        /\ \A d \in Emails : d # e => account'[d] = account[d]
    BY <1>2 DEF InsertUser, AccountsInv, SignInTypeOK, NoAccount
  <1>6. \A h \in Subjects : identity'[h] = IF h = g THEN e ELSE identity[h]
    BY <1>2 DEF InsertUser, AccountsInv, SignInTypeOK
  <1>7. UNCHANGED <<address, sessions>> /\ Ends(t)
    BY DEF InsertUser
  <1>8. /\ HasGoogle(e)' /\ ~HasGoogle(e)
        /\ \A d \in Emails : d # e => (HasGoogle(d)' <=> HasGoogle(d))
    BY <1>2, <1>3, <1>4, <1>6, <1>n DEF HasGoogle
  <1>9. \A u \in Threads : request'[u] \in {Nothing, request[u]}
    BY <1>7 DEF Ends, Goes, AccountsInv, SignInTypeOK
  <1>10. ASSUME NEW u \in Threads, request'[u] = request[u]
         PROVE  SoundRequest(request[u])'
    <2>0. PICK q : q = request[u]
      OBVIOUS
    <2>1. SoundRequest(q)
      BY <2>0 DEF AccountsInv, RequestsSound
    <2>2. q.step \in {"known", "found", "link", "redeemed", "verified", "session"}
              => q.addr \in Emails /\ q.addr # e /\ account'[q.addr].made
      BY <2>1, <1>3, <1>5 DEF SoundRequest
    <2>3. (q.root = "unproven" /\ q.step # "register") => ~HasGoogle(q.addr)'
      BY <2>1, <2>2, <1>8 DEF SoundRequest
    <2>4. q.step = "link" => \A h \in Subjects : identity'[h] = q.addr => h = q.sub
      BY <2>1, <2>2, <1>6 DEF SoundRequest
    <2>5. /\ q.step \notin {"idle", "asking"} => q.addr \in Emails
          /\ q.root # "google" => q.step \in {"register", "verified", "session"}
          /\ q.step \in FirstSteps =>
                q.sub \in Subjects /\ \A h \in Subjects : address'[h] = q.addr => h = q.sub
      BY <2>1, <1>7 DEF SoundRequest
    <2>6. q = request'[u]
      BY <1>10, <2>0
    <2> QED
      BY <2>0, <2>2, <2>3, <2>4, <2>5, <2>6 DEF SoundRequest, HasGoogle
  <1>11. SoundRequest(Nothing)'
    BY DEF SoundRequest, Nothing, FirstSteps
  <1>12. (\A u \in Threads : SoundRequest(request[u]))'
    BY <1>9, <1>10, <1>11 DEF SoundRequest, HasGoogle
  <1>13. (\A u, v \in Threads : SameSubject(request[u], request[v]))'
    <2>1. \A u, v \in Threads : SameSubject(request'[u], request'[v])
      BY <1>9, NothingIsSound DEF AccountsInv, RequestsSound
    <2> QED
      BY <2>1 DEF SameSubject
  <1>14. RowsHaveAnAccount'
    <2>1. \A d \in Emails : account[d].made => account'[d].made
      BY <1>5
    <2>2. \A s \in States : code'[s].of # None => account'[code'[s].of].made
      BY <2>1, <1>2, <1>5, IssuedCodesHaveAnAccount DEF InsertUser
    <2>3. \A h \in Subjects : identity'[h] # None => account'[identity'[h]].made
      BY <2>1, <1>2, <1>5, <1>6 DEF AccountsInv, RowsHaveAnAccount, SignInTypeOK
    <2>4. \A j \in sessions' : account'[j.of].made
      BY <2>1, <1>7 DEF AccountsInv, RowsHaveAnAccount, SignInTypeOK, Session
    <2> QED
      BY <2>2, <2>3, <2>4 DEF RowsHaveAnAccount
  <1>15. PasswordsAreMade'
    BY <1>5 DEF AccountsInv, PasswordsAreMade
  <1>16. OneGoogleEach'
    BY <1>4, <1>6 DEF AccountsInv, OneGoogleEach
  <1>17. AlwaysAWayIn'
    BY <1>5, <1>8 DEF AccountsInv, AlwaysAWayIn, Set
  <1>18. OneHolderEach(address)'
    BY <1>7 DEF AccountsInv, OneHolderEach
  <1>19. \A d \in Emails : AccountLocked(d)'
    <2>1. \A j \in sessions : j.of \in Emails /\ j.of # e
      BY <1>3 DEF AccountsInv, RowsHaveAnAccount, SignInTypeOK, Session
    <2>2. AccountLocked(e)'
      BY <2>1, <1>5, <1>7, SignInAssumption DEF AccountLocked
    <2>3. ASSUME NEW d \in Emails, d # e
          PROVE  AccountLocked(d)'
      <3>1. AccountLocked(d) /\ account'[d] = account[d] /\ HasGoogle(d)' = HasGoogle(d)
        BY <2>3, <1>5, <1>8 DEF AccountsInv, HasGoogle
      <3>2. \A j \in sessions : j.of = d => (Accepts(j)' <=> Accepts(j))
        BY <3>1 DEF Accepts
      <3> QED
        BY <3>1, <3>2, <1>7 DEF AccountLocked
    <2> QED
      BY <2>2, <2>3
  <1> QED
    BY <1>12, <1>13, <1>14, <1>15, <1>16, <1>17, <1>18, <1>19 DEF AccountsInv, RequestsSound

LEMMA LinkKeeps ==
    ASSUME AccountsInv, SignInTypeOK', NEW t \in Threads, Link(t)
    PROVE  AccountsInv'
  <1>n. None \notin Emails
    BY SignInAssumption
  <1>1. SoundRequest(request[t]) /\ request[t].step = "link" /\ request[t] \in Request
    BY DEF Link, AccountsInv, RequestsSound, SignInTypeOK
  <1>2. PICK e \in Emails, g \in Subjects : e = request[t].addr /\ g = request[t].sub
    BY <1>1 DEF SoundRequest, FirstSteps
  <1>3. account[e].made /\ identity[g] = None
    BY <1>1, <1>2 DEF Link, Crossed, SoundRequest
  <1>4. \A h \in Subjects : identity[h] # e
    BY <1>1, <1>2, <1>3, <1>n DEF SoundRequest
  <1>5. PICK row \in Account : row = LockedRow(request[t], account[e])
    BY <1>1, LockedRowType DEF AccountsInv, SignInTypeOK
  <1>6. row.made /\ row.password # "unproven" /\ row.key # "unproven" /\ row.cutoff = request[t].at
    BY <1>1, <1>3, <1>5, LockedRowType DEF AccountsInv, SignInTypeOK
  <1>7. \A d \in Emails : account'[d] = IF d = e THEN row ELSE account[d]
    BY <1>2, <1>5 DEF Link, AccountsInv, SignInTypeOK
  <1>8. \A h \in Subjects : identity'[h] = IF h = g THEN e ELSE identity[h]
    BY <1>2 DEF Link, AccountsInv, SignInTypeOK
  <1>9. HasGoogle(e)' /\ \A d \in Emails : d # e => (HasGoogle(d)' <=> HasGoogle(d))
    BY <1>2, <1>3, <1>4, <1>8, <1>n DEF HasGoogle
  <1>10. \A u \in Threads :
            request'[u] = IF u = t THEN Nothing
                          ELSE IF request[u].addr = e
                          THEN [request[u] EXCEPT !.root = Late(request[u].root)] ELSE request[u]
    BY <1>2 DEF Link, LateRequests
  <1>11. ASSUME NEW u \in Threads
         PROVE  SoundRequest(request[u])' /\ (u # t => /\ request'[u].step = request[u].step
                                                     /\ request'[u].addr = request[u].addr
                                                     /\ request'[u].sub = request[u].sub)
    <2>1. CASE u = t
      <3>1. SoundRequest(Nothing)'
        BY DEF SoundRequest, Nothing, FirstSteps
      <3>2. request'[u] = Nothing
        BY <2>1, <1>10
      <3> QED
        BY <2>1, <3>1, <3>2 DEF SoundRequest, HasGoogle
    <2>2. CASE u # t
      <3>1. PICK q \in Request : q = request[u]
        BY DEF AccountsInv, SignInTypeOK
      <3>2. PICK p \in Request : p = request'[u]
        BY DEF AccountsInv, SignInTypeOK
      <3>3. SoundRequest(q) /\ SameSubject(request[t], q)
        BY <3>1 DEF AccountsInv, RequestsSound
      <3>4. /\ p.step = q.step /\ p.addr = q.addr /\ p.sub = q.sub
            /\ q.addr = e => p.root = Late(q.root)
            /\ q.addr # e => p.root = q.root
        BY <2>2, <3>1, <3>2, <1>10 DEF Request
      <3>5. p.root = "google" <=> q.root = "google"
        BY <3>4 DEF Late
      <3>6. (p.root = "unproven" /\ p.step # "register") => p.addr # e /\ ~HasGoogle(q.addr)
        BY <3>3, <3>4 DEF Late, SoundRequest
      <3>7. (p.root = "unproven" /\ p.step # "register") => ~HasGoogle(p.addr)'
        <4>1. p.root = "unproven" => p.addr \in Emails
          BY <3>3, <3>4, <3>5 DEF SoundRequest
        <4> QED
          BY <4>1, <3>4, <3>6, <1>9
      <3>8. p.step = "link" => \A h \in Subjects : identity'[h] = p.addr => h = p.sub
        BY <3>3, <3>4, <1>1, <1>2, <1>8 DEF SoundRequest, SameSubject, FirstSteps
      <3>9. p.step \in {"known", "found", "link", "redeemed", "verified", "session"} =>
                account'[p.addr].made
        BY <3>3, <3>4, <1>6, <1>7 DEF SoundRequest
      <3>10. p.step \in FirstSteps =>
                p.sub \in Subjects /\ \A h \in Subjects : address'[h] = p.addr => h = p.sub
        BY <3>3, <3>4 DEF SoundRequest, Link
      <3>11. /\ p.step \notin {"idle", "asking"} => p.addr \in Emails
             /\ p.root # "google" => p.step \in {"register", "verified", "session"}
        BY <3>3, <3>4, <3>5 DEF SoundRequest
      <3>12. SoundRequest(request[u])'
        BY <3>2, <3>7, <3>8, <3>9, <3>10, <3>11 DEF SoundRequest, HasGoogle
      <3> QED
        BY <3>1, <3>2, <3>4, <3>12
    <2> QED
      BY <2>1, <2>2
  <1>12. (\A u, v \in Threads : SameSubject(request[u], request[v]))'
    <2>0. request'[t] = Nothing
      BY <1>10
    <2>1. request'[t].step = "idle"
      BY <2>0 DEF Nothing
    <2>2. ASSUME NEW u \in Threads, NEW v \in Threads
          PROVE  SameSubject(request'[u], request'[v])
      <3>1. CASE u = t \/ v = t
        BY <3>1, <2>1 DEF SameSubject, FirstSteps
      <3>2. CASE u # t /\ v # t
        <4>1. SameSubject(request[u], request[v])
          BY DEF AccountsInv, RequestsSound
        <4> QED
          BY <3>2, <4>1, <1>11 DEF SameSubject
      <3> QED
        BY <3>1, <3>2
    <2> QED
      BY <2>2 DEF SameSubject
  <1>13. RowsHaveAnAccount'
    <2>1. \A d \in Emails : account[d].made => account'[d].made
      BY <1>6, <1>7
    <2>2. \A s \in States : code'[s].of # None => account'[code'[s].of].made
      BY <2>1, <1>2, <1>3, IssuedCodesHaveAnAccount DEF Link
    <2>3. \A h \in Subjects : identity'[h] # None => account'[identity'[h]].made
      BY <2>1, <1>2, <1>3, <1>8 DEF AccountsInv, RowsHaveAnAccount, SignInTypeOK
    <2>4. \A j \in sessions : j.of \in Emails /\ account'[j.of].made
      BY <2>1 DEF AccountsInv, RowsHaveAnAccount, SignInTypeOK, Session
    <2>5. \A j \in sessions' : \E k \in sessions : j.of = k.of
      BY <1>2 DEF Link, LateSessions, AccountsInv, SignInTypeOK, Session
    <2>6. \A j \in sessions' : account'[j.of].made
      BY <2>4, <2>5
    <2> QED
      BY <2>2, <2>3, <2>6 DEF RowsHaveAnAccount
  <1>14. PasswordsAreMade'
    BY <1>6, <1>7 DEF AccountsInv, PasswordsAreMade
  <1>15. OneGoogleEach'
    BY <1>4, <1>8 DEF AccountsInv, OneGoogleEach
  <1>16. AlwaysAWayIn'
    BY <1>7, <1>9 DEF AccountsInv, AlwaysAWayIn, Set
  <1>17. OneHolderEach(address)'
    BY DEF AccountsInv, OneHolderEach, Link
  <1>18. ASSUME NEW d \in Emails
         PROVE  AccountLocked(d)'
    <2>1. \A j \in sessions' : \E k \in sessions :
              j = IF k.of = e /\ k.iat >= request[t].at THEN [k EXCEPT !.root = Late(k.root)] ELSE k
      BY <1>2 DEF Link, LateSessions
    <2>2. \A k \in sessions : k \in Session
      BY DEF AccountsInv, SignInTypeOK
    <2>3. CASE d = e
      <3>1. \A j \in sessions' : j.of = e /\ j.root = "unproven" => ~(j.iat >= request[t].at)
        BY <2>1, <2>2 DEF Session, Late
      <3>2. account'[e].cutoff = request[t].at
        BY <1>6, <1>7
      <3> QED
        BY <2>3, <3>1, <3>2, <1>6, <1>7 DEF AccountLocked, Accepts
    <2>4. CASE d # e
      <3>1. AccountLocked(d) /\ account'[d] = account[d] /\ HasGoogle(d)' = HasGoogle(d)
        BY <2>4, <1>7, <1>9 DEF AccountsInv, HasGoogle
      <3>2. \A j \in sessions' : j.of = d => j \in sessions
        BY <2>1, <2>2, <2>4 DEF Session
      <3>3. \A j \in sessions : j.of = d => (Accepts(j)' <=> Accepts(j))
        BY <3>1 DEF Accepts
      <3> QED
        BY <3>1, <3>2, <3>3 DEF AccountLocked
    <2> QED
      BY <2>3, <2>4
  <1> QED
    BY <1>11, <1>12, <1>13, <1>14, <1>15, <1>16, <1>17, <1>18 DEF AccountsInv, RequestsSound

LEMMA WritesKeep ==
    ASSUME AccountsInv, SignInTypeOK', NEW t \in Threads, Writes(t)
    PROVE  AccountsInv'
  <1>r. request[t] \in Request /\ SoundRequest(request[t])
    BY DEF AccountsInv, SignInTypeOK, RequestsSound
  <1>c. /\ \A s \in States : code[s].of \in Emails \cup {None}
        /\ \A s \in States : code[s].of # None => account[code[s].of].made
    BY DEF AccountsInv, RowsHaveAnAccount, SignInTypeOK, Code
  <1>1. CASE \E s \in States : Redeem(t, s)
    <2>1. PICK s \in States : Redeem(t, s)
      BY <1>1
    <2> DEFINE r == [Nothing EXCEPT !.step = "redeemed", !.from = s, !.addr = code[s].of]
    <2>2. code[s].of \in Emails /\ account[code[s].of].made
      BY <2>1, <1>c DEF Redeem
    <2>3. SoundRequest(r) /\ \A q : SameSubject(r, q) /\ SameSubject(q, r)
      BY <2>2 DEF SoundRequest, SameSubject, Nothing, FirstSteps
    <2>4. \A u \in Threads : request'[u] \in {r, request[u]}
      BY <2>1 DEF Redeem, Goes, AccountsInv, SignInTypeOK
    <2>5. UNCHANGED <<account, identity, address, sessions>>
      BY <2>1 DEF Redeem
    <2> HIDE DEF r
    <2>6. \A u \in Threads : SoundRequest(request'[u])
      BY <2>3, <2>4 DEF AccountsInv, RequestsSound
    <2>7. (\A u \in Threads : SoundRequest(request[u]))'
      BY <2>5, <2>6 DEF SoundRequest, HasGoogle
    <2>8. \A u, v \in Threads : SameSubject(request'[u], request'[v])
      BY <2>3, <2>4 DEF AccountsInv, RequestsSound
    <2>9. RequestsSound'
      BY <2>7, <2>8 DEF RequestsSound, SameSubject
    <2>10. \A q \in States : code'[q].of # None => account[code'[q].of].made
      BY <2>1, <1>c DEF Redeem, RedeemLeaves, NoCode, AccountsInv, SignInTypeOK
    <2> QED
      BY <2>5, <2>9, <2>10 DEF AccountsInv, RowsHaveAnAccount, PasswordsAreMade, OneGoogleEach,
         OneHolderEach, AlwaysAWayIn, AccountLocked, HasGoogle, Accepts
  <1>2. CASE OpenKnown(t)
    <2>1. request[t].addr \in Emails /\ account[request[t].addr].made
      BY <1>2, <1>r DEF OpenKnown, SoundRequest
    <2>2. \A s \in States : code'[s].of # None => account[code'[s].of].made
      BY <1>2, <2>1, IssuedCodesHaveAnAccount DEF OpenKnown
    <2> QED
      BY <1>2, <2>2, RecordsChange DEF OpenKnown
  <1>3. CASE GiveToken(t)
    <2>1. account[request[t].addr].made /\ (request[t].root = "unproven" => ~HasGoogle(request[t].addr))
      BY <1>3, <1>r DEF GiveToken, SoundRequest
    <2>2. \A j \in sessions' : j \in sessions \/ (j.of = request[t].addr /\ j.root = request[t].root)
      BY <1>3 DEF GiveToken
    <2>3. code' = code /\ UNCHANGED <<account, identity, address>> /\ Ends(t)
      BY <1>3 DEF GiveToken
    <2> QED
      BY <1>c, <2>1, <2>2, <2>3, RecordsChange
  <1>4. CASE InsertRegistered(t)
    <2>1. request[t].addr \in Emails
      BY <1>4, <1>r DEF InsertRegistered, SoundRequest
    <2>2. CASE account[request[t].addr].made
      <3>1. account' = account /\ UNCHANGED <<code, sessions, address, identity>> /\ Ends(t)
        BY <1>4, <2>2 DEF InsertRegistered
      <3> QED
        BY <1>c, <3>1, RecordsChange DEF AccountsInv, RowsHaveAnAccount
    <2>3. CASE ~account[request[t].addr].made
      <3>1. PICK row \in Account : row = [NoAccount EXCEPT !.made = TRUE, !.open = TRUE,
                                                         !.password = request[t].root]
        BY <1>r, NothingType DEF Account, Request
      <3>2. row.made /\ Set(row.password)
        BY <3>1, <1>r, SignInAssumption DEF NoAccount, Set, Request, Roots
      <3>3. ~HasGoogle(request[t].addr)
        BY <2>1, <2>3, SignInAssumption DEF HasGoogle, AccountsInv, RowsHaveAnAccount
      <3>4. account' = [account EXCEPT ![request[t].addr] = row]
        BY <1>4, <2>3, <3>1 DEF InsertRegistered
      <3>5. UNCHANGED <<code, sessions, address, identity>> /\ Ends(t)
        BY <1>4 DEF InsertRegistered
      <3> QED
        BY <2>1, <2>3, <3>2, <3>3, <3>4, <3>5, RowChanges
    <2> QED
      BY <2>2, <2>3
  <1>5. ASSUME request[t].step = "session", Ends(t),
               UNCHANGED <<identity, address, code, sessions>>,
               NEW row \in Account, row.made = account[request[t].addr].made,
               row.cutoff = account[request[t].addr].cutoff,
               account' = [account EXCEPT ![request[t].addr] = row],
               Set(row.password) \/ HasGoogle(request[t].addr),
               HasGoogle(request[t].addr) => row.password # "unproven" /\ row.key # "unproven"
        PROVE  AccountsInv'
    <2>1. request[t].addr \in Emails /\ account[request[t].addr].made
      BY <1>5, <1>r DEF SoundRequest
    <2> QED
      BY <1>5, <2>1, RowChanges
  <1> DEFINE a == account[request[t].addr]
  <1>6. request[t].step = "session" =>
            /\ a \in Account /\ a.made /\ request[t].addr \in Emails
            /\ Set(a.password) \/ HasGoogle(request[t].addr)
            /\ HasGoogle(request[t].addr) => /\ a.password # "unproven" /\ a.key # "unproven"
                                             /\ request[t].root # "unproven"
    BY <1>r DEF AccountsInv, SignInTypeOK, SoundRequest, AlwaysAWayIn, AccountLocked
  <1>7. request[t].root \in Roots /\ request[t].root # None /\ None # "unproven"
    BY <1>r, SignInAssumption DEF Request, Roots
  <1> HIDE DEF a
  <1>8. CASE \E proved \in BOOLEAN : SetPassword(t, proved)
    <2>1. PICK row : row = [a EXCEPT !.password = request[t].root]
      OBVIOUS
    <2>2. request[t].step = "session" /\ account' = [account EXCEPT ![request[t].addr] = row]
      BY <1>8, <2>1 DEF SetPassword, a
    <2>3. /\ row \in Account /\ row.made = a.made /\ row.cutoff = a.cutoff /\ row.key = a.key
          /\ row.password = request[t].root
      BY <2>1, <2>2, <1>6, <1>7 DEF Account
    <2>4. UNCHANGED <<identity, address, code, sessions>> /\ Ends(t)
      BY <1>8 DEF SetPassword
    <2> QED
      BY <2>2, <2>3, <2>4, <1>5, <1>6, <1>7 DEF Set, a
  <1>9. CASE RemovePassword(t)
    <2>1. PICK row : row = IF request[t].password THEN [a EXCEPT !.password = None] ELSE a
      OBVIOUS
    <2>2. request[t].step = "session" /\ account' = [account EXCEPT ![request[t].addr] = row]
      BY <1>9, <2>1, <1>6 DEF RemovePassword, a, AccountsInv, SignInTypeOK
    <2>3. /\ row \in Account /\ row.made = a.made /\ row.cutoff = a.cutoff /\ row.key = a.key
          /\ row.password \in {None, a.password}
      BY <2>1, <2>2, <1>6 DEF Account
    <2>4. UNCHANGED <<identity, address, code, sessions>> /\ Ends(t)
      BY <1>9 DEF RemovePassword
    <2>5. HasGoogle(request[t].addr)
      BY <1>9 DEF RemovePassword, MayRemovePassword
    <2> QED
      BY <2>2, <2>3, <2>4, <2>5, <1>5, <1>6, <1>7 DEF Set, a
  <1>10. CASE GenerateApiKey(t)
    <2>1. PICK row : row = [a EXCEPT !.key = request[t].root]
      OBVIOUS
    <2>2. request[t].step = "session" /\ account' = [account EXCEPT ![request[t].addr] = row]
      BY <1>10, <2>1 DEF GenerateApiKey, a
    <2>3. /\ row \in Account /\ row.made = a.made /\ row.cutoff = a.cutoff
          /\ row.password = a.password /\ row.key = request[t].root
      BY <2>1, <2>2, <1>6, <1>7 DEF Account
    <2>4. UNCHANGED <<identity, address, code, sessions>> /\ Ends(t)
      BY <1>10 DEF GenerateApiKey
    <2> QED
      BY <2>2, <2>3, <2>4, <1>5, <1>6 DEF Set, a
  <1>11. CASE RevokeApiKey(t)
    <2>1. PICK row : row = IF request[t].key THEN [a EXCEPT !.key = None] ELSE a
      OBVIOUS
    <2>2. request[t].step = "session" /\ account' = [account EXCEPT ![request[t].addr] = row]
      BY <1>11, <2>1, <1>6 DEF RevokeApiKey, a, AccountsInv, SignInTypeOK
    <2>3. /\ row \in Account /\ row.made = a.made /\ row.cutoff = a.cutoff
          /\ row.password = a.password /\ row.key \in {None, a.key}
      BY <2>1, <2>2, <1>6 DEF Account
    <2>4. UNCHANGED <<identity, address, code, sessions>> /\ Ends(t)
      BY <1>11 DEF RevokeApiKey
    <2> QED
      BY <2>2, <2>3, <2>4, <1>5, <1>6, <1>7 DEF Set, a
  <1>12. CASE InsertUser(t) \/ Link(t)
    BY <1>12, InsertUserKeeps, LinkKeeps
  <1> QED
    BY <1>1, <1>2, <1>3, <1>4, <1>8, <1>9, <1>10, <1>11, <1>12 DEF Writes

LEMMA ElsewhereKeeps ==
    ASSUME AccountsInv, SignInTypeOK', Elsewhere
    PROVE  AccountsInv'
  <1> USE DEF AccountsInv
  <1>1. ASSUME UNCHANGED <<account, identity, address, code, sessions, request>>
        PROVE  AccountsInv'
    BY <1>1 DEF RequestsSound, SoundRequest, SameSubject, RowsHaveAnAccount, PasswordsAreMade,
                OneGoogleEach, OneHolderEach, AlwaysAWayIn, AccountLocked, HasGoogle, Set, Accepts
  <1>2. CASE (\E s \in States : StartSignIn(s)) \/ Tick
    BY <1>1, <1>2 DEF StartSignIn, Tick
  <1>3. CASE \E e \in Emails : Close(e)
    <2>1. PICK e \in Emails : Close(e)
      BY <1>3
    <2>2. \A d \in Emails : account'[d].made = account[d].made /\ account'[d].cutoff = account[d].cutoff
                            /\ account'[d].password = account[d].password
                            /\ account'[d].key \in {None, account[d].key}
      BY <2>1 DEF Close, SignInTypeOK, Account
    <2>3. \A d \in Emails : d # e => account'[d] = account[d]
      BY <2>1 DEF Close, SignInTypeOK
    <2>4. UNCHANGED <<identity, address, code, sessions, request>>
      BY <2>1 DEF Close
    <2>5. RequestsSound'
      BY <2>2, <2>4 DEF RequestsSound, SoundRequest, SameSubject, HasGoogle
    <2>6. RowsHaveAnAccount'
      BY <2>2, <2>4 DEF RowsHaveAnAccount, SignInTypeOK, Code, Session
    <2>7. PasswordsAreMade'
      <3>1. account[e].made
        BY <2>1 DEF Close, PasswordsAreMade, NoAccount
      <3> QED
        BY <2>2, <2>3, <3>1 DEF PasswordsAreMade
    <2>8. AlwaysAWayIn' /\ OneGoogleEach' /\ OneHolderEach(address)'
      BY <2>2, <2>4 DEF AlwaysAWayIn, OneGoogleEach, OneHolderEach, HasGoogle, Set
    <2>9. \A d \in Emails : AccountLocked(d)'
      BY <2>2, <2>4, SignInAssumption DEF AccountLocked, HasGoogle, Accepts
    <2> QED
      BY <2>5, <2>6, <2>7, <2>8, <2>9
  <1>4. CASE \E g \in Subjects, e \in Emails : Address(g, e)
    <2>1. PICK g \in Subjects, e \in Emails : Address(g, e)
      BY <1>4
    <2>2. UNCHANGED <<account, identity, code, sessions, request>>
      BY <2>1 DEF Address
    <2>3. \A h \in Subjects : address'[h] = IF h = g THEN e
                                          ELSE IF address[h] = e THEN None ELSE address[h]
      BY <2>1 DEF Address
    <2>4. OneHolderEach(address)'
      BY <2>3 DEF OneHolderEach
    <2>5. ASSUME NEW u \in Threads
          PROVE  SoundRequest(request[u])'
      <3>1. SoundRequest(request[u]) /\ (request[u].step \in FirstSteps => request[u].addr # e)
        BY <2>1 DEF Address, RequestsSound
      <3>2. \A h \in Subjects : address'[h] = request[u].addr /\ request[u].step \in FirstSteps
                                  => address[h] = request[u].addr
        BY <3>1, <2>3, SignInAssumption DEF SoundRequest, FirstSteps
      <3> QED
        BY <2>2, <3>1, <3>2 DEF SoundRequest, HasGoogle
    <2>6. RequestsSound'
      BY <2>2, <2>5 DEF RequestsSound, SameSubject
    <2> QED
      BY <2>2, <2>4, <2>6 DEF RowsHaveAnAccount, PasswordsAreMade, OneGoogleEach, AlwaysAWayIn,
         AccountLocked, HasGoogle, Set, Accepts
  <1> QED
    BY <1>2, <1>3, <1>4 DEF Elsewhere

LEMMA InitKeeps == Init => AccountsInv
  <1> SUFFICES ASSUME Init
               PROVE  AccountsInv
    OBVIOUS
  <1>1. SignInTypeOK
    BY NothingType, SignInAssumption DEF Init, SignInTypeOK, Time
  <1>2. \A e \in Emails : ~HasGoogle(e) /\ ~account[e].made
    BY SignInAssumption DEF Init, HasGoogle, NoAccount
  <1>3. RequestsSound
    BY NothingIsSound DEF Init, RequestsSound
  <1>4. RowsHaveAnAccount /\ PasswordsAreMade /\ OneGoogleEach /\ OneHolderEach(address)
    BY DEF Init, RowsHaveAnAccount, PasswordsAreMade, OneGoogleEach, NoCode
  <1> QED
    BY <1>1, <1>2, <1>3, <1>4 DEF AccountsInv, AlwaysAWayIn, AccountLocked

LEMMA NextKeeps == AccountsInv /\ [Next]_vars => AccountsInv'
  <1> SUFFICES ASSUME AccountsInv, [Next]_vars
               PROVE  AccountsInv'
    OBVIOUS
  <1>1. CASE UNCHANGED vars
    BY <1>1 DEF vars, AccountsInv, SignInTypeOK, RequestsSound, SoundRequest, SameSubject,
                RowsHaveAnAccount, PasswordsAreMade, OneGoogleEach, OneHolderEach, AlwaysAWayIn,
                AccountLocked, HasGoogle, Set, Accepts
  <1>2. CASE Elsewhere
    BY <1>2, ElsewhereType, ElsewhereKeeps DEF AccountsInv
  <1>3. CASE \E t \in Threads : OnlyReads(t)
    BY <1>3, ReadsType, ReadsKeep DEF AccountsInv
  <1>4. CASE \E t \in Threads : Writes(t)
    BY <1>4, WritesType, WritesKeep DEF AccountsInv, RequestsSound
  <1> QED
    BY <1>1, <1>2, <1>3, <1>4, NextSplits

LEMMA AccountsInvHolds == Spec => []AccountsInv
  <1>1. QED
    BY InitKeeps, NextKeeps, PTL DEF Spec

-----------------------------------------------------------------------------
\* The variables keep their types.
THEOREM SignInTypes == Spec => []SignInTypeOK
  <1>1. AccountsInv => SignInTypeOK
    BY DEF AccountsInv
  <1> QED
    BY <1>1, AccountsInvHolds, PTL

\* Rule 3, whatever crosses the link: nothing of the sign-up lets anyone in afterwards.
THEOREM LinksLockOut == Spec => []LockedOut
  <1>1. AccountsInv => LockedOut
    <2> SUFFICES ASSUME AccountsInv
                 PROVE  LockedOut
      OBVIOUS
    <2>1. \A t \in Threads : SoundRequest(request[t])
      BY DEF AccountsInv, RequestsSound
    <2> QED
      BY <2>1 DEF AccountsInv, AccountLocked, LockedOut, SoundRequest
  <1> QED
    BY <1>1, AccountsInvHolds, PTL

\* Rule 4, however first sign-ins cross: an account opens for one Google account alone.
THEOREM AccountsOpenForOne == Spec => []OneGoogleEach
  <1>1. AccountsInv => OneGoogleEach
    BY DEF AccountsInv
  <1> QED
    BY <1>1, AccountsInvHolds, PTL

\* No account is left without a password and without Google.
THEOREM AccountsKeepAWayIn == Spec => []AlwaysAWayIn
  <1>1. AccountsInv => AlwaysAWayIn
    BY DEF AccountsInv
  <1> QED
    BY <1>1, AccountsInvHolds, PTL

-----------------------------------------------------------------------------
(***************************************************************************)
(* States and codes are good once.                                         *)
(***************************************************************************)
\* Nothing came of s yet.
Unspent(s) ==
    /\ \A j \in sessions : j.from # s
    /\ \A t \in Threads : request[t].from # s
    /\ code[s].of = None

SecretsInv ==
    /\ OneSessionEach
    /\ \A s \in States : state[s] # None => s \in started
    /\ \A s \in States : s \notin started \/ state[s] # None => Unspent(s)

LEMMA SecretsStay ==
    ASSUME SignInTypeOK, SecretsInv, UNCHANGED <<state, started, code, sessions>>,
           \A u \in Threads : request'[u].from \in {request[u].from, None}
    PROVE  SecretsInv'
  <1>1. \A s \in States, u \in Threads : request'[u].from = s => request[u].from = s
    BY SignInAssumption
  <1>2. OneSessionEach'
    BY <1>1 DEF SecretsInv, OneSessionEach
  <1> QED
    BY <1>1, <1>2 DEF SecretsInv, Unspent

LEMMA CodesOnce ==
    ASSUME SignInTypeOK, SecretsInv, NEW t \in Threads, IssueCode(request[t]),
           UNCHANGED <<state, started>>, request'[t].from = None,
           \A u \in Threads : u # t => request'[u].from = request[u].from,
           sessions' = sessions \/ \E e : sessions' = LateSessions(e, request[t].at)
    PROVE  SecretsInv'
  <1>n. None \notin States
    BY SignInAssumption
  <1>1. \A s \in States : /\ code'[s].of # None => code[s].of # None \/ request[t].from = s
    BY DEF IssueCode, SignInTypeOK
  <1>2. \A u \in Threads, s \in States : request'[u].from = s => u # t /\ request[u].from = s
    BY <1>n
  <1>3. /\ \A j \in sessions' : \E k \in sessions : k.from = j.from
        /\ \A j, m \in sessions', s \in States :
              (OneSessionEach /\ j.from = s /\ m.from = s) => j = m
    <2>1. CASE sessions' = sessions
      BY <2>1 DEF OneSessionEach
    <2>2. CASE \E e : sessions' = LateSessions(e, request[t].at)
      <3>1. PICK e : sessions' = LateSessions(e, request[t].at)
        BY <2>2
      <3> DEFINE late(k) == IF k.of = e /\ k.iat >= request[t].at
                            THEN [k EXCEPT !.root = Late(k.root)] ELSE k
      <3>2. \A k \in sessions : late(k).from = k.from
        BY DEF SignInTypeOK, Session
      <3>3. \A j \in sessions' : \E k \in sessions : j = late(k)
        BY <3>1 DEF LateSessions
      <3> HIDE DEF late
      <3>4. \A k, l \in sessions, s \in States :
                (OneSessionEach /\ k.from = s /\ l.from = s) => k = l
        BY DEF OneSessionEach
      <3> QED
        BY <3>2, <3>3, <3>4
    <2> QED
      BY <2>1, <2>2
  <1>4. ASSUME NEW s \in States
        PROVE  /\ \A j \in sessions' : j.from = s => code'[s].of = None
               /\ \A u \in Threads : request'[u].from = s =>
                     code'[s].of = None /\ \A j \in sessions' : j.from # s
               /\ \A u, v \in Threads : request'[u].from = s /\ request'[v].from = s => u = v
    BY <1>1, <1>2, <1>3 DEF SecretsInv, OneSessionEach
  <1>5. OneSessionEach'
    BY <1>3, <1>4 DEF OneSessionEach, SecretsInv
  <1>6. \A s \in States : Unspent(s) => Unspent(s)'
    BY <1>1, <1>2, <1>3 DEF Unspent
  <1> QED
    BY <1>5, <1>6 DEF SecretsInv

LEMMA SecretsKeep == AccountsInv /\ SecretsInv /\ [Next]_vars => SecretsInv'
  <1> SUFFICES ASSUME AccountsInv, SecretsInv, [Next]_vars
               PROVE  SecretsInv'
    OBVIOUS
  <1>n. None \notin States
    BY SignInAssumption
  <1>t. SignInTypeOK
    BY DEF AccountsInv
  <1>1. CASE UNCHANGED vars
    BY <1>1, <1>t, SecretsStay DEF vars
  <1>2. ASSUME NEW t \in Threads, NEW r, UNCHANGED <<state, started, code, sessions>>,
               Goes(t, r) \/ request' = request, r.from \in {request[t].from, None}
        PROVE  SecretsInv'
    <2>1. \A u \in Threads : request'[u].from \in {request[u].from, None}
      BY <1>2, <1>t DEF Goes, SignInTypeOK
    <2> QED
      BY <1>2, <1>t, <2>1, SecretsStay
  <1>3. Nothing.from = None
    BY DEF Nothing
  <1>4. ASSUME NEW t \in Threads, Ends(t), UNCHANGED <<state, started, code, sessions>>
        PROVE  SecretsInv'
    BY <1>2, <1>3, <1>4 DEF Ends
  <1>5. ASSUME NEW t \in Threads
        PROVE  request[t] \in Request
    BY <1>t DEF SignInTypeOK
  <1>6. CASE Elsewhere
    <2>1. CASE \E s \in States : StartSignIn(s)
      <3>1. PICK s \in States : StartSignIn(s)
        BY <2>1
      <3>2. UNCHANGED <<code, sessions, request>> /\ s \notin started /\ started' = started \cup {s}
        BY <3>1 DEF StartSignIn
      <3>3. \A q \in States : state'[q] # None => q = s \/ state[q] # None
        BY <3>1, <1>t DEF StartSignIn, Unexpired, SignInTypeOK
      <3>4. OneSessionEach' /\ \A q \in States : Unspent(q)' = Unspent(q)
        BY <3>2 DEF SecretsInv, OneSessionEach, Unspent
      <3> QED
        BY <3>2, <3>3, <3>4 DEF SecretsInv
    <2>2. CASE ~\E s \in States : StartSignIn(s)
      <3>1. UNCHANGED <<state, started, code, sessions, request>>
        BY <1>6, <2>2 DEF Elsewhere, Close, Address, Tick
      <3> QED
        BY <1>t, <3>1, SecretsStay
    <2> QED
      BY <2>1, <2>2
  <1>7. ASSUME NEW t \in Threads, OnlyReads(t)
        PROVE  SecretsInv'
    <2>1. CASE \E s \in States : TakeState(t, s)
      <3>1. PICK s \in States : TakeState(t, s)
        BY <2>1
      <3>2. UNCHANGED <<code, sessions, started>>
        BY <3>1 DEF TakeState
      <3>3. \A q \in States : state'[q] # None => q # s /\ state[q] # None
        BY <3>1, <1>t DEF TakeState, TakeLeaves, SignInTypeOK
      <3>4. CASE request' = request
        BY <3>1, <3>2, <3>3, <3>4 DEF SecretsInv, OneSessionEach, Unspent, TakeState
      <3>5. CASE TakeReturns(s) /\ Goes(t, [Nothing EXCEPT !.step = "asking", !.from = s])
        <4>1. Unspent(s) /\ s \in started
          BY <3>5 DEF TakeReturns, SecretsInv
        <4>2. request'[t].from = s /\ \A u \in Threads : u # t => request'[u] = request[u]
          BY <3>5, <1>t DEF Goes, Nothing, SignInTypeOK
        <4>3. OneSessionEach'
          BY <3>2, <4>1, <4>2 DEF SecretsInv, OneSessionEach, Unspent
        <4>4. \A q \in States : q # s /\ Unspent(q) => Unspent(q)'
          BY <3>2, <4>2 DEF Unspent
        <4> QED
          BY <3>2, <3>3, <4>1, <4>3, <4>4 DEF SecretsInv
      <3> QED
        BY <3>1, <3>4, <3>5 DEF TakeState
    <2>2. CASE McpSignIn(t)
      <3>1. [Nothing EXCEPT !.step = "asking"].from = None
        BY DEF Nothing
      <3> QED
        BY <2>2, <3>1, <1>2 DEF McpSignIn
    <2>3. CASE Refused(t) \/ TryAgain(t) \/ Declined(t)
      BY <2>3, <1>4 DEF Refused, TryAgain, Declined
    <2>4. CASE (\E g \in Subjects : Identify(t, g)) \/ FindUser(t) \/ CheckGoogle(t)
      <3>1. UNCHANGED <<state, started, code, sessions>>
        BY <2>4 DEF Identify, FindUser, CheckGoogle
      <3>2. \A u \in Threads : u # t => request'[u] = request[u]
        BY <2>4, <1>t DEF Identify, FindUser, CheckGoogle, Ends, Goes, SignInTypeOK
      <3>3. request'[t].from \in {request[t].from, None}
        <4>0. PICK q \in Request : q = request[t]
          BY <1>5
        <4>1. CASE \E g \in Subjects : Identify(t, g)
          <5>1. PICK g \in Subjects : Identify(t, g)
            BY <4>1
          <5>2. \/ request'[t] = Nothing
                \/ request'[t] = [q EXCEPT !.sub = g, !.step = "unknown", !.addr = address[g]]
                \/ request'[t] = [q EXCEPT !.sub = g, !.step = "known", !.addr = identity[g]]
            BY <4>0, <5>1, <1>t DEF Identify, Ends, Goes, SignInTypeOK, Request
          <5> QED
            BY <4>0, <5>2, <1>3 DEF Request
        <4>2. CASE FindUser(t)
          <5>1. \/ request'[t] = Nothing
                \/ request'[t] = [q EXCEPT !.step = "insert"]
                \/ request'[t] = [q EXCEPT !.step = "found",
                                          !.password = Set(account[q.addr].password),
                                          !.key = Set(account[q.addr].key)]
            BY <4>0, <4>2, <1>t DEF FindUser, Ends, Goes, SignInTypeOK
          <5> QED
            BY <4>0, <5>1, <1>3 DEF Request
        <4>3. CASE CheckGoogle(t)
          <5>1. \/ request'[t] = Nothing
                \/ request'[t] = [q EXCEPT !.step = "link", !.at = now]
            BY <4>0, <4>3, <1>t DEF CheckGoogle, Ends, Goes, SignInTypeOK
          <5> QED
            BY <4>0, <5>1, <1>3 DEF Request
        <4> QED
          BY <2>4, <4>1, <4>2, <4>3
      <3> QED
        BY <3>1, <3>2, <3>3, <1>t, SecretsStay
    <2>5. CASE \/ \E e \in Emails : Register(t, e)
               \/ \E e \in Emails : Login(t, e)
               \/ \E s \in sessions : Authenticate(t, s)
      <3>1. UNCHANGED <<state, started, code, sessions>>
        BY <2>5 DEF Register, Login, Authenticate
      <3>2. \A u \in Threads : u # t => request'[u] = request[u]
        BY <2>5, <1>t DEF Register, Login, Authenticate, Goes, SignInTypeOK
      <3>3. request'[t].from \in {request[t].from, None}
        <4>1. CASE \E e \in Emails : Register(t, e)
          BY <4>1, <1>t DEF Register, Nothing, Goes, SignInTypeOK
        <4>2. CASE \E e \in Emails : Login(t, e)
          BY <4>2, <1>t DEF Login, Nothing, Goes, SignInTypeOK
        <4>3. CASE \E s \in sessions : Authenticate(t, s)
          BY <4>3, <1>t DEF Authenticate, Nothing, Goes, SignInTypeOK
        <4> QED
          BY <2>5, <4>1, <4>2, <4>3
      <3> QED
        BY <3>1, <3>2, <3>3, <1>t, SecretsStay
    <2> QED
      BY <1>7, <2>1, <2>2, <2>3, <2>4, <2>5 DEF OnlyReads
  <1>8. ASSUME NEW t \in Threads, Writes(t)
        PROVE  SecretsInv'
    <2>1. CASE \E s \in States : Redeem(t, s)
      <3>1. PICK s \in States : Redeem(t, s)
        BY <2>1
      <3>2. UNCHANGED <<state, sessions, started>> /\ code[s].of # None
        BY <3>1 DEF Redeem
      <3>3. \A q \in States : code'[q] = IF q = s THEN NoCode ELSE code[q]
        BY <3>1, <1>t DEF Redeem, RedeemLeaves, SignInTypeOK
      <3>4. \/ request' = request
            \/ /\ request'[t].from = s
               /\ \A u \in Threads : u # t => request'[u] = request[u]
        BY <3>1, <1>t DEF Redeem, Goes, Nothing, SignInTypeOK
      <3>5. OneSessionEach'
        BY <3>2, <3>3, <3>4 DEF SecretsInv, OneSessionEach, NoCode
      <3>6. \A q \in States : Unspent(q) => q # s /\ Unspent(q)'
        BY <3>2, <3>3, <3>4 DEF Unspent, NoCode
      <3> QED
        BY <3>2, <3>5, <3>6 DEF SecretsInv
    <2>2. CASE OpenKnown(t) \/ InsertUser(t)
      <3>1. request'[t].from = None /\ \A u \in Threads : u # t => request'[u] = request[u]
        BY <2>2, <1>t, <1>3 DEF OpenKnown, InsertUser, Ends, Goes, SignInTypeOK
      <3> QED
        BY <2>2, <3>1, <1>t, CodesOnce DEF OpenKnown, InsertUser
    <2>3. CASE Link(t)
      <3>1. request'[t].from = None
        BY <2>3, <1>3 DEF Link, LateRequests
      <3>2. \A u \in Threads : u # t => request'[u].from = request[u].from
        BY <2>3, <1>5 DEF Link, LateRequests, Request
      <3> QED
        BY <2>3, <3>1, <3>2, <1>t, CodesOnce DEF Link
    <2>4. CASE GiveToken(t)
      <3>1. UNCHANGED <<state, started, code>>
        BY <2>4 DEF GiveToken
      <3>2. PICK j : j.from = request[t].from /\ sessions' = sessions \cup {j}
        BY <2>4 DEF GiveToken
      <3>3. request'[t].from = None /\ \A u \in Threads : u # t => request'[u] = request[u]
        BY <2>4, <1>t, <1>3 DEF GiveToken, Ends, Goes, SignInTypeOK
      <3>4. OneSessionEach'
        BY <1>n, <3>1, <3>2, <3>3 DEF SecretsInv, OneSessionEach
      <3>5. \A q \in States : Unspent(q) => Unspent(q)'
        BY <1>n, <3>1, <3>2, <3>3 DEF Unspent
      <3> QED
        BY <3>1, <3>4, <3>5 DEF SecretsInv
    <2>5. CASE \/ InsertRegistered(t) \/ RemovePassword(t) \/ GenerateApiKey(t) \/ RevokeApiKey(t)
               \/ \E proved \in BOOLEAN : SetPassword(t, proved)
      BY <2>5, <1>4 DEF InsertRegistered, RemovePassword, GenerateApiKey, RevokeApiKey, SetPassword
    <2> QED
      BY <1>8, <2>1, <2>2, <2>3, <2>4, <2>5 DEF Writes
  <1> QED
    BY <1>1, <1>6, <1>7, <1>8, NextSplits

\* A state, and then its code, are good once: a sign-in the page began opens one session.
THEOREM SignInsOpenOneSession == Spec => []OneSessionEach
  <1>1. Init => SecretsInv
    BY SignInAssumption DEF Init, SecretsInv, OneSessionEach, Unspent, Nothing, NoCode
  <1>2. SecretsInv => OneSessionEach
    BY DEF SecretsInv
  <1> QED
    BY <1>1, <1>2, AccountsInvHolds, SecretsKeep, PTL DEF Spec
=============================================================================
