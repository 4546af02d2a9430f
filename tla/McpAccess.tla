----------------------------- MODULE McpAccess -----------------------------
(***************************************************************************)
(* How the MCP server lets people in who signed in with Google             *)
(* (mcp_server/google_oauth.py, auth.py): the OAuth proxy's tokens, each   *)
(* standing for a Google token kept in the database (oauth_store.py), the  *)
(* check of that token with Google, which a task keeps for a while, and    *)
(* the account, which is looked up on every request.                       *)
(*                                                                         *)
(* Abstracted: the proxy's protocol, of a library outside this repository, *)
(* is a token that is issued when the provider's hook does not refuse.     *)
(* The rules of the sign-in itself are SignIn's.  A call lasts Delay ticks *)
(* at most: a proxy in front of the service ends it otherwise.             *)
(***************************************************************************)
EXTENDS Integers, Sequences, SequencesExt

CONSTANTS
    Holders,
    Tokens,    \* bound: tokens ever issued
    Tasks,     \* the service's tasks, each with its own cache
    Calls,     \* calls served at once
    Kept,      \* _VERIFIED_FOR
    Most,      \* _VERIFIED_MAX
    Life,      \* how long Google's tokens live
    Delay,     \* bound: how long a call takes
    LastTick,  \* bound: ticks
    Nil

\* What the constants are assumed to be, where the module is instantiated.
McpAssumption ==
    /\ {Kept, Most, Life, Delay, LastTick} \subseteq Nat \ {0}
    /\ Nil \notin Holders \cup Tokens /\ Tasks # {}

VARIABLES
    tick,
    left,      \* left[p]: since when Google answers no more for p, or Nil
    closed,    \* closed[p]: since when p's account is closed, or Nil
    stored,    \* stored[t]: the Google token of the proxy's token t, or Nil
    kept,      \* kept[k]: the checks task k keeps, oldest first
    call,      \* call[c]: what a call is at
    let        \* the call that was let through last, or Nil

mcpVars == <<tick, left, closed, stored, kept, call, let>>

Ticks   == 0 .. LastTick
Stored  == [of : Holders, expires : Nat, out : BOOLEAN]  \* out: its proxy's token was issued
Check   == [token : Tokens, until : Nat, of : Holders, expires : Nat]
Resting == [step |-> "idle", began |-> 0, task |-> CHOOSE k \in Tasks : TRUE, token |-> Nil, check |-> Nil]

McpTypeOK ==
    /\ tick \in Ticks
    /\ left \in [Holders -> Ticks \cup {Nil}] /\ closed \in [Holders -> Ticks \cup {Nil}]
    /\ stored \in [Tokens -> Stored \cup {Nil}]
    /\ \A k \in Tasks : kept[k] \in Seq(Check) /\ Len(kept[k]) <= Most

McpInit ==
    /\ tick = 0
    /\ left = [p \in Holders |-> Nil]
    /\ closed = [p \in Holders |-> Nil]
    /\ stored = [t \in Tokens |-> Nil]
    /\ kept = [k \in Tasks |-> <<>>]
    /\ call = [c \in Calls |-> Resting]
    /\ let = Nil

\* Google's own check of a token, when it is asked.
Good(t) == stored[t] # Nil /\ left[stored[t].of] = Nil /\ tick < stored[t].expires

OfToken(k, t) == {i \in DOMAIN kept[k] : kept[k][i].token = t}

EndsCall(c)     == call' = [call EXCEPT ![c] = Resting]
Goes(c, to) == call' = [call EXCEPT ![c].step = to]

-----------------------------------------------------------------------------
(* Getting a token: the client redeems its code, or refreshes.  Google's    *)
(* tokens are stored first, and an account that is closed gets nothing for  *)
(* them: nobody is handed the proxy's token.                                *)

\* Each write drops the rows that expired.
Write(t, row) == [u \in Tokens |-> IF u = t THEN row
                                   ELSE IF stored[u] # Nil /\ stored[u].expires < tick THEN Nil ELSE stored[u]]

Unused(t) == /\ stored[t] = Nil
             /\ \A k \in Tasks : OfToken(k, t) = {}
             /\ \A c \in Calls : call[c].token # t

\* Google's tokens for p are stored.
Stores(c, p, step) ==
    \E t \in Tokens, k \in Tasks :
        /\ Unused(t)
        /\ stored' = Write(t, [of |-> p, expires |-> tick + Life, out |-> FALSE])
        /\ call' = [call EXCEPT ![c] = [Resting EXCEPT !.step = step, !.began = tick, !.task = k, !.token = t]]

Exchange(c) ==
    /\ call[c].step = "idle"
    /\ \E p \in Holders : left[p] = Nil /\ Stores(c, p, "stored")
    /\ UNCHANGED <<tick, left, closed, kept, let>>

Refresh(c) ==
    /\ call[c].step = "idle"
    /\ \E old \in Tokens :
        /\ stored[old] # Nil /\ stored[old].out
        /\ left[stored[old].of] = Nil
        /\ Stores(c, stored[old].of, "refreshed")
    /\ UNCHANGED <<tick, left, closed, kept, let>>

\* A refreshed token is checked with Google again.
CheckRefreshed(c) ==
    /\ call[c].step = "refreshed"
    /\ IF Good(call[c].token) THEN Goes(c, "stored") ELSE EndsCall(c)
    /\ UNCHANGED <<tick, left, closed, stored, kept, let>>

\* The token is handed out, or refused: Google's stays in the store, where nothing reaches it.
Issue(c) ==
    /\ call[c].step = "stored"
    /\ LET t == call[c].token
       IN  stored' = IF stored[t] # Nil /\ closed[stored[t].of] = Nil THEN [stored EXCEPT ![t].out = TRUE]
                     ELSE stored
    /\ EndsCall(c)
    /\ UNCHANGED <<tick, left, closed, kept, let>>

-----------------------------------------------------------------------------
(* A request with a token: the task's check of it, or Google's, then the    *)
(* account.                                                                 *)

\* A check that was kept is good for ever: a wrong version.
StillThere(check) == TRUE

StillGood(check) == check.until > tick

\* A token has one check, or none.
Drop(list, t) ==
    LET same == {i \in DOMAIN list : list[i].token = t}
    IN  IF same = {} THEN list ELSE RemoveAt(list, CHOOSE i \in same : TRUE)

\* A check that is past is dropped.
Request(c) ==
    /\ call[c].step = "idle"
    /\ \E k \in Tasks, t \in Tokens :
        /\ stored[t] # Nil => stored[t].out
        /\ ~Unused(t)
        /\ LET found == {kept[k][i] : i \in OfToken(k, t)}
               good  == {check \in found : StillGood(check)}
               began == [Resting EXCEPT !.began = tick, !.task = k, !.token = t]
           IN  IF good # {}
               THEN /\ call' = [call EXCEPT ![c] = [began EXCEPT !.step = "known",
                                                                 !.check = CHOOSE check \in good : TRUE]]
                    /\ UNCHANGED kept
               ELSE /\ call' = [call EXCEPT ![c] = [began EXCEPT !.step = "ask"]]
                    /\ kept' = [kept EXCEPT ![k] = Drop(@, t)]
    /\ UNCHANGED <<tick, left, closed, stored, let>>

AskGoogle(c) ==
    /\ call[c].step = "ask"
    /\ IF Good(call[c].token)
       THEN call' = [call EXCEPT ![c].step = "answered",
                                 ![c].check = [token |-> call[c].token, until |-> 0,
                                                of |-> stored[call[c].token].of,
                                                expires |-> stored[call[c].token].expires]]
       ELSE EndsCall(c)
    /\ UNCHANGED <<tick, left, closed, stored, kept, let>>

Sooner(a, b) == IF a < b THEN a ELSE b

\* A token checked before keeps its place; the oldest make room.
Put(list, check) ==
    LET same == {i \in DOMAIN list : list[i].token = check.token}
        all  == IF same = {} THEN Append(list, check) ELSE [i \in DOMAIN list |-> IF i \in same THEN check ELSE list[i]]
    IN  IF Len(all) > Most THEN Tail(all) ELSE all

KeepCheck(c) ==
    /\ call[c].step = "answered"
    /\ LET check == [call[c].check EXCEPT !.until = Sooner(tick + Kept, call[c].check.expires)]
       IN  /\ kept' = [kept EXCEPT ![call[c].task] = Put(@, check)]
           /\ call' = [call EXCEPT ![c].step = "known", ![c].check = check]
    /\ UNCHANGED <<tick, left, closed, stored, let>>

\* The account is looked up on every request: closed, it gets no further.
LookUp(c) ==
    /\ call[c].step = "known"
    /\ IF closed[call[c].check.of] = Nil THEN Goes(c, "let in") ELSE EndsCall(c)
    /\ UNCHANGED <<tick, left, closed, stored, kept, let>>

\* The tool calls the API with a token of five minutes for the account, which looks it up again.
LetIn(c) ==
    /\ call[c].step = "let in"
    /\ let' = [check |-> call[c].check, began |-> call[c].began]
    /\ EndsCall(c)
    /\ UNCHANGED <<tick, left, closed, stored, kept>>

-----------------------------------------------------------------------------
(* Meanwhile.                                                               *)

Suspend ==
    /\ \E p \in Holders : left[p] = Nil /\ left' = [left EXCEPT ![p] = tick]
    /\ UNCHANGED <<tick, closed, stored, kept, call, let>>

Close ==
    /\ \E p \in Holders : closed[p] = Nil /\ closed' = [closed EXCEPT ![p] = tick]
    /\ UNCHANGED <<tick, left, stored, kept, call, let>>

\* A deployment: the task's checks and calls are gone, what is in the database stays.
Restart ==
    /\ \E k \in Tasks :
        /\ kept' = [kept EXCEPT ![k] = <<>>]
        /\ call' = [c \in Calls |-> IF call[c].task = k THEN Resting ELSE call[c]]
    /\ UNCHANGED <<tick, left, closed, stored, let>>

McpTick ==
    /\ tick < LastTick
    /\ \A c \in Calls : call[c].step # "idle" => tick < call[c].began + Delay
    /\ tick' = tick + 1
    /\ let' = Nil
    /\ UNCHANGED <<left, closed, stored, kept, call>>

McpNext ==
    \/ \E c \in Calls :
        \/ Exchange(c) \/ Issue(c) \/ Refresh(c) \/ CheckRefreshed(c)
        \/ Request(c) \/ AskGoogle(c) \/ KeepCheck(c) \/ LookUp(c) \/ LetIn(c)
    \/ Suspend \/ Close \/ Restart \/ McpTick

McpSpec == McpInit /\ [][McpNext]_mcpVars

-----------------------------------------------------------------------------
(* Properties.                                                              *)

\* Who may no longer come in does not, whichever task answers: a request let through now began
\* before the account was closed ("closing it in Shurly bites at once"), and came within Kept of
\* the suspension at Google ("takes up to a minute to bite") and before its Google token expired,
\* give or take how long the calls take themselves: the one that asked Google, and this one.
AccessEnds ==
    let # Nil =>
        LET p == let.check.of
        IN  /\ closed[p] # Nil => let.began <= closed[p]
            /\ left[p] # Nil => tick < left[p] + Delay + Kept + Delay
            /\ tick < let.check.expires + Delay
=============================================================================
