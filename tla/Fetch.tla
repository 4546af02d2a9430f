------------------------------- MODULE Fetch -------------------------------
(***************************************************************************)
(* Fetching a link's page for its preview and its icon                     *)
(* (server/utils/opengraph.py).  A host's addresses are resolved and all   *)
(* checked to be public, the connection is made to one of those, and each  *)
(* redirect is followed by hand, the same way.  Names may resolve to       *)
(* something else from one moment to the next, and whoever answers may     *)
(* redirect anywhere.                                                      *)
(*                                                                         *)
(* Abstracted: an origin is its host; what a page says is whether it       *)
(* declares an icon, which is not fetched; OG_FETCH_ALLOW_PRIVATE, for     *)
(* development, is off.                                                    *)
(***************************************************************************)
EXTENDS Naturals, Sequences, SequencesExt, FiniteSets

CONSTANTS
    Hosts,
    Reached,   \* the addresses hosts resolve to, and
    Public,    \* those of them that are public
    MaxRedirects,
    Nil

\* What the constants are assumed to be, where the module is extended.
FetchAssumption ==
    /\ Public \subseteq Reached /\ IsFiniteSet(Reached)
    /\ MaxRedirects \in Nat
    /\ Nil \notin Hosts \cup Reached

VARIABLES
    names,      \* names[h]: the addresses the host resolves to now
    fetch,      \* the fetch that runs, or Nil
    connected   \* the address that was connected to last, or Nil

fetchVars == <<names, fetch, connected>>

Fetch == [url : Hosts, base : Hosts, want : {"page", "icon"}, at : Hosts, hops : 0 .. MaxRedirects,
          step : {"resolve", "connect", "answered"}, checked : Seq(Reached), origins : Seq(Hosts)]

FetchTypeOK ==
    /\ names \in [Hosts -> SUBSET Reached]
    /\ fetch # Nil => fetch \in Fetch
    /\ connected \in Reached \cup {Nil}

FetchInit ==
    /\ names \in [Hosts -> (SUBSET Reached) \ {{}}]
    /\ fetch = Nil
    /\ connected = Nil

Begin ==
    /\ fetch = Nil
    /\ \E h \in Hosts :
            fetch' = [url |-> h, base |-> h, want |-> "page", at |-> h, hops |-> 0, step |-> "resolve",
                      checked |-> <<>>, origins |-> <<>>]
    /\ UNCHANGED <<names, connected>>

\* The next origin whose /favicon.ico is tried, or the end.
TryIcon(f) ==
    fetch' = IF f.origins = <<>> THEN Nil
             ELSE [f EXCEPT !.want = "icon", !.at = Head(f.origins), !.origins = Tail(@), !.hops = 0,
                            !.step = "resolve", !.checked = <<>>]

\* Refused, timed out or failed: no preview, or no icon there.
GivesUp ==
    /\ fetch # Nil
    /\ IF fetch.want = "page" THEN fetch' = Nil ELSE TryIcon(fetch)
    /\ UNCHANGED <<names, connected>>

-----------------------------------------------------------------------------
(* One hop.                                                                 *)

ArePublic(addresses) == addresses \subseteq Public

\* In any order, as they were resolved.
ResolveHost ==
    /\ fetch # Nil /\ fetch.step = "resolve"
    /\ names[fetch.at] # {}
    /\ ArePublic(names[fetch.at])
    /\ \E order \in SetToSeqs(names[fetch.at]) :
            fetch' = [fetch EXCEPT !.step = "connect", !.checked = order]
    /\ connected' = Nil
    /\ UNCHANGED names

\* The name resolved again, by who connects: a wrong version.
ResolvedAgain == names[fetch.at]

Target == {Head(fetch.checked)}

Connects(step) ==
    /\ connected' \in Target
    /\ fetch' = step

\* Nobody there: the next address, while there is one.
Unreachable ==
    /\ fetch # Nil /\ fetch.step = "connect"
    /\ Len(fetch.checked) > 1
    /\ Connects([fetch EXCEPT !.checked = Tail(@)])
    /\ UNCHANGED names

Connect ==
    /\ fetch # Nil /\ fetch.step = "connect"
    /\ Connects([fetch EXCEPT !.step = "answered", !.checked = <<>>])
    /\ UNCHANGED names

Redirected ==
    /\ fetch # Nil /\ fetch.step = "answered"
    /\ fetch.hops < MaxRedirects
    /\ \E h \in Hosts : fetch' = [fetch EXCEPT !.at = h, !.hops = @ + 1, !.step = "resolve"]
    /\ UNCHANGED <<names, connected>>

-----------------------------------------------------------------------------
(* The answer.                                                              *)

Origins(url, base) == IF url = base THEN <<url>> ELSE <<url, base>>

\* A page that declares no icon, or no page at all: the link's own origin's icon is tried, then
\* that of where it was redirected to.
PageAnswers ==
    /\ fetch # Nil /\ fetch.step = "answered" /\ fetch.want = "page"
    /\ \E declares \in BOOLEAN :
            IF declares THEN fetch' = Nil
            ELSE TryIcon([fetch EXCEPT !.base = fetch.at, !.origins = Origins(fetch.url, fetch.at)])
    /\ UNCHANGED <<names, connected>>

\* An image at the origin's /favicon.ico, wherever that redirected to; or another answer.
IconAnswers ==
    /\ fetch # Nil /\ fetch.step = "answered" /\ fetch.want = "icon"
    /\ fetch' = Nil \/ TryIcon(fetch)
    /\ UNCHANGED <<names, connected>>

\* A name resolves to something else, or to nothing.
NameChanges ==
    /\ \E h \in Hosts, addresses \in SUBSET Reached : names' = [names EXCEPT ![h] = addresses]
    /\ UNCHANGED <<fetch, connected>>

FetchNext ==
    \/ Begin \/ ResolveHost \/ Unreachable \/ Connect \/ Redirected \/ GivesUp
    \/ PageAnswers \/ IconAnswers \/ NameChanges

FetchSpec == FetchInit /\ [][FetchNext]_fetchVars

-----------------------------------------------------------------------------
(* Properties.                                                              *)

\* Whatever names resolve to from one moment to the next, and wherever answers redirect, no
\* connection is ever made to an address that is not public ("connects to an address that passed
\* that check, and follows redirects by hand so every hop is checked the same way").
ConnectsToThePublicOnly == connected \in Public \cup {Nil}
=============================================================================
