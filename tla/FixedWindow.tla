---------------------------- MODULE FixedWindow ----------------------------
(***************************************************************************)
(* What a rate limit promises (server/utils/rate_limit.py): fixed windows, *)
(* and at most so many let through in each.  A window is open once every   *)
(* task's clock and every request under way is in it.                      *)
(***************************************************************************)
EXTENDS Naturals

CONSTANTS
    Windows,   \* the starts of the windows
    Most,      \* how many one window lets through
    None

VARIABLES
    open,   \* the window that is open, or None
    used    \* how many it has let through

TypeOK == open \in Windows \cup {None} /\ used \in 0 .. Most

Init == open = None /\ used = 0

Open(w)   == open = None /\ open' = w /\ used' = 0
Close     == open # None /\ open' = None /\ used' = 0
Turn(w)   == open \notin {None, w} /\ open' = w /\ used' = 0
LetOne    == open # None /\ used < Most /\ used' = used + 1 /\ UNCHANGED open

Next == LetOne \/ Close \/ \E w \in Windows : Open(w) \/ Turn(w)

Spec == Init /\ [][Next]_<<open, used>>
=============================================================================
