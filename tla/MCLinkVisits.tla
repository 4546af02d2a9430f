--------------------------- MODULE MCLinkVisits ---------------------------
(* One link and a few worker threads: the races are between requests for  *)
(* the same link, and two links share nothing but the clock.              *)
EXTENDS LinkVisits, TLC

\* Open until a moment, or from it on.
MCWindows == {[since |-> None, until |-> 1], [since |-> 1, until |-> None]}

MCSymmetry == Permutations(Threads)

=============================================================================
