----------------------------- MODULE MCOrgRoles -----------------------------
(* Three people are enough for the races: two owners, or an owner and the *)
(* one the role is handed to, and a third who acts on one of them.        *)
EXTENDS OrgRoles, SequencesExt

\* All but the configured owner are alike, so one order of them stands for the others: what
\* follows an initial state follows, with the names exchanged, the ones left out.  (TLC's own
\* symmetry reduction is for safety only.)
Others == SetToSeq(People \ {Bootstrap})

Standing(p) ==
    IF role[p] # None THEN 3 + Rank[role[p]]
    ELSE CASE account[p] = "none" -> 0 [] account[p] = "closed" -> 1 [] OTHER -> 2

MCInit == Init /\ \A i \in 1 .. Len(Others) - 1 : Standing(Others[i]) <= Standing(Others[i + 1])

MCFairSpec == MCInit /\ [][Next]_vars /\ Fairness

=============================================================================
