------------------------------ MODULE MCSignIn ------------------------------
\* A small instance of SignIn for TLC.
EXTENDS SignIn, TLC
MCSymmetry == Permutations(Threads) \cup Permutations(States) \cup Permutations(Emails)
                  \cup Permutations(Subjects)
=============================================================================
