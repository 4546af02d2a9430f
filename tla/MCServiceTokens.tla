--------------------------- MODULE MCServiceTokens ---------------------------
\* A small instance of ServiceTokens for TLC.
EXTENDS ServiceTokens, TLC
MCSymmetry == Permutations(Tokens) \cup Permutations(Threads)
=============================================================================
