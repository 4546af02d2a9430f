---------------------------- MODULE MCShortCodes ----------------------------
\* A small instance of ShortCodes for TLC.  One code people ask for stands for two: it is the
\* app's own on its host, as "mcp" is, and a suffix makes it one the API keeps, as "ers" makes
\* "managers" of "manag".
EXTENDS ShortCodes, TLC
MCSuffixed == [c \in CustomCodes |-> Codes \ (RandomCodes \cup CustomCodes)]
MCSymmetry == Permutations(Links) \cup Permutations(Tasks) \cup Permutations(Requests)
=============================================================================
