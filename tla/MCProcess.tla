----------------------------- MODULE MCProcess -----------------------------
\* Process for TLC: the threads that Main creates are interchangeable.
EXTENDS Process, TLC

CONSTANTS t1, t2, t3

Symmetry == Permutations(Thread \ {Main})
=============================================================================
