--------------------------- MODULE MCTokenRotation ---------------------------
\* Instances of TokenRotation for TLC.
EXTENDS TokenRotation, TLC

CONSTANTS t1, t2, t3, q1, q2, q3

\* Tokens and handlers are interchangeable.
Symmetric == Permutations(Tokens) \cup Permutations(Requests)
=============================================================================
