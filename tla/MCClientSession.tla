--------------------------- MODULE MCClientSession ---------------------------
\* Instances of ClientSession for TLC.
EXTENDS ClientSession, TLC

CONSTANTS t1, t2, t3, t4, s1, s2, s3

\* Tokens and sockets are interchangeable.
Symmetric == Permutations(Tokens) \cup Permutations(Sockets)
=============================================================================
