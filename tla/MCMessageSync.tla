---------------------------- MODULE MCMessageSync ----------------------------
\* Instances of MessageSync for TLC.
EXTENDS MessageSync

CONSTANTS c1, c2

MCUserOf == [c \in Subs |-> Reader]

\* The web client that reconnects; the desktop client; and one whose user
\* edits a message of his twice.
Web == [archive |-> FALSE, sockets |-> 2, sent |-> 3, own |-> 0, versions |-> 1]
Desktop == [archive |-> TRUE, sockets |-> 1, sent |-> 2, own |-> 0, versions |-> 1]
Author == [archive |-> TRUE, sockets |-> 1, sent |-> 1, own |-> 1, versions |-> 3]

AllClients == {Web, Desktop, Author}
WebOnly == {Web}
AuthorOnly == {Author}

\* All connections belong to the same user.
Reconnections == Permutations(Subs)
=============================================================================
