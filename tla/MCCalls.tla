------------------------------ MODULE MCCalls ------------------------------
EXTENDS Calls, TLC

MCPeers == {"ana", "bo"}
MCSymmetry == Permutations(Clients)
=============================================================================
