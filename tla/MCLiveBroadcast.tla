-------------------------- MODULE MCLiveBroadcast --------------------------
EXTENDS LiveBroadcast
=============================================================================
