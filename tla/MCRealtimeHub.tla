---------------------------- MODULE MCRealtimeHub ----------------------------
\* Instances of RealtimeHub for TLC.
EXTENDS RealtimeHub, TLC

CONSTANTS u1, u2, c1, c2, r1, r2

\* Every user has one connection.
OneEach == (c1 :> u1) @@ (c2 :> u2)

\* One user with two devices, or with a laggard next to its reconnection.
TwoDevices == (c1 :> u1) @@ (c2 :> u1)
=============================================================================
