----------------------------- MODULE MCHubAndBus -----------------------------
(* The bus under its two kinds of users.  A behaviour is of the hub, or of *)
(* the bus on its own with publishers that know no order: what the bus     *)
(* promises does not hang on how the hub calls it.                         *)
EXTENDS RealtimeHub, WsbusOrder, TLC

CONSTANTS u1, c1, c2, r1

VARIABLE part  \* who uses the bus

\* One user with two devices, or with a laggard next to its reconnection.
TwoDevices == (c1 :> u1) @@ (c2 :> u1)

hubOnly == <<connVars, liveSubs, viewers, pc, loc>>
busOnly == <<next, got>>
allVars == <<part, vars, busOnly>>

BothInit == part \in {"hub", "bus"} /\ Init /\ OrderInit

OfHub(A) == part = "hub" /\ A /\ UNCHANGED <<part, busOnly>>
OfBus(A) == part = "bus" /\ A /\ UNCHANGED <<part, hubOnly>>

BothNext == OfHub(Next) \/ OfBus(OrderNext)

\* The fairness of RealtimeHub.
BothFairness ==
    /\ \A c \in Subs : /\ WF_allVars(OfHub(Cleanup(c))) /\ WF_allVars(OfHub(StopSeen(c)))
                       /\ WF_allVars(OfHub(Handler(c)))
                       /\ SF_allVars(OfHub(pc[<<c, "main">>] = "gone" /\ ReadFails(c)))
    /\ \A t \in Threads : WF_allVars(OfHub(Fanout(t)))

BothSpec == BothInit /\ [][BothNext]_allVars /\ BothFairness

-----------------------------------------------------------------------------
(* wsbus.go: whatever a full channel drops, the write loop sees what is    *)
(* left in the order of the Publish calls and nothing twice.  (The hub     *)
(* publishes events that carry no number.)                                 *)
BusInOrder == part = "bus" => InOrder
=============================================================================
