------------------------------ MODULE WsbusOrder ------------------------------
(***************************************************************************)
(* The bus on its own: any goroutine may publish to any user at any time,  *)
(* each subscriber's write loop drains its channel and each subscription   *)
(* is cancelled at an arbitrary moment.  Events are numbered in the order  *)
(* of their Publish calls, which is what the delivery properties speak of. *)
(***************************************************************************)
EXTENDS Wsbus

CONSTANT MaxEvents     \* bound on the number of Publish calls

ASSUME EventAssumption == MaxEvents \in Nat

VARIABLES next,        \* number of the next event
          got          \* number of the last event a subscriber took, 0 if none

orderVars == <<busVars, next, got>>

OrderTypeOK ==
    /\ BusTypeOK(Nat)
    /\ next \in Nat \ {0}
    /\ got \in [Subs -> Nat]

OrderInit ==
    /\ BusInit
    /\ next = 1
    /\ got = [s \in Subs |-> 0]

Open(s) == Subscribe(s) /\ UNCHANGED <<next, got>>

Emit(u) ==
    /\ next <= MaxEvents
    /\ Publish(u, next)
    /\ next' = next + 1
    /\ UNCHANGED got

Take(s) ==
    /\ Receive(s)
    /\ got' = [got EXCEPT ![s] = Head(buf[s])]
    /\ UNCHANGED next

Remove(s) ==
    /\ chan[s] = "open" /\ s \in registered
    /\ Deregister(s)
    /\ UNCHANGED <<next, got>>

Close(s) ==
    /\ chan[s] = "open" /\ s \notin registered
    /\ CloseChan(s)
    /\ UNCHANGED <<next, got>>

OrderNext ==
    \/ \E s \in Subs : Open(s) \/ Take(s) \/ Remove(s) \/ Close(s)
    \/ \E u \in Users : Emit(u)

OrderSpec == OrderInit /\ [][OrderNext]_orderVars

-----------------------------------------------------------------------------
(* Whatever is dropped, a subscriber sees the events of its user in the    *)
(* order they were published and none of them twice: the buffer is         *)
(* strictly increasing and lies strictly between the last event taken and  *)
(* the next event to be published.                                         *)
InOrder ==
    \A s \in Subs :
        /\ \A i \in 1..Len(buf[s]) : got[s] < buf[s][i] /\ buf[s][i] < next
        /\ \A i, j \in 1..Len(buf[s]) : i < j => buf[s][i] < buf[s][j]

(* A slow consumer costs a bounded amount of memory, and a subscriber that *)
(* is gone from the map receives nothing more.                             *)
BoundedAndQuiet ==
    [][\A s \in Subs : /\ Len(buf'[s]) <= BufferCap
                       /\ s \notin registered => Len(buf'[s]) <= Len(buf[s])]_orderVars

=============================================================================
