-------------------------------- MODULE Wsbus --------------------------------
(***************************************************************************)
(* The per-user fan-out bus of server/pkg/wsbus/bus.go.                    *)
(*                                                                         *)
(* A subscription is one call of Bus.Subscribe: it owns a buffered channel *)
(* registered under its user.  The bus mutex makes registration, removal   *)
(* and a whole Publish atomic; close(ch) happens after the mutex has been  *)
(* released, so it is a step of its own.  Publish never blocks: an event   *)
(* for a full buffer is dropped.  Sending on a closed channel would panic. *)
(*                                                                         *)
(* Other modules EXTEND this one and use its operators as the bus calls of *)
(* their own handlers.                                                     *)
(***************************************************************************)
EXTENDS Naturals, Sequences, FiniteSets

CONSTANTS Users,       \* user ids
          Subs,        \* subscriptions, one per call of Subscribe
          UserOf,      \* the user a subscription was opened for
          BufferCap    \* capacity of a channel (32 in the code)

ASSUME BusAssumption ==
    /\ UserOf \in [Subs -> Users]
    /\ BufferCap \in Nat \ {0}

VARIABLES registered,  \* Bus.subs: the subscriptions Publish iterates over
          chan,        \* "none" before Subscribe, then "open", then "closed"
          buf,         \* events waiting in each channel
          panicked     \* a send on a closed channel has happened

busVars == <<registered, chan, buf, panicked>>

BusTypeOK(Event) ==
    /\ registered \in SUBSET Subs
    /\ chan \in [Subs -> {"none", "open", "closed"}]
    /\ buf \in [Subs -> Seq(Event)]
    /\ \A s \in Subs : Len(buf[s]) <= BufferCap
    /\ panicked \in BOOLEAN

BusInit ==
    /\ registered = {}
    /\ chan = [s \in Subs |-> "none"]
    /\ buf = [s \in Subs |-> <<>>]
    /\ panicked = FALSE

-----------------------------------------------------------------------------
\* The subscriptions a Publish to user u visits.
Targets(u) == {s \in registered : UserOf[s] = u}

Subscribe(s) ==
    /\ chan[s] = "none"
    /\ registered' = registered \cup {s}
    /\ chan' = [chan EXCEPT ![s] = "open"]
    /\ UNCHANGED <<buf, panicked>>

\* Mutant: a full channel overwrites its oldest slot in place.
Publish_Overwrite(u, ev) ==
    /\ buf' = [s \in Subs |->
                 IF s \notin Targets(u) THEN buf[s]
                 ELSE IF Len(buf[s]) < BufferCap THEN Append(buf[s], ev)
                 ELSE [buf[s] EXCEPT ![1] = ev]]
    /\ UNCHANGED <<registered, chan, panicked>>

\* Non-blocking send to every channel of u, all under the read lock.
Publish(u, ev) ==
    /\ buf' = [s \in Subs |->
                 IF s \in Targets(u) /\ Len(buf[s]) < BufferCap
                 THEN Append(buf[s], ev) ELSE buf[s]]
    /\ panicked' = (panicked \/ \E s \in Targets(u) : chan[s] = "closed")
    /\ UNCHANGED <<registered, chan>>

\* unsubscribe, first half: delete from the map under the lock ...
Deregister(s) ==
    /\ registered' = registered \ {s}
    /\ UNCHANGED <<chan, buf, panicked>>

\* ... second half: close the channel, no lock held.
CloseChan(s) ==
    /\ chan' = [chan EXCEPT ![s] = "closed"]
    /\ UNCHANGED <<registered, buf, panicked>>

\* The write loop takes the oldest event.
Receive(s) ==
    /\ buf[s] # <<>>
    /\ buf' = [buf EXCEPT ![s] = Tail(@)]
    /\ UNCHANGED <<registered, chan, panicked>>

\* HasSubscribers, the presence test.
HasSubscribers(u) == Targets(u) # {}

-----------------------------------------------------------------------------
(* bus.go closes the channel only after the subscription left the map, and *)
(* Publish only visits the map: no publisher can ever send on a closed     *)
(* channel, whatever the interleaving of Publish and unsubscribe.          *)
NoSendOnClosed == ~panicked
=============================================================================
