-------------------------- MODULE RealtimeHubProofs --------------------------
(***************************************************************************)
(* Proofs about the bus on its own, for any set of users and subscriptions *)
(* and any channel capacity; about the hub on top of it, for any number of *)
(* users, connections and rooms and any limits; and about the two uses of  *)
(* the bus side by side.                                                   *)
(***************************************************************************)
EXTENDS MCHubAndBus, FiniteSetTheorems, TLAPS

-----------------------------------------------------------------------------
(* The bus on its own.                                                     *)

(* A registered channel is open: the order delete-then-close of            *)
(* unsubscribe as a state predicate.                                       *)
RegisteredIsOpen == \A s \in registered : chan[s] = "open"

(* The inductive invariant: types, the register/close protocol, and the    *)
(* order of the buffers together with "everything seen is in the past".    *)
IInv ==
    /\ OrderTypeOK
    /\ RegisteredIsOpen
    /\ NoSendOnClosed
    /\ \A s \in Subs : got[s] < next
    /\ InOrder

-----------------------------------------------------------------------------
(* Appending a larger element keeps a sequence of numbers increasing and   *)
(* within its bounds (the accepted half of Publish).                       *)
LEMMA AppendOrdered ==
    ASSUME NEW q \in Seq(Nat), NEW lo \in Nat, NEW n \in Nat, lo < n,
           \A i \in 1..Len(q) : lo < q[i] /\ q[i] < n,
           \A i, j \in 1..Len(q) : i < j => q[i] < q[j]
    PROVE  /\ \A i \in 1..Len(Append(q, n)) :
                 lo < Append(q, n)[i] /\ Append(q, n)[i] < n + 1
           /\ \A i, j \in 1..Len(Append(q, n)) :
                 i < j => Append(q, n)[i] < Append(q, n)[j]
  <1>1. Len(Append(q, n)) = Len(q) + 1 /\ Len(q) \in Nat
    OBVIOUS
  <1>2. Append(q, n)[Len(q) + 1] = n
    OBVIOUS
  <1>3. \A i \in 1..Len(q) : Append(q, n)[i] = q[i] /\ q[i] \in Nat
    OBVIOUS
  <1> QED
    BY <1>1, <1>2, <1>3

(* Removing the head of an increasing sequence leaves an increasing        *)
(* sequence whose elements are above the removed head (Receive).           *)
LEMMA TailOrdered ==
    ASSUME NEW q \in Seq(Nat), q # <<>>, NEW n \in Nat,
           \A i \in 1..Len(q) : q[i] < n,
           \A i, j \in 1..Len(q) : i < j => q[i] < q[j]
    PROVE  /\ Head(q) \in Nat
           /\ Head(q) < n
           /\ \A i \in 1..Len(Tail(q)) :
                 Head(q) < Tail(q)[i] /\ Tail(q)[i] < n
           /\ \A i, j \in 1..Len(Tail(q)) :
                 i < j => Tail(q)[i] < Tail(q)[j]
  <1>1. Len(q) \in Nat /\ Len(q) > 0 /\ Len(Tail(q)) = Len(q) - 1
    OBVIOUS
  <1>2. Head(q) = q[1] /\ q[1] \in Nat
    BY <1>1
  <1>3. \A i \in 1..Len(Tail(q)) : Tail(q)[i] = q[i + 1] /\ q[i + 1] \in Nat
    BY <1>1
  <1> QED
    BY <1>1, <1>2, <1>3

-----------------------------------------------------------------------------
LEMMA InitIInv == OrderInit => IInv
  <1> SUFFICES ASSUME OrderInit PROVE IInv
    OBVIOUS
  <1> USE DEF OrderInit, BusInit
  <1>1. \A s \in Subs : buf[s] = <<>> /\ Len(buf[s]) = 0
    OBVIOUS
  <1>2. OrderTypeOK
    <2>1. buf \in [Subs -> Seq(Nat)]
      OBVIOUS
    <2>2. panicked \in BOOLEAN
      BY Zenon
    <2> QED
      BY <1>1, <2>1, <2>2, BusAssumption DEF OrderTypeOK, BusTypeOK
  <1>3. RegisteredIsOpen
    BY DEF RegisteredIsOpen
  <1>4. NoSendOnClosed
    BY Zenon DEF NoSendOnClosed
  <1>5. InOrder
    BY <1>1 DEF InOrder
  <1> QED
    BY <1>1, <1>2, <1>3, <1>4, <1>5, BusAssumption DEF IInv

LEMMA EmitIInv == ASSUME IInv, NEW u \in Users, Emit(u) PROVE IInv'
  <1> USE DEF IInv, OrderTypeOK, BusTypeOK
  <1>1. next' = next + 1 /\ UNCHANGED <<got, registered, chan>>
    BY DEF Emit, Publish
  <1>2. OrderTypeOK'
    <2>1. buf' \in [Subs -> Seq(Nat)]
      BY DEF Emit, Publish
    <2>2. \A s \in Subs : Len(buf'[s]) <= BufferCap
      BY BusAssumption DEF Emit, Publish
    <2>3. panicked' \in BOOLEAN
      BY DEF Emit, Publish
    <2> QED
      BY <1>1, <2>1, <2>2, <2>3
  <1>3. RegisteredIsOpen'
    BY <1>1 DEF RegisteredIsOpen
  <1>4. NoSendOnClosed'
    BY DEF Emit, Publish, Targets, RegisteredIsOpen, NoSendOnClosed
  <1>5. \A s \in Subs : got'[s] < next'
    BY <1>1
  <1>6. InOrder'
    <2> SUFFICES ASSUME NEW s \in Subs
                 PROVE  /\ \A i \in 1..Len(buf'[s]) : got[s] < buf'[s][i] /\ buf'[s][i] < next + 1
                        /\ \A i, j \in 1..Len(buf'[s]) : i < j => buf'[s][i] < buf'[s][j]
      BY <1>1 DEF InOrder
    <2>1. buf[s] \in Seq(Nat) /\ got[s] \in Nat /\ next \in Nat /\ got[s] < next
      OBVIOUS
    <2>2. CASE buf'[s] = Append(buf[s], next)
      BY <2>1, <2>2, AppendOrdered DEF InOrder
    <2>3. CASE buf'[s] = buf[s]
      <3>1. \A i \in 1..Len(buf[s]) : buf[s][i] \in Nat
        BY <2>1
      <3> QED
        BY <2>1, <2>3, <3>1 DEF InOrder
    <2> QED
      BY <2>2, <2>3 DEF Emit, Publish
  <1> QED
    BY <1>2, <1>3, <1>4, <1>5, <1>6

LEMMA TakeIInv == ASSUME IInv, NEW s \in Subs, Take(s) PROVE IInv'
  <1> USE DEF IInv, OrderTypeOK, BusTypeOK
  <1>1. UNCHANGED <<next, registered, chan, panicked>> /\ buf[s] # <<>>
    BY DEF Take, Receive
  <1>2. /\ buf' = [buf EXCEPT ![s] = Tail(buf[s])]
        /\ got' = [got EXCEPT ![s] = Head(buf[s])]
    BY DEF Take, Receive
  <1>3. /\ Head(buf[s]) \in Nat /\ Head(buf[s]) < next
        /\ \A i \in 1..Len(Tail(buf[s])) :
              Head(buf[s]) < Tail(buf[s])[i] /\ Tail(buf[s])[i] < next
        /\ \A i, j \in 1..Len(Tail(buf[s])) :
              i < j => Tail(buf[s])[i] < Tail(buf[s])[j]
    BY <1>1, TailOrdered DEF InOrder
  <1>4. OrderTypeOK'
    <2>1. \A t \in Subs : Len(buf'[t]) <= BufferCap
      BY <1>1, <1>2, BusAssumption
    <2>2. buf' \in [Subs -> Seq(Nat)]
      BY <1>1, <1>2
    <2> QED
      BY <1>1, <1>2, <1>3, <2>1, <2>2
  <1>5. RegisteredIsOpen' /\ NoSendOnClosed'
    BY <1>1 DEF RegisteredIsOpen, NoSendOnClosed
  <1>6. \A t \in Subs : got'[t] < next'
    BY <1>1, <1>2, <1>3
  <1>7. InOrder'
    BY <1>1, <1>2, <1>3 DEF InOrder
  <1> QED
    BY <1>4, <1>5, <1>6, <1>7

LEMMA NextIInv == IInv /\ [OrderNext]_orderVars => IInv'
  <1> SUFFICES ASSUME IInv, [OrderNext]_orderVars PROVE IInv'
    OBVIOUS
  <1>1. ASSUME NEW s \in Subs, Open(s) PROVE IInv'
    BY <1>1 DEF Open, Subscribe, IInv, OrderTypeOK, BusTypeOK, RegisteredIsOpen, NoSendOnClosed, InOrder
  <1>2. ASSUME NEW s \in Subs, Take(s) PROVE IInv'
    BY <1>2, TakeIInv
  <1>3. ASSUME NEW s \in Subs, Remove(s) PROVE IInv'
    BY <1>3 DEF Remove, Deregister, IInv, OrderTypeOK, BusTypeOK, RegisteredIsOpen, NoSendOnClosed, InOrder
  <1>4. ASSUME NEW s \in Subs, Close(s) PROVE IInv'
    BY <1>4 DEF Close, CloseChan, IInv, OrderTypeOK, BusTypeOK, RegisteredIsOpen, NoSendOnClosed, InOrder
  <1>5. ASSUME NEW u \in Users, Emit(u) PROVE IInv'
    BY <1>5, EmitIInv
  <1>6. CASE UNCHANGED orderVars
    BY <1>6 DEF orderVars, busVars, IInv, OrderTypeOK, BusTypeOK, RegisteredIsOpen, NoSendOnClosed, InOrder
  <1> QED
    BY <1>1, <1>2, <1>3, <1>4, <1>5, <1>6 DEF OrderNext

LEMMA Inductive == OrderSpec => []IInv
  BY InitIInv, NextIInv, PTL DEF OrderSpec

-----------------------------------------------------------------------------
(* Types of the bus state.                                                 *)
THEOREM BusTypes == OrderSpec => []OrderTypeOK
  BY Inductive, PTL DEF IInv

(* bus.go: no interleaving of Publish and unsubscribe sends on a closed    *)
(* channel.                                                                *)
THEOREM BusNeverPanics == OrderSpec => []NoSendOnClosed
  BY Inductive, PTL DEF IInv

(* bus.go: every subscriber receives a subsequence of the events of its    *)
(* user, in publication order and without repetition.                      *)
THEOREM BusDeliversInOrder == OrderSpec => []InOrder
  BY Inductive, PTL DEF IInv

(* One step of the bus never grows a buffer past the capacity nor gives an *)
(* event to a subscription that has left the map.                          *)
LEMMA StepQuiet ==
    ASSUME IInv, [OrderNext]_orderVars, NEW s \in Subs
    PROVE  /\ Len(buf'[s]) <= BufferCap
           /\ s \notin registered => Len(buf'[s]) <= Len(buf[s])
  <1> USE DEF IInv, OrderTypeOK, BusTypeOK
  <1>1. Len(buf'[s]) <= BufferCap
    BY NextIInv
  <1>2. Len(buf[s]) \in Nat
    OBVIOUS
  <1>3. ASSUME NEW u \in Users, Emit(u), s \notin registered
        PROVE  Len(buf'[s]) <= Len(buf[s])
    BY <1>2, <1>3 DEF Emit, Publish, Targets
  <1>4. ASSUME NEW t \in Subs, Take(t)
        PROVE  Len(buf'[s]) <= Len(buf[s])
    <2>1. CASE s = t
      BY <1>2, <1>4, <2>1 DEF Take, Receive
    <2>2. CASE s # t
      BY <1>2, <1>4, <2>2 DEF Take, Receive
    <2> QED
      BY <2>1, <2>2
  <1>5. ASSUME UNCHANGED buf PROVE Len(buf'[s]) <= Len(buf[s])
    BY <1>2, <1>5
  <1> QED
    BY <1>1, <1>3, <1>4, <1>5
       DEF OrderNext, orderVars, busVars, Open, Subscribe, Remove, Deregister, Close, CloseChan

(* bus.go: buffers stay within the capacity and removed subscriptions stay *)
(* silent.                                                                 *)
THEOREM BusBoundedAndQuiet == OrderSpec => BoundedAndQuiet
  <1>1. IInv /\ [OrderNext]_orderVars
        => [\A s \in Subs : /\ Len(buf'[s]) <= BufferCap
                            /\ s \notin registered => Len(buf'[s]) <= Len(buf[s])]_orderVars
    BY StepQuiet
  <1> QED
    BY <1>1, Inductive, PTL DEF OrderSpec, BoundedAndQuiet

-----------------------------------------------------------------------------
(* The hub.                                                                *)

(* The bus only knows connections whose cleanup has not run unsub yet, and *)
(* their channels are open.                                                *)
RegisteredRun ==
    \A c \in registered : chan[c] = "open" /\ pc[<<c, "main">>] \in {"loop", "delete"}

(* A handler that is past its first critical section knows its room.       *)
RoomKnown ==
    \A t \in Threads : pc[t] \in {"subscribe", "unsubscribe", "gate", "snapshot"}
                          => loc[t].room \in Rooms

(* cn.rooms is nil only once cleanupConnRooms has taken it.                *)
NilOnlyInCleanup ==
    \A c \in Subs : rooms[c] = Nil =>
        pc[<<c, "main">>] \in {"drop", "persist", "publish", "release", "wsclose", "gone"}

(* There is no reader before handle has started one.                       *)
ReaderStarted ==
    \A c \in Subs : pc[<<c, "main">>] \in {"new", "upgrade"} => pc[<<c, "read">>] = "none"

HubInv ==
    /\ TypeOK
    /\ RegisteredRun
    /\ NoSendOnClosed
    /\ RoomKnown
    /\ NilOnlyInCleanup
    /\ ReaderStarted

-----------------------------------------------------------------------------
LEMMA ThreadFacts ==
    ASSUME NEW c \in Subs, NEW d \in Subs
    PROVE  /\ <<c, "main">> \in Threads /\ <<c, "read">> \in Threads
           /\ <<c, "main">> = <<d, "main">> => c = d
           /\ <<c, "read">> = <<d, "read">> => c = d
           /\ <<c, "main">> # <<d, "read">>
  BY DEF Threads

LEMMA CountType == ASSUME NEW S \in SUBSET Users PROVE Cardinality(S) \in Nat
  BY HubAssumption, FS_Subset, FS_CardinalityType

LEMMA PublishTypes ==
    ASSUME BusTypeOK(Events), NEW u \in Users, NEW ev \in Events, Publish(u, ev)
    PROVE  BusTypeOK(Events)'
  <1>1. buf' \in [Subs -> Seq(Events)]
    BY DEF BusTypeOK, Publish
  <1>2. \A s \in Subs : Len(buf'[s]) <= BufferCap
    BY BusAssumption DEF BusTypeOK, Publish
  <1>3. panicked' \in BOOLEAN
    BY DEF BusTypeOK, Publish
  <1> QED
    BY <1>1, <1>2, <1>3 DEF BusTypeOK, Publish

LEMMA ReleaseTypes ==
    ASSUME connCount \in [Users -> Nat], NEW u \in Users, ReleaseSlot(u)
    PROVE  connCount' \in [Users -> Nat]
  BY DEF ReleaseSlot

LEMMA GotoTypes ==
    ASSUME pc \in [Threads -> MainPc \cup ReadPc], NEW t \in Threads,
           NEW w \in MainPc \cup ReadPc, Goto(t, w)
    PROVE  pc' \in [Threads -> MainPc \cup ReadPc]
  BY DEF Goto

LEMMA RemoveTypes ==
    ASSUME TypeOK, NEW t \in Threads, NEW u \in Users, NEW r \in Rooms,
           NEW after \in MainPc \cup ReadPc, RemoveLiveSub(t, u, r, after)
    PROVE  /\ liveSubs' \in [Rooms -> SUBSET Users]
           /\ loc' \in [Threads -> Locals]
           /\ pc' \in [Threads -> MainPc \cup ReadPc]
  <1> DEFINE others == liveSubs[r] \ {u}
  <1>1. others \in SUBSET Users /\ Cardinality(others) \in Nat
    BY CountType DEF TypeOK
  <1>2. liveSubs' \in [Rooms -> SUBSET Users]
    BY <1>1 DEF TypeOK, RemoveLiveSub
  <1>3. "persist" \in MainPc \cup ReadPc
    BY DEF MainPc
  <1>4. pc' \in [Threads -> MainPc \cup ReadPc]
    BY <1>3, GotoTypes DEF TypeOK, RemoveLiveSub
  <1>5. [room |-> r, count |-> Cardinality(others), to |-> others, ev |-> "viewer.count"]
           \in Locals
    BY <1>1 DEF Locals, Events
  <1>6. loc' \in [Threads -> Locals]
    BY <1>5 DEF TypeOK, RemoveLiveSub
  <1> QED
    BY <1>2, <1>4, <1>6

LEMMA StepTypes == ASSUME HubInv, [Next]_vars PROVE TypeOK'
  <1>0. TypeOK /\ RoomKnown /\ NilOnlyInCleanup
    BY DEF HubInv
  <1> USE ThreadFacts, HubAssumption, BusAssumption
      DEF TypeOK, BusTypeOK, Locals, NoLocals, MainPc, ReadPc, Events, Goto, busVars, connVars
  <1>1. ASSUME NEW c \in Subs, Accept(c) PROVE TypeOK'
    <2>1. connCount' \in [Users -> Nat]
      <3>1. \/ connCount' = connCount
            \/ connCount' = [connCount EXCEPT ![UserOf[c]] = connCount[UserOf[c]] + 1]
        BY <1>1 DEF Accept
      <3>2. connCount \in [Users -> Nat] /\ UserOf[c] \in Users
        BY <1>0
      <3> QED
        BY ONLY <3>1, <3>2
    <2> QED
      BY <2>1, <1>1, <1>0 DEF Accept
  <1>2. ASSUME NEW c \in Subs, UpgradeFails(c) PROVE TypeOK'
    <2>1. connCount' \in [Users -> Nat]
      BY <1>2, <1>0, ReleaseTypes DEF UpgradeFails
    <2> QED
      BY <2>1, <1>2, <1>0 DEF UpgradeFails
  <1>3. ASSUME NEW c \in Subs, Start(c) PROVE TypeOK'
    BY <1>3, <1>0 DEF Start, Subscribe
  <1>4. ASSUME NEW c \in Subs, WriteEvent(c) PROVE TypeOK'
    BY <1>4, <1>0 DEF WriteEvent, Receive
  <1>5. ASSUME NEW c \in Subs, StopSeen(c) PROVE TypeOK'
    BY <1>5, <1>0 DEF StopSeen
  <1>6. ASSUME NEW c \in Subs, ExpireOrWriteFails(c) PROVE TypeOK'
    BY <1>6, <1>0 DEF ExpireOrWriteFails
  <1>7. ASSUME NEW c \in Subs, UnsubDelete(c) PROVE TypeOK'
    BY <1>7, <1>0 DEF UnsubDelete, Deregister
  <1>8. ASSUME NEW c \in Subs, UnsubClose(c) PROVE TypeOK'
    <2>1. buf' \in [Subs -> Seq(Events)]
      BY <1>8, <1>0 DEF UnsubClose
    <2>2. chan' \in [Subs -> {"none", "open", "closed"}]
      BY <1>8, <1>0 DEF UnsubClose
    <2>3. \A s \in Subs : Len(buf'[s]) <= BufferCap
      BY <1>8, <1>0 DEF UnsubClose
    <2> QED
      BY <2>1, <2>2, <2>3, <1>8, <1>0 DEF UnsubClose
  <1>9. ASSUME NEW c \in Subs, TakeRooms(c) PROVE TypeOK'
    <2>1. rooms[c] \in SUBSET Rooms
      BY <1>9, <1>0 DEF TakeRooms, NilOnlyInCleanup
    <2>2. left' \in [Subs -> SUBSET Rooms] /\ rooms' \in [Subs -> {Nil} \cup SUBSET Rooms]
      BY <2>1, <1>9, <1>0 DEF TakeRooms
    <2> QED
      BY <2>2, <1>9, <1>0 DEF TakeRooms
  <1>10. ASSUME NEW c \in Subs, DropRoom(c) PROVE TypeOK'
    <2>1. PICK r \in left[c] : /\ RemoveLiveSub(<<c, "main">>, UserOf[c], r, "drop")
                               /\ left' = [left EXCEPT ![c] = left[c] \ {r}]
      BY <1>10 DEF DropRoom
    <2>2. left' \in [Subs -> SUBSET Rooms] /\ r \in Rooms
      BY <2>1, <1>0
    <2>3. /\ liveSubs' \in [Rooms -> SUBSET Users] /\ loc' \in [Threads -> Locals]
          /\ pc' \in [Threads -> MainPc \cup ReadPc]
      BY <2>1, <2>2, <1>0, RemoveTypes
    <2> QED
      BY <2>2, <2>3, <1>10, <1>0 DEF DropRoom
  <1>11. ASSUME NEW c \in Subs, DropDone(c) PROVE TypeOK'
    BY <1>11, <1>0 DEF DropDone
  <1>12. ASSUME NEW c \in Subs, Release(c) PROVE TypeOK'
    <2>1. connCount' \in [Users -> Nat]
      BY <1>12, <1>0, ReleaseTypes DEF Release
    <2> QED
      BY <2>1, <1>12, <1>0 DEF Release
  <1>13. ASSUME NEW c \in Subs, CloseSocket(c) PROVE TypeOK'
    BY <1>13, <1>0 DEF CloseSocket
  <1>14. ASSUME NEW c \in Subs, ReadFails(c) PROVE TypeOK'
    BY <1>14, <1>0 DEF ReadFails, Reading
  <1>15. ASSUME NEW c \in Subs, NEW u \in Users, Notify(c, u) PROVE TypeOK'
    BY <1>15, <1>0 DEF Notify, Reading, Publish, Targets
  <1>16. ASSUME NEW c \in Subs, NEW r \in Rooms, SubscribePanics(c, r) PROVE TypeOK'
    BY <1>16, <1>0 DEF SubscribePanics, Reading, ProcessRestarts
  <1>17. ASSUME NEW c \in Subs, NEW r \in Rooms, SubscribeRoom(c, r) PROVE TypeOK'
    BY <1>17, <1>0 DEF SubscribeRoom, Reading
  <1>18. ASSUME NEW c \in Subs, NEW r \in Rooms, UnsubscribeRoom(c, r) PROVE TypeOK'
    BY <1>18, <1>0 DEF UnsubscribeRoom, Reading
  <1>19. ASSUME NEW c \in Subs, NEW r \in Rooms, DanmakuCheck(c, r) PROVE TypeOK'
    <2>1. BusTypeOK(Events)'
      BY <1>19, <1>0, PublishTypes DEF DanmakuCheck
    <2>2. loc' \in [Threads -> Locals]
      <3>1. [NoLocals EXCEPT !.room = r] \in Locals
        OBVIOUS
      <3>2. \/ loc' = [loc EXCEPT ![<<c, "read">>] = [NoLocals EXCEPT !.room = r]]
            \/ loc' = loc
        BY <1>19 DEF DanmakuCheck
      <3> HIDE DEF Locals, NoLocals
      <3> QED
        BY <3>1, <3>2, <1>0
    <2>3. pc' \in [Threads -> MainPc \cup ReadPc]
      BY <1>19, <1>0 DEF DanmakuCheck
    <2> QED
      BY <2>1, <2>2, <2>3, <1>19, <1>0 DEF DanmakuCheck
  <1>20. ASSUME NEW c \in Subs, SubscribeLive(c) PROVE TypeOK'
    <2> DEFINE t == <<c, "read">>
               now == liveSubs[loc[t].room] \cup {UserOf[c]}
    <2>1. t \in Threads /\ loc[t].room \in Rooms /\ UserOf[c] \in Users
      BY <1>20, <1>0 DEF SubscribeLive, RoomKnown
    <2>2. now \in SUBSET Users /\ Cardinality(now) \in Nat
      BY <2>1, <1>0, CountType
    <2>3. liveSubs' \in [Rooms -> SUBSET Users]
      BY <2>1, <2>2, <1>20, <1>0 DEF SubscribeLive
    <2>4. pc' \in [Threads -> MainPc \cup ReadPc]
      <3>1. \/ pc' = [pc EXCEPT ![t] = "persist"]
            \/ pc' = [pc EXCEPT ![t] = "idle"]
        BY <1>20 DEF SubscribeLive, Goto
      <3>2. pc \in [Threads -> MainPc \cup ReadPc] /\ t \in Threads
        BY <2>1, <1>0
      <3>3. "persist" \in MainPc \cup ReadPc /\ "idle" \in MainPc \cup ReadPc
        BY DEF MainPc, ReadPc
      <3> HIDE DEF t
      <3> QED
        BY ONLY <3>1, <3>2, <3>3
    <2>5. loc' \in [Threads -> Locals]
      <3>1. [room |-> loc[t].room, count |-> Cardinality(now), to |-> now, ev |-> "viewer.count"]
               \in Locals
        BY <2>1, <2>2
      <3>2. NoLocals \in Locals
        OBVIOUS
      <3>3. \/ loc' = [loc EXCEPT ![t] = [room |-> loc[t].room, count |-> Cardinality(now),
                                         to |-> now, ev |-> "viewer.count"]]
            \/ loc' = [loc EXCEPT ![t] = NoLocals]
        BY <1>20 DEF SubscribeLive
      <3> HIDE DEF now, Locals, NoLocals
      <3> QED
        BY <2>1, <3>1, <3>2, <3>3, <1>0
    <2> QED
      BY <2>3, <2>4, <2>5, <1>20, <1>0 DEF SubscribeLive
  <1>21. ASSUME NEW c \in Subs, UnsubscribeLive(c) PROVE TypeOK'
    <2>1. loc[<<c, "read">>].room \in Rooms
      BY <1>21, <1>0 DEF UnsubscribeLive, RoomKnown
    <2>2. /\ liveSubs' \in [Rooms -> SUBSET Users] /\ loc' \in [Threads -> Locals]
          /\ pc' \in [Threads -> MainPc \cup ReadPc]
      BY <2>1, <1>21, <1>0, RemoveTypes DEF UnsubscribeLive
    <2> QED
      BY <2>2, <1>21, <1>0 DEF UnsubscribeLive
  <1>22. ASSUME NEW c \in Subs, DanmakuVerdict(c) PROVE TypeOK'
    <2>1. BusTypeOK(Events)'
      BY <1>22, <1>0, PublishTypes DEF DanmakuVerdict
    <2>2. pc' \in [Threads -> MainPc \cup ReadPc]
      BY <1>22, <1>0 DEF DanmakuVerdict
    <2> QED
      BY <2>1, <2>2, <1>22, <1>0 DEF DanmakuVerdict
  <1>23. ASSUME NEW c \in Subs, DanmakuSnapshot(c) PROVE TypeOK'
    <2> DEFINE t == <<c, "read">>
    <2>1. t \in Threads /\ loc[t] \in Locals /\ loc[t].room \in Rooms
      BY <1>23, <1>0 DEF DanmakuSnapshot, RoomKnown
    <2>2. liveSubs[loc[t].room] \ {UserOf[c]} \in SUBSET Users
      BY <2>1, <1>0
    <2>3. loc' \in [Threads -> Locals]
      BY <2>1, <2>2, <1>23, <1>0 DEF DanmakuSnapshot
    <2>4. pc' \in [Threads -> MainPc \cup ReadPc]
      BY <2>1, <1>23, <1>0 DEF DanmakuSnapshot
    <2> QED
      BY <2>3, <2>4, <1>23, <1>0 DEF DanmakuSnapshot
  <1>24. ASSUME NEW t \in Threads, Persist(t) PROVE TypeOK'
    BY <1>24, <1>0 DEF Persist
  <1>25. ASSUME NEW t \in Threads, PublishOne(t) PROVE TypeOK'
    <2>1. PICK u \in loc[t].to : /\ Publish(u, loc[t].ev)
                                /\ loc' = [loc EXCEPT ![t].to = loc[t].to \ {u}]
      BY <1>25, <1>0 DEF PublishOne
    <2>2. loc[t] \in Locals /\ u \in Users /\ loc[t].ev \in Events
      BY <2>1, <1>0
    <2>3. BusTypeOK(Events)'
      BY <2>1, <2>2, <1>0, PublishTypes
    <2>4. loc' \in [Threads -> Locals]
      BY <2>1, <2>2, <1>0
    <2> QED
      BY <2>3, <2>4, <1>25, <1>0 DEF PublishOne
  <1>26. ASSUME NEW t \in Threads, PublishDone(t) PROVE TypeOK'
    BY <1>26, <1>0 DEF PublishDone
  <1>27. CASE Restart
    BY <1>27, <1>0 DEF Restart, ProcessRestarts
  <1>28. CASE UNCHANGED vars
    BY <1>28, <1>0 DEF vars, connVars, busVars
  <1> QED
    BY <1>1, <1>2, <1>3, <1>4, <1>5, <1>6, <1>7, <1>8, <1>9, <1>10, <1>11, <1>12, <1>13, <1>14, <1>15, <1>16, <1>17, <1>18, <1>19, <1>20, <1>21, <1>22, <1>23, <1>24, <1>25, <1>26, <1>27, <1>28
       DEF Next, Handle, WriteLoop, Cleanup, Frame, Handler, Fanout

LEMMA StepRegistered == ASSUME HubInv, [Next]_vars PROVE RegisteredRun' /\ NoSendOnClosed'
  <1>0. /\ registered \in SUBSET Subs /\ chan \in [Subs -> {"none", "open", "closed"}]
        /\ pc \in [Threads -> MainPc \cup ReadPc] /\ panicked = FALSE
        /\ RegisteredRun
    BY DEF HubInv, TypeOK, BusTypeOK, NoSendOnClosed
  <1> USE ThreadFacts DEF Goto, RegisteredRun, NoSendOnClosed, busVars, connVars
  <1>1. ASSUME NEW c \in Subs, Accept(c) PROVE RegisteredRun' /\ NoSendOnClosed'
    BY <1>1, <1>0 DEF Accept
  <1>2. ASSUME NEW c \in Subs, UpgradeFails(c) PROVE RegisteredRun' /\ NoSendOnClosed'
    BY <1>2, <1>0 DEF UpgradeFails, ReleaseSlot
  <1>3. ASSUME NEW c \in Subs, Start(c) PROVE RegisteredRun' /\ NoSendOnClosed'
    BY <1>3, <1>0 DEF Start, Subscribe
  <1>4. ASSUME NEW c \in Subs, WriteEvent(c) PROVE RegisteredRun' /\ NoSendOnClosed'
    BY <1>4, <1>0 DEF WriteEvent, Receive
  <1>5. ASSUME NEW c \in Subs, StopSeen(c) PROVE RegisteredRun' /\ NoSendOnClosed'
    BY <1>5, <1>0 DEF StopSeen
  <1>6. ASSUME NEW c \in Subs, ExpireOrWriteFails(c) PROVE RegisteredRun' /\ NoSendOnClosed'
    BY <1>6, <1>0 DEF ExpireOrWriteFails
  <1>7. ASSUME NEW c \in Subs, UnsubDelete(c) PROVE RegisteredRun' /\ NoSendOnClosed'
    BY <1>7, <1>0 DEF UnsubDelete, Deregister
  <1>8. ASSUME NEW c \in Subs, UnsubClose(c) PROVE RegisteredRun' /\ NoSendOnClosed'
    BY <1>8, <1>0 DEF UnsubClose
  <1>9. ASSUME NEW c \in Subs, TakeRooms(c) PROVE RegisteredRun' /\ NoSendOnClosed'
    BY <1>9, <1>0 DEF TakeRooms
  <1>10. ASSUME NEW c \in Subs, DropRoom(c) PROVE RegisteredRun' /\ NoSendOnClosed'
    BY <1>10, <1>0 DEF DropRoom, RemoveLiveSub
  <1>11. ASSUME NEW c \in Subs, DropDone(c) PROVE RegisteredRun' /\ NoSendOnClosed'
    BY <1>11, <1>0 DEF DropDone
  <1>12. ASSUME NEW c \in Subs, Release(c) PROVE RegisteredRun' /\ NoSendOnClosed'
    BY <1>12, <1>0 DEF Release, ReleaseSlot
  <1>13. ASSUME NEW c \in Subs, CloseSocket(c) PROVE RegisteredRun' /\ NoSendOnClosed'
    BY <1>13, <1>0 DEF CloseSocket
  <1>14. ASSUME NEW c \in Subs, ReadFails(c) PROVE RegisteredRun' /\ NoSendOnClosed'
    BY <1>14, <1>0 DEF ReadFails, Reading
  <1>15. ASSUME NEW c \in Subs, NEW u \in Users, Notify(c, u) PROVE RegisteredRun' /\ NoSendOnClosed'
    BY <1>15, <1>0 DEF Notify, Reading, Publish, Targets
  <1>16. ASSUME NEW c \in Subs, NEW r \in Rooms, SubscribePanics(c, r) PROVE RegisteredRun' /\ NoSendOnClosed'
    BY <1>16, <1>0 DEF SubscribePanics, Reading, ProcessRestarts
  <1>17. ASSUME NEW c \in Subs, NEW r \in Rooms, SubscribeRoom(c, r) PROVE RegisteredRun' /\ NoSendOnClosed'
    BY <1>17, <1>0 DEF SubscribeRoom, Reading
  <1>18. ASSUME NEW c \in Subs, NEW r \in Rooms, UnsubscribeRoom(c, r) PROVE RegisteredRun' /\ NoSendOnClosed'
    BY <1>18, <1>0 DEF UnsubscribeRoom, Reading
  <1>19. ASSUME NEW c \in Subs, NEW r \in Rooms, DanmakuCheck(c, r) PROVE RegisteredRun' /\ NoSendOnClosed'
    BY <1>19, <1>0 DEF DanmakuCheck, Reading, Publish, Targets
  <1>20. ASSUME NEW c \in Subs, SubscribeLive(c) PROVE RegisteredRun' /\ NoSendOnClosed'
    BY <1>20, <1>0 DEF SubscribeLive
  <1>21. ASSUME NEW c \in Subs, UnsubscribeLive(c) PROVE RegisteredRun' /\ NoSendOnClosed'
    BY <1>21, <1>0 DEF UnsubscribeLive, RemoveLiveSub
  <1>22. ASSUME NEW c \in Subs, DanmakuVerdict(c) PROVE RegisteredRun' /\ NoSendOnClosed'
    BY <1>22, <1>0 DEF DanmakuVerdict, Publish, Targets
  <1>23. ASSUME NEW c \in Subs, DanmakuSnapshot(c) PROVE RegisteredRun' /\ NoSendOnClosed'
    BY <1>23, <1>0 DEF DanmakuSnapshot
  <1>24. ASSUME NEW t \in Threads, Persist(t) PROVE RegisteredRun' /\ NoSendOnClosed'
    BY <1>24, <1>0 DEF Persist
  <1>25. ASSUME NEW t \in Threads, PublishOne(t) PROVE RegisteredRun' /\ NoSendOnClosed'
    BY <1>25, <1>0 DEF PublishOne, Publish, Targets
  <1>26. ASSUME NEW t \in Threads, PublishDone(t) PROVE RegisteredRun' /\ NoSendOnClosed'
    BY <1>26, <1>0 DEF PublishDone
  <1>27. CASE Restart
    BY <1>27, <1>0 DEF Restart, ProcessRestarts
  <1>28. CASE UNCHANGED vars
    BY <1>28, <1>0 DEF vars, connVars, busVars
  <1> QED
    BY <1>1, <1>2, <1>3, <1>4, <1>5, <1>6, <1>7, <1>8, <1>9, <1>10, <1>11, <1>12, <1>13, <1>14, <1>15, <1>16, <1>17, <1>18, <1>19, <1>20, <1>21, <1>22, <1>23, <1>24, <1>25, <1>26, <1>27, <1>28
       DEF Next, Handle, WriteLoop, Cleanup, Frame, Handler, Fanout

LEMMA RestartRooms ==
    ASSUME pc \in [Threads -> MainPc \cup ReadPc], RoomKnown, NilOnlyInCleanup, ReaderStarted, ProcessRestarts
    PROVE  RoomKnown' /\ NilOnlyInCleanup' /\ ReaderStarted'
  <1> DEFINE untouched == {c \in Subs : pc[<<c, "main">>] = "new"}
  <1>1. RoomKnown' /\ ReaderStarted'
    BY ThreadFacts DEF RoomKnown, ReaderStarted, ProcessRestarts, Threads
  <1>2. ASSUME NEW c \in Subs, rooms'[c] = Nil PROVE pc'[<<c, "main">>] = "gone"
    <2>1. c \notin untouched
      BY <1>2, HubAssumption DEF ProcessRestarts
    <2> QED
      BY <2>1, ThreadFacts DEF ProcessRestarts
  <1> QED
    BY <1>1, <1>2 DEF NilOnlyInCleanup

LEMMA StepRooms == ASSUME HubInv, [Next]_vars PROVE RoomKnown' /\ NilOnlyInCleanup' /\ ReaderStarted'
  <1>0. /\ pc \in [Threads -> MainPc \cup ReadPc] /\ loc \in [Threads -> Locals]
        /\ rooms \in [Subs -> {Nil} \cup SUBSET Rooms] /\ left \in [Subs -> SUBSET Rooms]
        /\ RoomKnown /\ NilOnlyInCleanup /\ ReaderStarted
    BY DEF HubInv, TypeOK
  <1> USE ThreadFacts, HubAssumption
      DEF Goto, RoomKnown, NilOnlyInCleanup, ReaderStarted, Locals, NoLocals, busVars, connVars
  <1>1. ASSUME NEW c \in Subs, Accept(c) PROVE RoomKnown' /\ NilOnlyInCleanup' /\ ReaderStarted'
    BY <1>1, <1>0 DEF Accept
  <1>2. ASSUME NEW c \in Subs, UpgradeFails(c) PROVE RoomKnown' /\ NilOnlyInCleanup' /\ ReaderStarted'
    BY <1>2, <1>0 DEF UpgradeFails, ReleaseSlot
  <1>3. ASSUME NEW c \in Subs, Start(c) PROVE RoomKnown' /\ NilOnlyInCleanup' /\ ReaderStarted'
    BY <1>3, <1>0 DEF Start, Subscribe
  <1>4. ASSUME NEW c \in Subs, WriteEvent(c) PROVE RoomKnown' /\ NilOnlyInCleanup' /\ ReaderStarted'
    BY <1>4, <1>0 DEF WriteEvent, Receive
  <1>5. ASSUME NEW c \in Subs, StopSeen(c) PROVE RoomKnown' /\ NilOnlyInCleanup' /\ ReaderStarted'
    BY <1>5, <1>0 DEF StopSeen
  <1>6. ASSUME NEW c \in Subs, ExpireOrWriteFails(c) PROVE RoomKnown' /\ NilOnlyInCleanup' /\ ReaderStarted'
    BY <1>6, <1>0 DEF ExpireOrWriteFails
  <1>7. ASSUME NEW c \in Subs, UnsubDelete(c) PROVE RoomKnown' /\ NilOnlyInCleanup' /\ ReaderStarted'
    BY <1>7, <1>0 DEF UnsubDelete, Deregister
  <1>8. ASSUME NEW c \in Subs, UnsubClose(c) PROVE RoomKnown' /\ NilOnlyInCleanup' /\ ReaderStarted'
    BY <1>8, <1>0 DEF UnsubClose
  <1>9. ASSUME NEW c \in Subs, TakeRooms(c) PROVE RoomKnown' /\ NilOnlyInCleanup' /\ ReaderStarted'
    BY <1>9, <1>0 DEF TakeRooms
  <1>10. ASSUME NEW c \in Subs, DropRoom(c) PROVE RoomKnown' /\ NilOnlyInCleanup' /\ ReaderStarted'
    <2>1. PICK r \in left[c] : RemoveLiveSub(<<c, "main">>, UserOf[c], r, "drop")
      BY <1>10 DEF DropRoom
    <2>2. /\ rooms' = rooms
          /\ pc' \in {[pc EXCEPT ![<<c, "main">>] = "persist"], [pc EXCEPT ![<<c, "main">>] = "drop"]}
          /\ \A t \in Threads : t # <<c, "main">> => loc'[t] = loc[t]
      BY <2>1, <1>10, <1>0 DEF DropRoom, RemoveLiveSub
    <2>3. RoomKnown'
      BY <2>2, <1>0
    <2>4. NilOnlyInCleanup' /\ ReaderStarted'
      BY <2>2, <1>10, <1>0 DEF DropRoom
    <2> QED
      BY <2>3, <2>4
  <1>11. ASSUME NEW c \in Subs, DropDone(c) PROVE RoomKnown' /\ NilOnlyInCleanup' /\ ReaderStarted'
    BY <1>11, <1>0 DEF DropDone
  <1>12. ASSUME NEW c \in Subs, Release(c) PROVE RoomKnown' /\ NilOnlyInCleanup' /\ ReaderStarted'
    BY <1>12, <1>0 DEF Release, ReleaseSlot
  <1>13. ASSUME NEW c \in Subs, CloseSocket(c) PROVE RoomKnown' /\ NilOnlyInCleanup' /\ ReaderStarted'
    BY <1>13, <1>0 DEF CloseSocket
  <1>14. ASSUME NEW c \in Subs, ReadFails(c) PROVE RoomKnown' /\ NilOnlyInCleanup' /\ ReaderStarted'
    BY <1>14, <1>0 DEF ReadFails, Reading
  <1>15. ASSUME NEW c \in Subs, NEW u \in Users, Notify(c, u) PROVE RoomKnown' /\ NilOnlyInCleanup' /\ ReaderStarted'
    BY <1>15, <1>0 DEF Notify, Reading, Publish, Targets
  <1>16. ASSUME NEW c \in Subs, NEW r \in Rooms, SubscribePanics(c, r) PROVE RoomKnown' /\ NilOnlyInCleanup' /\ ReaderStarted'
    BY <1>16, <1>0, RestartRooms DEF SubscribePanics
  <1>17. ASSUME NEW c \in Subs, NEW r \in Rooms, SubscribeRoom(c, r) PROVE RoomKnown' /\ NilOnlyInCleanup' /\ ReaderStarted'
    BY <1>17, <1>0 DEF SubscribeRoom, Reading
  <1>18. ASSUME NEW c \in Subs, NEW r \in Rooms, UnsubscribeRoom(c, r) PROVE RoomKnown' /\ NilOnlyInCleanup' /\ ReaderStarted'
    BY <1>18, <1>0 DEF UnsubscribeRoom, Reading
  <1>19. ASSUME NEW c \in Subs, NEW r \in Rooms, DanmakuCheck(c, r) PROVE RoomKnown' /\ NilOnlyInCleanup' /\ ReaderStarted'
    <2>1. \/ /\ loc' = [loc EXCEPT ![<<c, "read">>] = [NoLocals EXCEPT !.room = r]]
             /\ pc' = [pc EXCEPT ![<<c, "read">>] = "gate"]
          \/ UNCHANGED <<loc, pc>>
      BY <1>19 DEF DanmakuCheck
    <2>2. rooms' = rooms /\ pc[<<c, "read">>] = "idle"
      BY <1>19 DEF DanmakuCheck, Reading
    <2>3. [NoLocals EXCEPT !.room = r].room = r
      OBVIOUS
    <2>4. RoomKnown'
      BY <2>1, <2>3, <1>0
    <2> QED
      BY <2>1, <2>2, <2>4, <1>0
  <1>20. ASSUME NEW c \in Subs, SubscribeLive(c) PROVE RoomKnown' /\ NilOnlyInCleanup' /\ ReaderStarted'
    BY <1>20, <1>0 DEF SubscribeLive
  <1>21. ASSUME NEW c \in Subs, UnsubscribeLive(c) PROVE RoomKnown' /\ NilOnlyInCleanup' /\ ReaderStarted'
    BY <1>21, <1>0 DEF UnsubscribeLive, RemoveLiveSub
  <1>22. ASSUME NEW c \in Subs, DanmakuVerdict(c) PROVE RoomKnown' /\ NilOnlyInCleanup' /\ ReaderStarted'
    BY <1>22, <1>0 DEF DanmakuVerdict, Publish, Targets
  <1>23. ASSUME NEW c \in Subs, DanmakuSnapshot(c) PROVE RoomKnown' /\ NilOnlyInCleanup' /\ ReaderStarted'
    BY <1>23, <1>0 DEF DanmakuSnapshot
  <1>24. ASSUME NEW t \in Threads, Persist(t) PROVE RoomKnown' /\ NilOnlyInCleanup' /\ ReaderStarted'
    BY <1>24, <1>0 DEF Persist
  <1>25. ASSUME NEW t \in Threads, PublishOne(t) PROVE RoomKnown' /\ NilOnlyInCleanup' /\ ReaderStarted'
    BY <1>25, <1>0 DEF PublishOne, Publish, Targets
  <1>26. ASSUME NEW t \in Threads, PublishDone(t) PROVE RoomKnown' /\ NilOnlyInCleanup' /\ ReaderStarted'
    BY <1>26, <1>0 DEF PublishDone
  <1>27. CASE Restart
    BY <1>27, <1>0, RestartRooms DEF Restart
  <1>28. CASE UNCHANGED vars
    BY <1>28, <1>0 DEF vars, connVars, busVars
  <1> QED
    BY <1>1, <1>2, <1>3, <1>4, <1>5, <1>6, <1>7, <1>8, <1>9, <1>10, <1>11, <1>12, <1>13, <1>14, <1>15, <1>16, <1>17, <1>18, <1>19, <1>20, <1>21, <1>22, <1>23, <1>24, <1>25, <1>26, <1>27, <1>28
       DEF Next, Handle, WriteLoop, Cleanup, Frame, Handler, Fanout

-----------------------------------------------------------------------------
\* The connection slots.

\* Holding as a function of pc, so that it can be compared between states.
Idle(p, c) == p[<<c, "main">>] \in {"new", "wsclose", "gone"}
Holders(p, u) == {c \in Subs : UserOf[c] = u /\ ~Idle(p, c)}

LEMMA SlotsForm ==
    /\ SlotsMatch <=> \A u \in Users : /\ connCount[u] = Cardinality(Holders(pc, u))
                                      /\ connCount[u] <= MaxConnsPerUser
    /\ SlotsMatch' <=> \A u \in Users : /\ connCount'[u] = Cardinality(Holders(pc', u))
                                       /\ connCount'[u] <= MaxConnsPerUser
  <1>1. \A u : Holding(u) = Holders(pc, u)
    BY DEF Holding, Holders, Idle
  <1>2. \A u : Holding(u)' = Holders(pc', u)
    BY DEF Holding, Holders, Idle
  <1> QED
    BY <1>1, <1>2 DEF SlotsMatch, Holding, Holders, Idle

LEMMA HoldersFinite ==
    ASSUME NEW p, NEW u
    PROVE  IsFiniteSet(Holders(p, u)) /\ Cardinality(Holders(p, u)) \in Nat
  BY HubAssumption, FS_Subset, FS_CardinalityType DEF Holders

(* Steps that move no connection into or out of a slot.                    *)
LEMMA SlotsSame ==
    ASSUME SlotsMatch, UNCHANGED connCount, \A d \in Subs : Idle(pc', d) <=> Idle(pc, d)
    PROVE  SlotsMatch'
  <1>1. \A u : Holders(pc', u) = Holders(pc, u)
    BY DEF Holders
  <1> QED
    BY <1>1, SlotsForm

(* A connection that holds a slot gives it back.                           *)
LEMMA SlotGivenBack ==
    ASSUME SlotsMatch, connCount \in [Users -> Nat], pc \in [Threads -> MainPc \cup ReadPc],
           NEW c \in Subs, pc[<<c, "main">>] \in {"upgrade", "release"},
           NEW w \in {"gone", "wsclose"}, Goto(<<c, "main">>, w), ReleaseSlot(UserOf[c])
    PROVE  SlotsMatch'
  <1> DEFINE o == UserOf[c]
  <1>1. o \in Users
    BY BusAssumption
  <1>2. /\ Holders(pc', o) = Holders(pc, o) \ {c} /\ c \in Holders(pc, o)
        /\ \A u \in Users \ {o} : Holders(pc', u) = Holders(pc, u)
    BY ThreadFacts DEF Goto, Holders, Idle
  <1>3. connCount' = [connCount EXCEPT ![o] = IF connCount[o] > 0 THEN connCount[o] - 1 ELSE 0]
    BY DEF ReleaseSlot
  <1> HIDE DEF o
  <1>4. IsFiniteSet(Holders(pc, o)) /\ Cardinality(Holders(pc, o)) \in Nat
    BY HoldersFinite
  <1>5. Cardinality(Holders(pc, o) \ {c}) = Cardinality(Holders(pc, o)) - 1
    BY <1>2, <1>4, FS_RemoveElement
  <1>6. Cardinality(Holders(pc, o)) # 0
    BY <1>2, <1>4, FS_EmptySet
  <1>7. /\ connCount[o] = Cardinality(Holders(pc, o)) /\ connCount[o] <= MaxConnsPerUser
        /\ \A u \in Users : /\ connCount[u] = Cardinality(Holders(pc, u))
                             /\ connCount[u] <= MaxConnsPerUser
    BY <1>1, SlotsForm
  <1>8. connCount'[o] = Cardinality(Holders(pc', o)) /\ connCount'[o] <= MaxConnsPerUser
    BY <1>1, <1>2, <1>3, <1>4, <1>5, <1>6, <1>7, HubAssumption
  <1>9. \A u \in Users \ {o} : /\ connCount'[u] = Cardinality(Holders(pc', u))
                               /\ connCount'[u] <= MaxConnsPerUser
    BY <1>2, <1>3, <1>7
  <1> QED
    BY <1>8, <1>9, SlotsForm

LEMMA SlotsRestart ==
    ASSUME pc \in [Threads -> MainPc \cup ReadPc], ProcessRestarts
    PROVE  SlotsMatch'
  <1>1. \A c \in Subs : Idle(pc', c)
    BY ThreadFacts DEF ProcessRestarts, Idle
  <1>2. \A u : Holders(pc', u) = {}
    BY <1>1 DEF Holders
  <1>3. \A u \in Users : connCount'[u] = 0
    BY DEF ProcessRestarts
  <1> QED
    BY <1>2, <1>3, FS_EmptySet, SlotsForm, HubAssumption

LEMMA StepSlots == ASSUME HubInv, SlotsMatch, [Next]_vars PROVE SlotsMatch'
  <1>0. /\ connCount \in [Users -> Nat] /\ pc \in [Threads -> MainPc \cup ReadPc]
        /\ SlotsMatch
    BY DEF HubInv, TypeOK
  <1> USE ThreadFacts DEF Goto, busVars, connVars
  <1>1. ASSUME NEW c \in Subs, Accept(c) PROVE SlotsMatch'
    <2>1. CASE connCount' = connCount
      <3>0. connCount[UserOf[c]] \in Nat /\ connCount[UserOf[c]] + 1 # connCount[UserOf[c]]
        BY <1>0, BusAssumption
      <3>1. pc' = [pc EXCEPT ![<<c, "main">>] = "gone"] /\ pc[<<c, "main">>] = "new"
        BY <2>1, <3>0, <1>1, <1>0, BusAssumption DEF Accept
      <3>2. \A d \in Subs : Idle(pc', d) <=> Idle(pc, d)
        BY <3>1, <1>0 DEF Idle
      <3> QED
        BY <3>2, <2>1, <1>0, SlotsSame
    <2>2. CASE connCount' # connCount
      <3> DEFINE o == UserOf[c]
      <3>1. /\ connCount[o] < MaxConnsPerUser
            /\ connCount' = [connCount EXCEPT ![o] = connCount[o] + 1]
            /\ pc' = [pc EXCEPT ![<<c, "main">>] = "upgrade"]
            /\ pc[<<c, "main">>] = "new"
        BY <2>2, <1>1 DEF Accept
      <3>2. /\ Holders(pc', o) = Holders(pc, o) \cup {c}
            /\ c \notin Holders(pc, o)
            /\ \A u \in Users \ {o} : Holders(pc', u) = Holders(pc, u)
        BY <3>1, <1>0 DEF Holders, Idle
      <3>3. o \in Users
        BY BusAssumption
      <3> HIDE DEF o
      <3>4. IsFiniteSet(Holders(pc, o)) /\ Cardinality(Holders(pc, o)) \in Nat
        BY HoldersFinite
      <3>5. Cardinality(Holders(pc, o) \cup {c}) = Cardinality(Holders(pc, o)) + 1
        BY <3>2, <3>4, FS_AddElement
      <3>6. \A u \in Users : /\ connCount[u] = Cardinality(Holders(pc, u))
                           /\ connCount[u] <= MaxConnsPerUser
        BY <1>0, SlotsForm
      <3>7. connCount'[o] = Cardinality(Holders(pc', o)) /\ connCount'[o] <= MaxConnsPerUser
        <4>1. /\ connCount[o] \in Nat /\ connCount'[o] = connCount[o] + 1
              /\ connCount[o] = Cardinality(Holders(pc, o))
          BY <3>1, <3>3, <3>6, <1>0
        <4>2. connCount[o] < MaxConnsPerUser /\ Holders(pc', o) = Holders(pc, o) \cup {c}
          BY <3>1, <3>2
        <4> QED
          BY <4>1, <4>2, <3>5, HubAssumption
      <3>8. \A u \in Users \ {o} : /\ connCount'[u] = Cardinality(Holders(pc', u))
                                   /\ connCount'[u] <= MaxConnsPerUser
        BY <3>1, <3>2, <3>6, <1>0
      <3> QED
        BY <3>7, <3>8, SlotsForm
    <2> QED
      BY <2>1, <2>2
  <1>2. ASSUME NEW c \in Subs, UpgradeFails(c) PROVE SlotsMatch'
    BY <1>2, <1>0, SlotGivenBack DEF UpgradeFails
  <1>3. ASSUME NEW c \in Subs, Start(c) PROVE SlotsMatch'
    <2>1. UNCHANGED connCount /\ \A d \in Subs : Idle(pc', d) <=> Idle(pc, d)
      BY <1>3, <1>0 DEF Start, Subscribe, Idle
    <2> QED
      BY <2>1, <1>0, SlotsSame
  <1>4. ASSUME NEW c \in Subs, WriteEvent(c) PROVE SlotsMatch'
    <2>1. UNCHANGED connCount /\ \A d \in Subs : Idle(pc', d) <=> Idle(pc, d)
      BY <1>4, <1>0 DEF WriteEvent, Receive, Idle
    <2> QED
      BY <2>1, <1>0, SlotsSame
  <1>5. ASSUME NEW c \in Subs, StopSeen(c) PROVE SlotsMatch'
    <2>1. UNCHANGED connCount /\ \A d \in Subs : Idle(pc', d) <=> Idle(pc, d)
      BY <1>5, <1>0 DEF StopSeen, Idle
    <2> QED
      BY <2>1, <1>0, SlotsSame
  <1>6. ASSUME NEW c \in Subs, ExpireOrWriteFails(c) PROVE SlotsMatch'
    <2>1. UNCHANGED connCount /\ \A d \in Subs : Idle(pc', d) <=> Idle(pc, d)
      BY <1>6, <1>0 DEF ExpireOrWriteFails, Idle
    <2> QED
      BY <2>1, <1>0, SlotsSame
  <1>7. ASSUME NEW c \in Subs, UnsubDelete(c) PROVE SlotsMatch'
    <2>1. UNCHANGED connCount /\ \A d \in Subs : Idle(pc', d) <=> Idle(pc, d)
      BY <1>7, <1>0 DEF UnsubDelete, Deregister, Idle
    <2> QED
      BY <2>1, <1>0, SlotsSame
  <1>8. ASSUME NEW c \in Subs, UnsubClose(c) PROVE SlotsMatch'
    <2>1. UNCHANGED connCount /\ \A d \in Subs : Idle(pc', d) <=> Idle(pc, d)
      BY <1>8, <1>0 DEF UnsubClose, Idle
    <2> QED
      BY <2>1, <1>0, SlotsSame
  <1>9. ASSUME NEW c \in Subs, TakeRooms(c) PROVE SlotsMatch'
    <2>1. UNCHANGED connCount /\ \A d \in Subs : Idle(pc', d) <=> Idle(pc, d)
      BY <1>9, <1>0 DEF TakeRooms, Idle
    <2> QED
      BY <2>1, <1>0, SlotsSame
  <1>10. ASSUME NEW c \in Subs, DropRoom(c) PROVE SlotsMatch'
    <2>1. UNCHANGED connCount /\ \A d \in Subs : Idle(pc', d) <=> Idle(pc, d)
      BY <1>10, <1>0 DEF DropRoom, RemoveLiveSub, Idle
    <2> QED
      BY <2>1, <1>0, SlotsSame
  <1>11. ASSUME NEW c \in Subs, DropDone(c) PROVE SlotsMatch'
    <2>1. UNCHANGED connCount /\ \A d \in Subs : Idle(pc', d) <=> Idle(pc, d)
      BY <1>11, <1>0 DEF DropDone, Idle
    <2> QED
      BY <2>1, <1>0, SlotsSame
  <1>12. ASSUME NEW c \in Subs, Release(c) PROVE SlotsMatch'
    BY <1>12, <1>0, SlotGivenBack DEF Release
  <1>13. ASSUME NEW c \in Subs, CloseSocket(c) PROVE SlotsMatch'
    <2>1. UNCHANGED connCount /\ \A d \in Subs : Idle(pc', d) <=> Idle(pc, d)
      BY <1>13, <1>0 DEF CloseSocket, Idle
    <2> QED
      BY <2>1, <1>0, SlotsSame
  <1>14. ASSUME NEW c \in Subs, ReadFails(c) PROVE SlotsMatch'
    <2>1. UNCHANGED connCount /\ \A d \in Subs : Idle(pc', d) <=> Idle(pc, d)
      BY <1>14, <1>0 DEF ReadFails, Reading, Idle
    <2> QED
      BY <2>1, <1>0, SlotsSame
  <1>15. ASSUME NEW c \in Subs, NEW u \in Users, Notify(c, u) PROVE SlotsMatch'
    <2>1. UNCHANGED connCount /\ \A d \in Subs : Idle(pc', d) <=> Idle(pc, d)
      BY <1>15, <1>0 DEF Notify, Reading, Publish, Targets, Idle
    <2> QED
      BY <2>1, <1>0, SlotsSame
  <1>16. ASSUME NEW c \in Subs, NEW r \in Rooms, SubscribePanics(c, r) PROVE SlotsMatch'
    BY <1>16, <1>0, SlotsRestart DEF SubscribePanics
  <1>17. ASSUME NEW c \in Subs, NEW r \in Rooms, SubscribeRoom(c, r) PROVE SlotsMatch'
    <2>1. UNCHANGED connCount /\ \A d \in Subs : Idle(pc', d) <=> Idle(pc, d)
      BY <1>17, <1>0 DEF SubscribeRoom, Reading, Idle
    <2> QED
      BY <2>1, <1>0, SlotsSame
  <1>18. ASSUME NEW c \in Subs, NEW r \in Rooms, UnsubscribeRoom(c, r) PROVE SlotsMatch'
    <2>1. UNCHANGED connCount /\ \A d \in Subs : Idle(pc', d) <=> Idle(pc, d)
      BY <1>18, <1>0 DEF UnsubscribeRoom, Reading, Idle
    <2> QED
      BY <2>1, <1>0, SlotsSame
  <1>19. ASSUME NEW c \in Subs, NEW r \in Rooms, DanmakuCheck(c, r) PROVE SlotsMatch'
    <2>1. UNCHANGED connCount /\ \A d \in Subs : Idle(pc', d) <=> Idle(pc, d)
      BY <1>19, <1>0 DEF DanmakuCheck, Reading, Publish, Targets, Idle
    <2> QED
      BY <2>1, <1>0, SlotsSame
  <1>20. ASSUME NEW c \in Subs, SubscribeLive(c) PROVE SlotsMatch'
    <2>1. UNCHANGED connCount /\ \A d \in Subs : Idle(pc', d) <=> Idle(pc, d)
      BY <1>20, <1>0 DEF SubscribeLive, Idle
    <2> QED
      BY <2>1, <1>0, SlotsSame
  <1>21. ASSUME NEW c \in Subs, UnsubscribeLive(c) PROVE SlotsMatch'
    <2>1. UNCHANGED connCount /\ \A d \in Subs : Idle(pc', d) <=> Idle(pc, d)
      BY <1>21, <1>0 DEF UnsubscribeLive, RemoveLiveSub, Idle
    <2> QED
      BY <2>1, <1>0, SlotsSame
  <1>22. ASSUME NEW c \in Subs, DanmakuVerdict(c) PROVE SlotsMatch'
    <2>1. UNCHANGED connCount /\ \A d \in Subs : Idle(pc', d) <=> Idle(pc, d)
      BY <1>22, <1>0 DEF DanmakuVerdict, Publish, Targets, Idle
    <2> QED
      BY <2>1, <1>0, SlotsSame
  <1>23. ASSUME NEW c \in Subs, DanmakuSnapshot(c) PROVE SlotsMatch'
    <2>1. UNCHANGED connCount /\ \A d \in Subs : Idle(pc', d) <=> Idle(pc, d)
      BY <1>23, <1>0 DEF DanmakuSnapshot, Idle
    <2> QED
      BY <2>1, <1>0, SlotsSame
  <1>24. ASSUME NEW t \in Threads, Persist(t) PROVE SlotsMatch'
    <2>1. UNCHANGED connCount /\ \A d \in Subs : Idle(pc', d) <=> Idle(pc, d)
      BY <1>24, <1>0 DEF Persist, Idle
    <2> QED
      BY <2>1, <1>0, SlotsSame
  <1>25. ASSUME NEW t \in Threads, PublishOne(t) PROVE SlotsMatch'
    <2>1. UNCHANGED connCount /\ \A d \in Subs : Idle(pc', d) <=> Idle(pc, d)
      BY <1>25, <1>0 DEF PublishOne, Publish, Targets, Idle
    <2> QED
      BY <2>1, <1>0, SlotsSame
  <1>26. ASSUME NEW t \in Threads, PublishDone(t) PROVE SlotsMatch'
    <2>1. UNCHANGED connCount /\ \A d \in Subs : Idle(pc', d) <=> Idle(pc, d)
      BY <1>26, <1>0 DEF PublishDone, Idle
    <2> QED
      BY <2>1, <1>0, SlotsSame
  <1>27. CASE Restart
    BY <1>27, <1>0, SlotsRestart DEF Restart
  <1>28. CASE UNCHANGED vars
    BY <1>28, <1>0, SlotsSame DEF vars, Idle
  <1> QED
    BY <1>1, <1>2, <1>3, <1>4, <1>5, <1>6, <1>7, <1>8, <1>9, <1>10, <1>11, <1>12, <1>13, <1>14, <1>15, <1>16, <1>17, <1>18, <1>19, <1>20, <1>21, <1>22, <1>23, <1>24, <1>25, <1>26, <1>27, <1>28
       DEF Next, Handle, WriteLoop, Cleanup, Frame, Handler, Fanout

-----------------------------------------------------------------------------
\* Who accounts for a viewer.

(* Between its two critical sections handleLiveSubscribe has the room in   *)
(* cn.rooms, unless cleanup took the rooms meanwhile.                      *)
SubscribeKnown ==
    \A c \in Subs : pc[<<c, "read">>] = "subscribe" =>
        \/ rooms[c] # Nil /\ loc[<<c, "read">>].room \in rooms[c]
        \/ c \in overlap

(* Rooms are left to drop only inside the loop of cleanupConnRooms.        *)
LeftInDrop ==
    \A c \in Subs : left[c] # {} => pc[<<c, "main">>] \in {"drop", "persist", "publish"}

GhostInv == SubscribeKnown /\ LeftInDrop /\ GhostOnlyByOverlap

(* A step that leaves the bookkeeping of rooms alone, starts or ends no    *)
(* subscription and ends no cleanup while there are rooms to drop.         *)
LEMMA GhostsStay ==
    ASSUME GhostInv, UNCHANGED <<rooms, liveSubs, left, overlap>>,
           \A c \in Subs : \/ /\ pc'[<<c, "read">>] = pc[<<c, "read">>]
                              /\ \/ loc'[<<c, "read">>].room = loc[<<c, "read">>].room
                                 \/ pc[<<c, "read">>] \notin {"subscribe", "unsubscribe"}
                           \/ /\ pc'[<<c, "read">>] # "subscribe"
                              /\ pc[<<c, "read">>] # "unsubscribe",
           \A c \in Subs : \/ pc'[<<c, "main">>] = pc[<<c, "main">>]
                           \/ pc'[<<c, "main">>] \in {"drop", "persist", "publish"}
                           \/ pc[<<c, "main">>] \notin {"drop", "persist", "publish"}
                           \/ left[c] = {}
    PROVE  GhostInv'
  <1>1. SubscribeKnown'
    BY DEF GhostInv, SubscribeKnown
  <1>2. LeftInDrop'
    BY DEF GhostInv, LeftInDrop
  <1>4. ASSUME NEW c \in Subs, NEW r \in Rooms, Accounts(c, r) PROVE Accounts(c, r)'
    BY <1>4 DEF Accounts
  <1>5. GhostOnlyByOverlap'
    BY <1>4 DEF GhostInv, GhostOnlyByOverlap
  <1> QED
    BY <1>1, <1>2, <1>5 DEF GhostInv

(* removeLiveSub, by the goroutine t of connection d: the user of d leaves *)
(* the room r, so what d accounted for there is not needed any more.       *)
LEMMA ViewerRemoved ==
    ASSUME GhostOnlyByOverlap, liveSubs \in [Rooms -> SUBSET Users],
           NEW d \in Subs, NEW r \in Rooms,
           liveSubs' = [liveSubs EXCEPT ![r] = liveSubs[r] \ {UserOf[d]}],
           overlap' = overlap,
           \A c \in Subs, q \in Rooms : Accounts(c, q) =>
               Accounts(c, q)' \/ (c = d /\ q = r)
    PROVE  GhostOnlyByOverlap'
  <1> SUFFICES ASSUME NEW q \in Rooms, NEW u \in liveSubs'[q]
               PROVE  \E c \in Subs : UserOf[c] = u /\ (Accounts(c, q)' \/ c \in overlap')
    BY DEF GhostOnlyByOverlap
  <1>1. u \in liveSubs[q] /\ (q = r => u # UserOf[d])
    OBVIOUS
  <1>2. PICK c \in Subs : UserOf[c] = u /\ (Accounts(c, q) \/ c \in overlap)
    BY <1>1 DEF GhostOnlyByOverlap
  <1> QED
    BY <1>1, <1>2

LEMMA GhostsRestart ==
    ASSUME pc \in [Threads -> MainPc \cup ReadPc], ReaderStarted, ProcessRestarts
    PROVE  GhostInv'
  <1>1. \A c \in Subs : pc'[<<c, "read">>] # "subscribe"
    BY ThreadFacts DEF ProcessRestarts, ReaderStarted
  <1>2. \A c \in Subs : left'[c] = {}
    BY DEF ProcessRestarts
  <1>3. \A r \in Rooms : liveSubs'[r] = {}
    BY DEF ProcessRestarts
  <1> QED
    BY <1>1, <1>2, <1>3 DEF GhostInv, SubscribeKnown, LeftInDrop, GhostOnlyByOverlap

LEMMA StepGhosts == ASSUME HubInv, GhostInv, [Next]_vars PROVE GhostInv'
  <1>0. /\ pc \in [Threads -> MainPc \cup ReadPc] /\ loc \in [Threads -> Locals]
        /\ rooms \in [Subs -> {Nil} \cup SUBSET Rooms] /\ left \in [Subs -> SUBSET Rooms]
        /\ liveSubs \in [Rooms -> SUBSET Users]
        /\ RoomKnown /\ NilOnlyInCleanup /\ ReaderStarted /\ GhostInv
    BY DEF HubInv, TypeOK
  <1> USE ThreadFacts DEF Goto, busVars, connVars
  <1>1. ASSUME NEW c \in Subs, Accept(c) PROVE GhostInv'
    BY <1>1, <1>0, GhostsStay DEF Accept
  <1>2. ASSUME NEW c \in Subs, UpgradeFails(c) PROVE GhostInv'
    BY <1>2, <1>0, GhostsStay DEF UpgradeFails
  <1>3. ASSUME NEW c \in Subs, Start(c) PROVE GhostInv'
    BY <1>3, <1>0, GhostsStay DEF Start, ReaderStarted
  <1>4. ASSUME NEW c \in Subs, WriteEvent(c) PROVE GhostInv'
    BY <1>4, <1>0, GhostsStay DEF WriteEvent
  <1>5. ASSUME NEW c \in Subs, StopSeen(c) PROVE GhostInv'
    BY <1>5, <1>0, GhostsStay DEF StopSeen
  <1>6. ASSUME NEW c \in Subs, ExpireOrWriteFails(c) PROVE GhostInv'
    BY <1>6, <1>0, GhostsStay DEF ExpireOrWriteFails
  <1>7. ASSUME NEW c \in Subs, UnsubDelete(c) PROVE GhostInv'
    BY <1>7, <1>0, GhostsStay DEF UnsubDelete
  <1>8. ASSUME NEW c \in Subs, UnsubClose(c) PROVE GhostInv'
    BY <1>8, <1>0, GhostsStay DEF UnsubClose
  <1>9. ASSUME NEW c \in Subs, TakeRooms(c) PROVE GhostInv'
    <2>1. /\ left[c] = {} /\ rooms[c] # Nil /\ rooms[c] \in SUBSET Rooms
          /\ pc[<<c, "main">>] = "rooms"
      BY <1>9, <1>0 DEF TakeRooms, GhostInv, LeftInDrop, NilOnlyInCleanup
    <2>2. /\ left' = [left EXCEPT ![c] = rooms[c]] /\ rooms' = [rooms EXCEPT ![c] = Nil]
          /\ pc' = [pc EXCEPT ![<<c, "main">>] = "drop"] /\ UNCHANGED <<loc, liveSubs>>
          /\ overlap \subseteq overlap'
          /\ pc[<<c, "read">>] # "done" => c \in overlap'
      BY <1>9 DEF TakeRooms
    <2>3. SubscribeKnown'
      BY <2>2, <1>0 DEF GhostInv, SubscribeKnown
    <2>4. LeftInDrop'
      BY <2>2, <1>0 DEF GhostInv, LeftInDrop
    <2>5. \A d \in Subs, r \in Rooms : Accounts(d, r) => Accounts(d, r)'
      BY <2>1, <2>2, <1>0 DEF Accounts
    <2> QED
      BY <2>2, <2>3, <2>4, <2>5, <1>0 DEF GhostInv, GhostOnlyByOverlap
  <1>10. ASSUME NEW c \in Subs, DropRoom(c) PROVE GhostInv'
    <2>1. PICK r \in left[c] : /\ RemoveLiveSub(<<c, "main">>, UserOf[c], r, "drop")
                               /\ left' = [left EXCEPT ![c] = left[c] \ {r}]
      BY <1>10 DEF DropRoom
    <2>2. /\ r \in Rooms /\ UNCHANGED <<rooms, overlap>>
          /\ liveSubs' = [liveSubs EXCEPT ![r] = liveSubs[r] \ {UserOf[c]}]
          /\ pc' \in {[pc EXCEPT ![<<c, "main">>] = "persist"], [pc EXCEPT ![<<c, "main">>] = "drop"]}
          /\ \A t \in Threads : t # <<c, "main">> => loc'[t] = loc[t]
      BY <2>1, <1>10, <1>0 DEF DropRoom, RemoveLiveSub
    <2>3. SubscribeKnown'
      BY <2>2, <1>0 DEF GhostInv, SubscribeKnown
    <2>4. LeftInDrop'
      BY <2>1, <2>2, <1>0 DEF GhostInv, LeftInDrop
    <2>5. \A d \in Subs, q \in Rooms : Accounts(d, q) => Accounts(d, q)' \/ (d = c /\ q = r)
      BY <2>1, <2>2, <1>0 DEF Accounts
    <2> QED
      BY <2>2, <2>3, <2>4, <2>5, <1>0, ViewerRemoved DEF GhostInv
  <1>11. ASSUME NEW c \in Subs, DropDone(c) PROVE GhostInv'
    BY <1>11, <1>0, GhostsStay DEF DropDone
  <1>12. ASSUME NEW c \in Subs, Release(c) PROVE GhostInv'
    BY <1>12, <1>0, GhostsStay DEF Release
  <1>13. ASSUME NEW c \in Subs, CloseSocket(c) PROVE GhostInv'
    BY <1>13, <1>0, GhostsStay DEF CloseSocket
  <1>14. ASSUME NEW c \in Subs, ReadFails(c) PROVE GhostInv'
    BY <1>14, <1>0, GhostsStay DEF ReadFails, Reading
  <1>15. ASSUME NEW c \in Subs, NEW u \in Users, Notify(c, u) PROVE GhostInv'
    BY <1>15, <1>0, GhostsStay DEF Notify
  <1>16. ASSUME NEW c \in Subs, NEW r \in Rooms, SubscribePanics(c, r) PROVE GhostInv'
    BY <1>16, <1>0, GhostsRestart DEF SubscribePanics
  <1>17. ASSUME NEW c \in Subs, NEW r \in Rooms, SubscribeRoom(c, r) PROVE GhostInv'
    <2>1. /\ rooms[c] # Nil /\ rooms' = [rooms EXCEPT ![c] = rooms[c] \cup {r}]
          /\ rooms'[c] # Nil
          /\ pc[<<c, "read">>] = "idle" /\ pc' = [pc EXCEPT ![<<c, "read">>] = "subscribe"]
          /\ UNCHANGED <<left, overlap, liveSubs>>
      BY <1>17, <1>0, HubAssumption DEF SubscribeRoom, Reading
    <2>2. /\ loc'[<<c, "read">>].room = r
          /\ \A t \in Threads : t # <<c, "read">> => loc'[t] = loc[t]
      BY <1>17, <1>0 DEF SubscribeRoom, NoLocals
    <2>3. SubscribeKnown'
      BY <2>1, <2>2, <1>0 DEF GhostInv, SubscribeKnown
    <2>4. LeftInDrop'
      BY <2>1, <1>0 DEF GhostInv, LeftInDrop
    <2>5. \A d \in Subs, q \in Rooms : Accounts(d, q) => Accounts(d, q)'
      BY <2>1, <2>2, <1>0 DEF Accounts
    <2> QED
      BY <2>1, <2>3, <2>4, <2>5, <1>0 DEF GhostInv, GhostOnlyByOverlap
  <1>18. ASSUME NEW c \in Subs, NEW r \in Rooms, UnsubscribeRoom(c, r) PROVE GhostInv'
    <2>1. /\ rooms[c] = Nil => rooms' = rooms
          /\ rooms[c] # Nil => rooms' = [rooms EXCEPT ![c] = rooms[c] \ {r}] /\ rooms'[c] # Nil
          /\ pc[<<c, "read">>] = "idle" /\ pc' = [pc EXCEPT ![<<c, "read">>] = "unsubscribe"]
          /\ UNCHANGED <<left, overlap, liveSubs>>
      BY <1>18, <1>0, HubAssumption DEF UnsubscribeRoom, Reading
    <2>2. /\ loc'[<<c, "read">>].room = r
          /\ \A t \in Threads : t # <<c, "read">> => loc'[t] = loc[t]
      BY <1>18, <1>0 DEF UnsubscribeRoom, NoLocals
    <2>3. SubscribeKnown'
      BY <2>1, <2>2, <1>0 DEF GhostInv, SubscribeKnown
    <2>4. LeftInDrop'
      BY <2>1, <1>0 DEF GhostInv, LeftInDrop
    <2>5. ASSUME NEW d \in Subs, NEW q \in Rooms, Accounts(d, q) PROVE Accounts(d, q)'
      <3>1. CASE d = c /\ q = r
        BY <2>1, <2>2, <3>1, <1>0 DEF Accounts
      <3>2. CASE d = c /\ q # r
        <4>1. rooms[c] # Nil => rooms'[c] = rooms[c] \ {r} /\ rooms'[c] # Nil
          BY <2>1, <1>0
        <4> QED
          BY <2>1, <4>1, <2>5, <3>2 DEF Accounts
      <3>3. CASE d # c
        <4>1. rooms'[d] = rooms[d]
          BY <2>1, <3>3, <1>0
        <4> QED
          BY <2>1, <2>2, <2>5, <4>1, <3>3, <1>0 DEF Accounts
      <3> QED
        BY <3>1, <3>2, <3>3
    <2> QED
      BY <2>1, <2>3, <2>4, <2>5, <1>0 DEF GhostInv, GhostOnlyByOverlap
  <1>19. ASSUME NEW c \in Subs, NEW r \in Rooms, DanmakuCheck(c, r) PROVE GhostInv'
    BY <1>19, <1>0, GhostsStay DEF DanmakuCheck, Reading
  <1>20. ASSUME NEW c \in Subs, SubscribeLive(c) PROVE GhostInv'
    <2> DEFINE s == <<c, "read">>
               r == loc[s].room
    <2>1. /\ r \in Rooms /\ pc[s] = "subscribe" /\ UNCHANGED <<rooms, left, overlap>>
          /\ liveSubs' = [liveSubs EXCEPT ![r] = liveSubs[r] \cup {UserOf[c]}]
          /\ pc' \in {[pc EXCEPT ![s] = "persist"], [pc EXCEPT ![s] = "idle"]}
          /\ \A t \in Threads : t # s => loc'[t] = loc[t]
      BY <1>20, <1>0 DEF SubscribeLive, RoomKnown
    <2>2. Accounts(c, r) \/ c \in overlap
      BY <2>1, <1>0 DEF GhostInv, SubscribeKnown, Accounts
    <2>3. SubscribeKnown'
      BY <2>1, <1>0 DEF GhostInv, SubscribeKnown
    <2>4. LeftInDrop'
      BY <2>1, <1>0 DEF GhostInv, LeftInDrop
    <2>5. \A d \in Subs, q \in Rooms : Accounts(d, q) => Accounts(d, q)'
      BY <2>1, <1>0 DEF Accounts
    <2>6. \A q \in Rooms : \A u \in liveSubs'[q] : u \in liveSubs[q] \/ (q = r /\ u = UserOf[c])
      BY <2>1, <1>0
    <2> QED
      BY <2>1, <2>2, <2>3, <2>4, <2>5, <2>6, <1>0 DEF GhostInv, GhostOnlyByOverlap
  <1>21. ASSUME NEW c \in Subs, UnsubscribeLive(c) PROVE GhostInv'
    <2> DEFINE s == <<c, "read">>
               r == loc[s].room
    <2>1. /\ r \in Rooms /\ pc[s] = "unsubscribe" /\ UNCHANGED <<rooms, left, overlap>>
          /\ liveSubs' = [liveSubs EXCEPT ![r] = liveSubs[r] \ {UserOf[c]}]
          /\ pc' \in {[pc EXCEPT ![s] = "persist"], [pc EXCEPT ![s] = "idle"]}
          /\ \A t \in Threads : t # s => loc'[t] = loc[t]
      BY <1>21, <1>0 DEF UnsubscribeLive, RemoveLiveSub, RoomKnown
    <2>3. SubscribeKnown'
      BY <2>1, <1>0 DEF GhostInv, SubscribeKnown
    <2>4. LeftInDrop'
      BY <2>1, <1>0 DEF GhostInv, LeftInDrop
    <2>5. \A d \in Subs, q \in Rooms : Accounts(d, q) => Accounts(d, q)' \/ (d = c /\ q = r)
      BY <2>1, <1>0 DEF Accounts
    <2> HIDE DEF r, s
    <2> QED
      BY <2>1, <2>3, <2>4, <2>5, <1>0, ViewerRemoved DEF GhostInv
  <1>22. ASSUME NEW c \in Subs, DanmakuVerdict(c) PROVE GhostInv'
    BY <1>22, <1>0, GhostsStay DEF DanmakuVerdict
  <1>23. ASSUME NEW c \in Subs, DanmakuSnapshot(c) PROVE GhostInv'
    BY <1>23, <1>0, GhostsStay DEF DanmakuSnapshot
  <1>24. ASSUME NEW t \in Threads, Persist(t) PROVE GhostInv'
    BY <1>24, <1>0, GhostsStay DEF Persist
  <1>25. ASSUME NEW t \in Threads, PublishOne(t) PROVE GhostInv'
    BY <1>25, <1>0, GhostsStay DEF PublishOne
  <1>26. ASSUME NEW t \in Threads, PublishDone(t) PROVE GhostInv'
    BY <1>26, <1>0, GhostsStay DEF PublishDone, Threads
  <1>27. CASE Restart
    BY <1>27, <1>0, GhostsRestart DEF Restart
  <1>28. CASE UNCHANGED vars
    BY <1>28, <1>0, GhostsStay DEF vars
  <1> QED
    BY <1>1, <1>2, <1>3, <1>4, <1>5, <1>6, <1>7, <1>8, <1>9, <1>10, <1>11, <1>12, <1>13, <1>14, <1>15, <1>16, <1>17, <1>18, <1>19, <1>20, <1>21, <1>22, <1>23, <1>24, <1>25, <1>26, <1>27, <1>28
       DEF Next, Handle, WriteLoop, Cleanup, Frame, Handler, Fanout

-----------------------------------------------------------------------------
LEMMA InitHub == Init => HubInv /\ SlotsMatch
  <1> SUFFICES ASSUME Init PROVE HubInv /\ SlotsMatch
    OBVIOUS
  <1> USE ThreadFacts DEF Init, BusInit
  <1>1. TypeOK
    <2>1. pc \in [Threads -> MainPc \cup ReadPc]
      BY DEF MainPc, ReadPc
    <2>2. loc \in [Threads -> Locals]
      BY DEF Locals, NoLocals, Events
    <2>3. buf \in [Subs -> Seq(Events)] /\ \A s \in Subs : Len(buf[s]) <= BufferCap
      BY BusAssumption
    <2>4. panicked \in BOOLEAN /\ crashed \in BOOLEAN
      BY Zenon
    <2> QED
      BY <2>1, <2>2, <2>3, <2>4 DEF TypeOK, BusTypeOK
  <1>2. RegisteredRun /\ NoSendOnClosed
    <2>1. NoSendOnClosed
      BY Zenon DEF NoSendOnClosed
    <2> QED
      BY <2>1 DEF RegisteredRun
  <1>3. RoomKnown /\ NilOnlyInCleanup /\ ReaderStarted
    BY HubAssumption DEF RoomKnown, NilOnlyInCleanup, ReaderStarted, Threads
  <1>4. SlotsMatch
    <2>1. \A u : Holders(pc, u) = {}
      BY DEF Holders, Idle
    <2>2. \A u \in Users : connCount[u] = 0
      OBVIOUS
    <2> HIDE DEF Init
    <2> QED
      BY <2>1, <2>2, FS_EmptySet, SlotsForm, HubAssumption
  <1> QED
    BY <1>1, <1>2, <1>3, <1>4 DEF HubInv

LEMMA InitGhosts == Init => GhostInv
  <1> SUFFICES ASSUME Init PROVE GhostInv
    OBVIOUS
  <1>1. SubscribeKnown
    BY ThreadFacts DEF Init, SubscribeKnown
  <1>2. LeftInDrop /\ GhostOnlyByOverlap
    BY DEF Init, LeftInDrop, GhostOnlyByOverlap
  <1> QED
    BY <1>1, <1>2 DEF GhostInv

LEMMA HubInductive == Spec => [](HubInv /\ SlotsMatch /\ GhostInv)
  <1>1. HubInv /\ SlotsMatch /\ GhostInv /\ [Next]_vars => (HubInv /\ SlotsMatch /\ GhostInv)'
    BY StepTypes, StepRegistered, StepRooms, StepSlots, StepGhosts DEF HubInv
  <1> QED
    BY InitHub, InitGhosts, <1>1, PTL DEF Spec

-----------------------------------------------------------------------------
(* Types of the hub's state.                                               *)
THEOREM HubTypes == Spec => []TypeOK
  BY HubInductive, PTL DEF HubInv

(* handler.go: whatever way connections end, and however the goroutines of *)
(* different connections interleave, connCount is the number of slots in   *)
(* use and respects maxConnsPerUser.                                       *)
THEOREM HubSlotsMatch == Spec => []SlotsMatch
  BY HubInductive, PTL

(* handler.go and bus.go: the deferred cleanup of one connection never     *)
(* makes a publisher send on a closed channel.                             *)
THEOREM HubNeverSendsOnClosed == Spec => []NoSendOnClosed
  BY HubInductive, PTL DEF HubInv

(* handler.go: whoever is counted and served as a viewer of a room has a   *)
(* connection that joined it and has not left it yet, unless the cleanup   *)
(* of one of his connections overtook its reader.                          *)
THEOREM HubGhostsOnlyByOverlap == Spec => []GhostOnlyByOverlap
  BY HubInductive, PTL DEF GhostInv

-----------------------------------------------------------------------------
(* The bus under the hub and under publishers that know no order.          *)

LEMMA BothInductive == BothSpec => [](part = "bus" => IInv)
  <1>1. BothInit => (part = "bus" => IInv)
    BY InitIInv DEF BothInit
  <1>2. ASSUME part = "bus" => IInv, [BothNext]_allVars
        PROVE  (part = "bus" => IInv)'
    <2>1. ASSUME OfHub(Next) PROVE part' # "bus"
      BY <2>1 DEF OfHub
    <2>2. ASSUME OfBus(OrderNext) PROVE IInv'
      BY <2>2, <1>2, NextIInv DEF OfBus
    <2>3. ASSUME UNCHANGED allVars PROVE UNCHANGED <<part, orderVars>>
      BY <2>3 DEF allVars, vars, busOnly, orderVars
    <2> QED
      BY <1>2, <2>1, <2>2, <2>3, NextIInv DEF BothNext
  <1> QED
    BY <1>1, <1>2, PTL DEF BothSpec

(* bus.go: the order of the deliveries does not depend on what the hub,    *)
(* the other user of the bus, does with it.                                *)
THEOREM BusAlwaysInOrder == BothSpec => []BusInOrder
  BY BothInductive, PTL DEF IInv, BusInOrder
=============================================================================
