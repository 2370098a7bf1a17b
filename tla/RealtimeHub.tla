------------------------------ MODULE RealtimeHub ------------------------------
(***************************************************************************)
(* The WebSocket hub of server/internal/realtime/handler.go on top of the  *)
(* bus.  A connection c is also its bus subscription.  It is served by two *)
(* goroutines: <<c, "main">> runs handle, writeLoop and the deferred       *)
(* cleanup; <<c, "read">> runs readLoop and the frame handlers.  They      *)
(* share cn.rooms, liveSubs and the per-user connection count, each under  *)
(* a mutex of its own, so a handler is one step per critical section.      *)
(* An event is reduced to its type.  LiveBackend's verdict on a danmaku    *)
(* and RelayBackend.CanRelay are free choices.                             *)
(***************************************************************************)
EXTENDS Wsbus

CONSTANTS Rooms,              \* live room ids
          MaxConnsPerUser,    \* maxConnsPerUser
          MaxRoomsPerConn,    \* maxRoomsPerConn
          Restarts,           \* whether the process may be restarted
          Nil                 \* the nil map cleanup leaves in cn.rooms

ASSUME HubAssumption ==
    /\ MaxConnsPerUser \in Nat /\ MaxRoomsPerConn \in Nat
    /\ \A R \in SUBSET Rooms : R # Nil
    /\ Restarts \in BOOLEAN
    /\ IsFiniteSet(Subs) /\ IsFiniteSet(Users)

VARIABLES connCount,   \* Handler.connCount
          rooms,       \* conn.rooms of each connection, or Nil
          liveSubs,    \* Handler.liveSubs: the users subscribed to each room
          viewers,     \* live_rooms.viewer_count, written by SetViewerCount
          pc,          \* where each goroutine is
          loc,         \* its locals: room, count and the users to publish to
          left,        \* rooms cleanupConnRooms has still to drop
          overlap,     \* history: cleanup took the rooms while the reader ran
          crashed      \* history: a goroutine has panicked

connVars == <<connCount, rooms, left, overlap, crashed>>
vars == <<busVars, connVars, liveSubs, viewers, pc, loc>>

Threads == Subs \X {"read", "main"}
MainPc == {"new", "upgrade", "loop", "delete", "close", "rooms", "drop",
           "persist", "publish", "release", "wsclose", "gone"}
ReadPc == {"none", "idle", "subscribe", "unsubscribe", "gate", "snapshot",
           "persist", "publish", "done"}
Events == {"notice", "viewer.count", "danmaku"}
Locals == [room : {Nil} \cup Rooms, count : Nat, to : SUBSET Users, ev : Events]
NoLocals == [room |-> Nil, count |-> 0, to |-> {}, ev |-> "notice"]

TypeOK ==
    /\ BusTypeOK(Events)
    /\ connCount \in [Users -> Nat]
    /\ rooms \in [Subs -> {Nil} \cup SUBSET Rooms]
    /\ liveSubs \in [Rooms -> SUBSET Users]
    /\ viewers \in [Rooms -> Nat]
    /\ pc \in [Threads -> MainPc \cup ReadPc]
    /\ loc \in [Threads -> Locals]
    /\ left \in [Subs -> SUBSET Rooms]
    /\ overlap \in SUBSET Subs
    /\ crashed \in BOOLEAN

Init ==
    /\ BusInit
    /\ connCount = [u \in Users |-> 0]
    /\ rooms = [c \in Subs |-> {}]
    /\ liveSubs = [r \in Rooms |-> {}]
    /\ viewers = [r \in Rooms |-> 0]
    /\ pc = [t \in Threads |-> IF t[2] = "main" THEN "new" ELSE "none"]
    /\ loc = [t \in Threads |-> NoLocals]
    /\ left = [c \in Subs |-> {}]
    /\ overlap = {}
    /\ crashed = FALSE

Goto(t, where) == pc' = [pc EXCEPT ![t] = where]

-----------------------------------------------------------------------------
\* handle: slot, upgrade, subscription, start of the reader.

\* acquireConnSlot; a rejected request is answered 429 and is over.
Accept(c) ==
    /\ pc[<<c, "main">>] = "new"
    /\ \/ /\ connCount[UserOf[c]] < MaxConnsPerUser
          /\ connCount' = [connCount EXCEPT ![UserOf[c]] = @ + 1]
          /\ Goto(<<c, "main">>, "upgrade")
       \/ /\ connCount[UserOf[c]] >= MaxConnsPerUser
          /\ Goto(<<c, "main">>, "gone")
          /\ UNCHANGED connCount
    /\ UNCHANGED <<busVars, rooms, left, overlap, crashed, liveSubs, viewers, loc>>

\* releaseConnSlot
ReleaseSlot(u) ==
    connCount' = [connCount EXCEPT ![u] = IF @ > 0 THEN @ - 1 ELSE 0]

\* Mutant: a failed upgrade forgets the slot it holds.
UpgradeFails_Leak(c) ==
    /\ pc[<<c, "main">>] = "upgrade"
    /\ Goto(<<c, "main">>, "gone")
    /\ UNCHANGED <<busVars, connVars, liveSubs, viewers, loc>>

UpgradeFails(c) ==
    /\ pc[<<c, "main">>] = "upgrade"
    /\ ReleaseSlot(UserOf[c])
    /\ Goto(<<c, "main">>, "gone")
    /\ UNCHANGED <<busVars, rooms, left, overlap, crashed, liveSubs, viewers, loc>>

Start(c) ==
    /\ pc[<<c, "main">>] = "upgrade"
    /\ Subscribe(c)
    /\ pc' = [pc EXCEPT ![<<c, "main">>] = "loop", ![<<c, "read">>] = "idle"]
    /\ UNCHANGED <<connVars, liveSubs, viewers, loc>>

-----------------------------------------------------------------------------
\* writeLoop: one event written, or the loop left because the reader stopped,
\* the token expired, or a write or ping failed.

WriteEvent(c) ==
    /\ pc[<<c, "main">>] = "loop"
    /\ Receive(c)
    /\ UNCHANGED <<connVars, liveSubs, viewers, pc, loc>>

\* Mutant: the select has no case for the stop channel.
StopSeen_Missing(c) == FALSE /\ UNCHANGED vars

StopSeen(c) ==
    /\ pc[<<c, "main">>] = "loop" /\ pc[<<c, "read">>] = "done"
    /\ Goto(<<c, "main">>, "delete")
    /\ UNCHANGED <<busVars, connVars, liveSubs, viewers, loc>>

ExpireOrWriteFails(c) ==
    /\ pc[<<c, "main">>] = "loop"
    /\ Goto(<<c, "main">>, "delete")
    /\ UNCHANGED <<busVars, connVars, liveSubs, viewers, loc>>

-----------------------------------------------------------------------------
\* The deferred cleanup: unsub (two steps), rooms, slot, socket.

\* Mutant: unsub closes the channel before it leaves the map.
UnsubDelete_CloseFirst(c) ==
    /\ pc[<<c, "main">>] = "delete"
    /\ CloseChan(c)
    /\ Goto(<<c, "main">>, "close")
    /\ UNCHANGED <<connVars, liveSubs, viewers, loc>>

UnsubDelete(c) ==
    /\ pc[<<c, "main">>] = "delete"
    /\ Deregister(c)
    /\ Goto(<<c, "main">>, "close")
    /\ UNCHANGED <<connVars, liveSubs, viewers, loc>>

\* Nothing reads the channel after this point: its buffer is garbage.
UnsubClose(c) ==
    /\ pc[<<c, "main">>] = "close"
    /\ chan' = [chan EXCEPT ![c] = "closed"]
    /\ buf' = [buf EXCEPT ![c] = <<>>]
    /\ UNCHANGED <<registered, panicked>>
    /\ Goto(<<c, "main">>, "rooms")
    /\ UNCHANGED <<connVars, liveSubs, viewers, loc>>

\* Mutant: cleanup forgets which rooms the connection was in.
TakeRooms_Forgets(c) ==
    /\ pc[<<c, "main">>] = "rooms"
    /\ rooms' = [rooms EXCEPT ![c] = Nil]
    /\ overlap' = IF pc[<<c, "read">>] = "done" THEN overlap ELSE overlap \cup {c}
    /\ Goto(<<c, "main">>, "drop")
    /\ UNCHANGED <<busVars, connCount, crashed, left, liveSubs, viewers, loc>>

\* cleanupConnRooms, under roomsMu
TakeRooms(c) ==
    /\ pc[<<c, "main">>] = "rooms"
    /\ left' = [left EXCEPT ![c] = rooms[c]]
    /\ rooms' = [rooms EXCEPT ![c] = Nil]
    /\ overlap' = IF pc[<<c, "read">>] = "done" THEN overlap ELSE overlap \cup {c}
    /\ Goto(<<c, "main">>, "drop")
    /\ UNCHANGED <<busVars, connCount, crashed, liveSubs, viewers, loc>>

\* The critical section of removeLiveSub, for goroutine t, which goes on to
\* persist and broadcast the new count if u was subscribed.
RemoveLiveSub(t, u, r, after) ==
    LET others == liveSubs[r] \ {u}
    IN  /\ liveSubs' = [liveSubs EXCEPT ![r] = others]
        /\ IF u \in liveSubs[r]
           THEN /\ loc' = [loc EXCEPT ![t] = [room |-> r, count |-> Cardinality(others),
                                              to |-> others, ev |-> "viewer.count"]]
                /\ Goto(t, "persist")
           ELSE /\ Goto(t, after)
                /\ UNCHANGED loc

DropRoom(c) ==
    /\ pc[<<c, "main">>] = "drop"
    /\ \E r \in left[c] :
          /\ RemoveLiveSub(<<c, "main">>, UserOf[c], r, "drop")
          /\ left' = [left EXCEPT ![c] = @ \ {r}]
    /\ UNCHANGED <<busVars, connCount, rooms, overlap, crashed, viewers>>

DropDone(c) ==
    /\ pc[<<c, "main">>] = "drop" /\ left[c] = {}
    /\ Goto(<<c, "main">>, "release")
    /\ UNCHANGED <<busVars, connVars, liveSubs, viewers, loc>>

Release(c) ==
    /\ pc[<<c, "main">>] = "release"
    /\ ReleaseSlot(UserOf[c])
    /\ Goto(<<c, "main">>, "wsclose")
    /\ UNCHANGED <<busVars, rooms, left, overlap, crashed, liveSubs, viewers, loc>>

CloseSocket(c) ==
    /\ pc[<<c, "main">>] = "wsclose"
    /\ Goto(<<c, "main">>, "gone")
    /\ UNCHANGED <<busVars, connVars, liveSubs, viewers, loc>>

-----------------------------------------------------------------------------
\* readLoop.  A frame already buffered is handled even after the socket has
\* been closed under the reader.

Reading(c) == pc[<<c, "read">>] = "idle"

\* ReadMessage fails: peer gone, read deadline passed, or socket closed.
ReadFails(c) ==
    /\ Reading(c)
    /\ Goto(<<c, "read">>, "done")
    /\ UNCHANGED <<busVars, connVars, liveSubs, viewers, loc>>

\* ping (u is the sender), relayCall (the peer, or the sender who gets
\* call.rejected), and one recipient of a typing ping.
Notify(c, u) ==
    /\ Reading(c)
    /\ Publish(u, "notice")
    /\ UNCHANGED <<connVars, liveSubs, viewers, pc, loc>>

\* The process dies with its connections and a new one starts with empty
\* memory; only the database column survives.
ProcessRestarts ==
    LET untouched == {c \in Subs : pc[<<c, "main">>] = "new"}
    IN  /\ connCount' = [u \in Users |-> 0]
        /\ pc' = [t \in Threads |-> IF t[1] \in untouched THEN pc[t]
                                    ELSE IF t[2] = "main" THEN "gone" ELSE "done"]
        /\ registered' = {}
        /\ chan' = [c \in Subs |-> IF c \in untouched THEN "none" ELSE "closed"]
        /\ buf' = [c \in Subs |-> <<>>]
        /\ rooms' = [c \in Subs |-> IF c \in untouched THEN {} ELSE Nil]
        /\ liveSubs' = [r \in Rooms |-> {}]
        /\ loc' = [t \in Threads |-> NoLocals]
        /\ left' = [c \in Subs |-> {}]
        /\ UNCHANGED <<panicked, viewers, overlap>>

Restart == Restarts /\ ProcessRestarts /\ UNCHANGED crashed

\* handleLiveSubscribe, under roomsMu: an assignment into the nil map panics
\* in a goroutine nobody recovers, which takes the process down; otherwise
\* the room is recorded.
SubscribePanics(c, r) ==
    /\ Reading(c)
    /\ rooms[c] = Nil
    /\ ProcessRestarts
    /\ crashed' = TRUE

SubscribeRoom(c, r) ==
    /\ Reading(c)
    /\ rooms[c] # Nil
    /\ Cardinality(rooms[c]) < MaxRoomsPerConn
    /\ rooms' = [rooms EXCEPT ![c] = @ \cup {r}]
    /\ loc' = [loc EXCEPT ![<<c, "read">>] =
                 \* count remembers "already", to decide on the broadcast
                 [NoLocals EXCEPT !.room = r, !.count = IF r \in rooms[c] THEN 1 ELSE 0]]
    /\ Goto(<<c, "read">>, "subscribe")
    /\ UNCHANGED <<busVars, connCount, left, overlap, crashed, liveSubs, viewers>>

\* handleLiveSubscribe, under liveMu
SubscribeLive(c) ==
    LET t == <<c, "read">>
        r == loc[t].room
        now == liveSubs[r] \cup {UserOf[c]}
    IN  /\ pc[t] = "subscribe"
        /\ liveSubs' = [liveSubs EXCEPT ![r] = now]
        /\ IF loc[t].count = 0 /\ UserOf[c] \notin liveSubs[r]
           THEN /\ loc' = [loc EXCEPT ![t] = [room |-> r, count |-> Cardinality(now),
                                              to |-> now, ev |-> "viewer.count"]]
                /\ Goto(t, "persist")
           ELSE /\ loc' = [loc EXCEPT ![t] = NoLocals]
                /\ Goto(t, "idle")
        /\ UNCHANGED <<busVars, connVars, viewers>>

\* handleLiveUnsubscribe: delete on a nil map is a no-op.
UnsubscribeRoom(c, r) ==
    /\ Reading(c)
    /\ rooms' = [rooms EXCEPT ![c] = IF @ = Nil THEN Nil ELSE @ \ {r}]
    /\ loc' = [loc EXCEPT ![<<c, "read">>] = [NoLocals EXCEPT !.room = r]]
    /\ Goto(<<c, "read">>, "unsubscribe")
    /\ UNCHANGED <<busVars, connCount, left, overlap, crashed, liveSubs, viewers>>

UnsubscribeLive(c) ==
    /\ pc[<<c, "read">>] = "unsubscribe"
    /\ RemoveLiveSub(<<c, "read">>, UserOf[c], loc[<<c, "read">>].room, "idle")
    /\ UNCHANGED <<busVars, connVars, viewers>>

\* handleLiveDanmaku: membership test, then the verdict of the backend, then
\* a fresh snapshot of the room.
DanmakuCheck(c, r) ==
    /\ Reading(c)
    /\ \/ /\ UserOf[c] \in liveSubs[r]
          /\ loc' = [loc EXCEPT ![<<c, "read">>] = [NoLocals EXCEPT !.room = r]]
          /\ Goto(<<c, "read">>, "gate")
          /\ UNCHANGED busVars
       \/ /\ UserOf[c] \notin liveSubs[r]
          /\ Publish(UserOf[c], "notice")
          /\ UNCHANGED <<pc, loc>>
    /\ UNCHANGED <<connVars, liveSubs, viewers>>

DanmakuVerdict(c) ==
    /\ pc[<<c, "read">>] = "gate"
    /\ \/ Goto(<<c, "read">>, "snapshot") /\ UNCHANGED busVars
       \/ Goto(<<c, "read">>, "idle") /\ Publish(UserOf[c], "notice")
    /\ UNCHANGED <<connVars, liveSubs, viewers, loc>>

DanmakuSnapshot(c) ==
    LET t == <<c, "read">>
    IN  /\ pc[t] = "snapshot"
        /\ loc' = [loc EXCEPT ![t].to = liveSubs[loc[t].room] \ {UserOf[c]},
                              ![t].ev = "danmaku"]
        /\ Goto(t, "publish")
        /\ UNCHANGED <<busVars, connVars, liveSubs, viewers>>

-----------------------------------------------------------------------------
\* What both goroutines do after a change: persistViewerCount, then one
\* Publish per target, then back to the caller.

Persist(t) ==
    /\ pc[t] = "persist"
    /\ viewers' = [viewers EXCEPT ![loc[t].room] = loc[t].count]
    /\ Goto(t, "publish")
    /\ UNCHANGED <<busVars, connVars, liveSubs, loc>>

PublishOne(t) ==
    /\ pc[t] = "publish"
    /\ \E u \in loc[t].to :
          /\ Publish(u, loc[t].ev)
          /\ loc' = [loc EXCEPT ![t].to = @ \ {u}]
    /\ UNCHANGED <<connVars, liveSubs, viewers, pc>>

PublishDone(t) ==
    /\ pc[t] = "publish" /\ loc[t].to = {}
    /\ loc' = [loc EXCEPT ![t] = NoLocals]
    /\ Goto(t, IF t[2] = "read" THEN "idle" ELSE "drop")
    /\ UNCHANGED <<busVars, connVars, liveSubs, viewers>>

-----------------------------------------------------------------------------
Cleanup(c) ==
    \/ UnsubDelete(c) \/ UnsubClose(c) \/ TakeRooms(c) \/ DropRoom(c)
    \/ DropDone(c) \/ Release(c) \/ CloseSocket(c)

Handle(c) == Accept(c) \/ UpgradeFails(c) \/ Start(c)

WriteLoop(c) == WriteEvent(c) \/ StopSeen(c) \/ ExpireOrWriteFails(c)

Frame(c) ==
    \/ \E u \in Users : Notify(c, u)
    \/ \E r \in Rooms : SubscribeRoom(c, r) \/ UnsubscribeRoom(c, r)
                        \/ DanmakuCheck(c, r) \/ SubscribePanics(c, r)

\* The rest of a frame handler once it has begun.
Handler(c) ==
    \/ SubscribeLive(c) \/ UnsubscribeLive(c)
    \/ DanmakuVerdict(c) \/ DanmakuSnapshot(c)

Fanout(t) == Persist(t) \/ PublishOne(t) \/ PublishDone(t)

Next ==
    \/ \E c \in Subs : \/ Handle(c) \/ WriteLoop(c) \/ Cleanup(c)
                       \/ ReadFails(c) \/ Frame(c) \/ Handler(c)
    \/ \E t \in Threads : Fanout(t)
    \/ Restart

Spec == Init /\ [][Next]_vars

(* The goroutines keep running: cleanup, frame handlers and broadcasts are *)
(* eventually scheduled, writeLoop's select eventually takes the closed    *)
(* stop channel, and reading from a socket closed under the reader ends    *)
(* once its finite input buffer is used up.  Peers owe nothing.            *)
Fairness ==
    /\ \A c \in Subs : /\ WF_vars(Cleanup(c)) /\ WF_vars(StopSeen(c))
                       /\ WF_vars(Handler(c))
                       /\ SF_vars(pc[<<c, "main">>] = "gone" /\ ReadFails(c))
    /\ \A t \in Threads : WF_vars(Fanout(t))

FairSpec == Spec /\ Fairness

-----------------------------------------------------------------------------
\* Connections of u that occupy a slot.
Holding(u) == {c \in Subs : /\ UserOf[c] = u
                            /\ pc[<<c, "main">>] \notin {"new", "wsclose", "gone"}}

(* acquireConnSlot and releaseConnSlot balance over every way a connection *)
(* can end: the counter is exactly the number of connections that hold a   *)
(* slot, and never above the cap.                                          *)
SlotsMatch ==
    \A u \in Users : /\ connCount[u] = Cardinality(Holding(u))
                     /\ connCount[u] <= MaxConnsPerUser

(* A room in the bookkeeping of a connection is a room its user receives   *)
(* danmaku of and may send danmaku to.                                     *)
SubscribedWhenJoined ==
    \A c \in Subs : rooms[c] # Nil =>
        \A r \in rooms[c] : \/ UserOf[c] \in liveSubs[r]
                            \/ /\ pc[<<c, "read">>] = "subscribe"
                               /\ loc[<<c, "read">>].room = r

\* Connection c still accounts for its user's presence in room r.
Accounts(c, r) ==
    \/ rooms[c] # Nil /\ r \in rooms[c]
    \/ pc[<<c, "read">>] = "unsubscribe" /\ loc[<<c, "read">>].room = r
    \/ r \in left[c]

(* A viewer of a room has a connection that joined it and has not left it  *)
(* yet, unless cleanup ran while the reader of one of its connections was  *)
(* still at work.                                                          *)
GhostOnlyByOverlap ==
    \A r \in Rooms : \A u \in liveSubs[r] :
        \E c \in Subs : UserOf[c] = u /\ (Accounts(c, r) \/ c \in overlap)

(* What the comments of the code ask for: cleanup is complete, so a user   *)
(* whose connections are all over is in no room.                           *)
NoGhostViewer ==
    \A r \in Rooms : \A u \in liveSubs[r] :
        \E c \in Subs : /\ UserOf[c] = u
                        /\ pc[<<c, "main">>] # "gone" \/ pc[<<c, "read">>] # "done"

(* Cleanup never brings the process down.                                  *)
NoPanic == ~crashed

\* No handler is between its critical section and its last write.
Quiet == \A t \in Threads : pc[t] \notin {"persist", "publish", "subscribe", "unsubscribe"}

(* Without a crash, once nothing is in flight the stored viewer count is   *)
(* the number of subscribers.                                              *)
ViewerCountSettles ==
    (Quiet /\ ~crashed) => \A r \in Rooms : viewers[r] = Cardinality(liveSubs[r])

(* handle waits for no one: when the reader has stopped or the write loop  *)
(* has been left, the slot is given back and the socket closed.            *)
SlotReleased ==
    \A c \in Subs :
        (pc[<<c, "read">>] = "done" \/ pc[<<c, "main">>] = "delete")
            ~> (pc[<<c, "main">>] = "gone" /\ pc[<<c, "read">>] = "done")
=============================================================================
