----------------------------- MODULE LiveWatch -----------------------------
(* A viewer's live page: the list of the rooms (Discover), the room that   *)
(* is watched with its chat (Watch), the deep link that opens a room by    *)
(* its route, and the socket.  The state of Watch goes when Watch goes;    *)
(* its timers stay.                                                        *)
(*                                                                         *)
(* The viewer has one connection.  Whoever else is in a room only adds to  *)
(* its chat, closes it, or takes it back into test mode.                   *)
EXTENDS Naturals, Sequences, FiniteSets

CONSTANTS Rooms,
          MaxSent,     \* danmaku sent
          MaxFrames,   \* frames on their way to the server
          Nothing

\* A request for the history of a room, with its answer.
Histories == [room : Rooms, got : Seq(1..MaxSent) \union {Nothing}]

ASSUME WatchAssumption ==
  MaxSent \in Nat /\ Nothing \notin Rooms \union Seq(1..MaxSent) \union Histories

VARIABLES
  link,        \* the room that the route names and that is being fetched, or Nothing
  active,      \* the room that is watched, or Nothing: the list is shown
  list,        \* the chat that is shown
  hist,        \* the request for its history: room and answer, or Nothing
  timers,      \* timers that leave the page: of its own room, or of one left before
  sock,        \* the socket is open
  up, down,    \* frames on their way to the server, events on their way back
  subs,        \* the rooms to which the connection is subscribed
  chat,        \* the danmaku kept of each room
  sent,        \* danmaku sent so far
  closed,      \* rooms that were ended, deleted, or taken back into test mode
  follows,     \* the rooms that the user follows
  deaf,        \* history: the socket was down since the room was opened
  spoilt       \* history: a danmaku was on its way while the room was opened, or
               \* was rejected

server == <<subs, chat, closed, follows>>
watchVars == <<link, active, list, hist, timers, sock, up, down, server, sent, deaf, spoilt>>

Frames == [type : {"subscribe", "unsubscribe"}, room : Rooms, n : {0}]
            \union [type : {"send"}, room : Rooms, n : 1..MaxSent]
Events == [type : {"recv"}, room : Rooms, n : 1..MaxSent]
            \union [type : {"deleted", "updated"}, room : Rooms, n : {0}]

WatchInit ==
  /\ link \in Rooms \union {Nothing}
  /\ active = Nothing
  /\ list = <<>> /\ hist = Nothing /\ timers = {}
  /\ sock = FALSE /\ up = <<>> /\ down = <<>>
  /\ subs = {} /\ chat = [r \in Rooms |-> <<>>] /\ sent = 0 /\ closed = {} /\ follows \in SUBSET Rooms
  /\ deaf = FALSE /\ spoilt = FALSE

-----------------------------------------------------------------------------
(* From page to page *)

\* wsClient.send: nothing is kept for a socket that is down.
Sends(frames) == up' = IF sock THEN up \o frames ELSE up
Frame(type, r, n) == <<[type |-> type, room |-> r, n |-> n]>>

\* The effects of Watch for a room: subscribe and history.
Mounted(r, leave) ==
  /\ active' = r
  /\ Sends(leave \o Frame("subscribe", r, 0))
  /\ hist' = [room |-> r, got |-> Nothing]
  /\ timers' = IF timers = {} THEN {} ELSE {"old"}
  /\ deaf' = ~sock
  /\ spoilt' = \/ \E i \in 1..Len(down) : down[i].type = "recv" /\ down[i].room = r
               \/ \E i \in 1..Len(up) : up[i].type = "send" /\ up[i].room = r

\* A room of the list.
Open(r) ==
  /\ active = Nothing /\ r \notin closed /\ Len(up) < MaxFrames
  /\ list' = <<>>
  /\ Mounted(r, <<>>)
  /\ UNCHANGED <<link, sock, down, server, sent>>

\* The route's room has come: over whatever is watched by then.
LinkOpens ==
  /\ link # Nothing /\ Len(up) < MaxFrames
  /\ link' = Nothing
  /\ IF link = active \/ link \in closed
     THEN UNCHANGED <<active, list, hist, timers, up, deaf, spoilt>>
     ELSE /\ list' = IF active = Nothing THEN <<>> ELSE list
          /\ Mounted(link, IF active = Nothing THEN <<>> ELSE Frame("unsubscribe", active, 0))
  /\ UNCHANGED <<sock, down, server, sent>>

\* Watch goes: its requests are forgotten, its timers are not.
Left ==
  /\ active' = Nothing
  /\ Sends(Frame("unsubscribe", active, 0))
  /\ list' = <<>> /\ hist' = Nothing
  /\ deaf' = FALSE /\ spoilt' = FALSE
  /\ UNCHANGED <<link, sock, down, server, sent>>

Leave ==
  /\ active # Nothing /\ Len(up) < MaxFrames
  /\ timers' = IF timers = {} THEN {} ELSE {"old"}
  /\ Left

\* setTimeout(onBack): the page is left, whatever it shows by then.
Bounce(k) ==
  /\ k \in timers /\ Len(up) < MaxFrames
  /\ IF active # Nothing
     THEN timers' = (IF timers = {k} THEN {} ELSE {"old"}) /\ Left
     ELSE /\ timers' = timers \ {k}
          /\ UNCHANGED <<link, active, list, hist, sock, up, down, server, sent, deaf, spoilt>>

-----------------------------------------------------------------------------
(* Chat *)

HistoryRead ==
  /\ hist # Nothing /\ hist.got = Nothing
  /\ hist' = [hist EXCEPT !.got = chat[hist.room]]
  /\ UNCHANGED <<link, active, list, timers, sock, up, down, server, sent, deaf, spoilt>>

\* The history replaces what is shown.
HistoryShown ==
  /\ hist # Nothing /\ hist.got # Nothing
  /\ list' = hist.got /\ hist' = Nothing
  /\ UNCHANGED <<link, active, timers, sock, up, down, server, sent, deaf, spoilt>>

\* sendDanmaku: shown at once, since the server does not send it back.
SendDanmaku ==
  /\ active # Nothing /\ sock /\ sent < MaxSent /\ Len(up) < MaxFrames
  /\ sent' = sent + 1
  /\ Sends(Frame("send", active, sent + 1))
  /\ list' = Append(list, sent + 1)
  /\ spoilt' = (spoilt \/ hist # Nothing)
  /\ UNCHANGED <<link, active, hist, timers, sock, down, server, deaf>>

\* The danmaku of others; to the viewer if the viewer is subscribed.
Others(r) ==
  /\ r \notin closed /\ sent < MaxSent
  /\ sent' = sent + 1
  /\ chat' = [chat EXCEPT ![r] = Append(@, sent + 1)]
  /\ down' = IF r \in subs THEN down \o Frame("recv", r, sent + 1) ELSE down
  /\ spoilt' = (spoilt \/ (r = active /\ (hist # Nothing \/ r \notin subs)))
  /\ UNCHANGED <<link, active, list, hist, timers, sock, up, subs, closed, follows, deaf>>

Served ==
  /\ up # <<>> /\ up' = Tail(up)
  /\ UNCHANGED <<link, active, list, hist, timers, sock, down, sent, closed, follows, deaf>>

Subscribed ==
  /\ Served /\ Head(up).type = "subscribe"
  /\ subs' = subs \union {Head(up).room}
  /\ UNCHANGED <<chat, spoilt>>

\* Mutant: the subscription stays.
Unsubscribed_Stays ==
  /\ Served /\ Head(up).type = "unsubscribe"
  /\ UNCHANGED <<subs, chat, spoilt>>

Unsubscribed ==
  /\ Served /\ Head(up).type = "unsubscribe"
  /\ subs' = subs \ {Head(up).room}
  /\ UNCHANGED <<chat, spoilt>>

\* handleLiveDanmaku; a rejection is only told, the danmaku stays on the page.
Sent ==
  LET f == Head(up)
  IN /\ Served /\ f.type = "send"
     /\ \/ f.room \in subs /\ chat' = [chat EXCEPT ![f.room] = Append(@, f.n)] /\ UNCHANGED spoilt
        \/ chat' = chat /\ spoilt' = (spoilt \/ f.room = active)
     /\ UNCHANGED subs

\* The room is ended or deleted, which its audience is told; or taken back
\* into test mode, which its followers are told.
CloseRoom(r) ==
  /\ r \notin closed
  /\ closed' = closed \union {r}
  /\ \/ down' = IF r \in subs THEN down \o Frame("deleted", r, 0) ELSE down
     \/ down' = IF r \in follows /\ sock THEN down \o Frame("updated", r, 0) ELSE down
  /\ UNCHANGED <<link, active, list, hist, timers, sock, up, subs, chat, sent, follows, deaf, spoilt>>

Heard ==
  /\ down # <<>> /\ down' = Tail(down)
  /\ UNCHANGED <<link, active, hist, sock, up, server, sent, deaf, spoilt>>

\* Mutant: the danmaku of every room.
Received_Any ==
  /\ Heard /\ Head(down).type = "recv"
  /\ list' = IF active # Nothing THEN Append(list, Head(down).n) ELSE list
  /\ UNCHANGED timers

Received ==
  /\ Heard /\ Head(down).type = "recv"
  /\ list' = IF Head(down).room = active THEN Append(list, Head(down).n) ELSE list
  /\ UNCHANGED timers

\* The page is left 1.2 s, or 1.5 s, later.
RoomClosed ==
  /\ Heard /\ Head(down).type \in {"deleted", "updated"}
  /\ timers' = IF Head(down).room = active THEN timers \union {"own"} ELSE timers
  /\ UNCHANGED list

\* The socket is lost, with all that is on its way, and opened again; the
\* page does not subscribe again.
Disconnect ==
  /\ sock /\ sock' = FALSE
  /\ up' = <<>> /\ down' = <<>> /\ subs' = {}
  /\ deaf' = (active # Nothing)
  /\ UNCHANGED <<link, active, list, hist, timers, chat, sent, closed, follows, spoilt>>

Reconnect ==
  /\ ~sock /\ sock' = TRUE
  /\ UNCHANGED <<link, active, list, hist, timers, up, down, server, sent, deaf, spoilt>>

-----------------------------------------------------------------------------
Page == Leave \/ LinkOpens \/ (\E r \in Rooms : Open(r)) \/ (\E k \in {"own", "old"} : Bounce(k))
Chat ==
  \/ HistoryRead \/ HistoryShown \/ SendDanmaku \/ Subscribed \/ Unsubscribed \/ Sent
  \/ Received \/ RoomClosed \/ Disconnect \/ Reconnect
  \/ \E r \in Rooms : Others(r) \/ CloseRoom(r)

WatchNext == Page \/ Chat

-----------------------------------------------------------------------------
WatchTypeOK ==
  /\ link \in Rooms \union {Nothing} /\ active \in Rooms \union {Nothing}
  /\ list \in Seq(1..MaxSent) /\ chat \in [Rooms -> Seq(1..MaxSent)] /\ sent \in 0..MaxSent
  /\ hist \in Histories \union {Nothing}
  /\ timers \subseteq {"own", "old"}
  /\ sock \in BOOLEAN /\ up \in Seq(Frames) /\ down \in Seq(Events)
  /\ subs \subseteq Rooms /\ closed \subseteq Rooms /\ follows \subseteq Rooms
  /\ deaf \in BOOLEAN /\ spoilt \in BOOLEAN

Danmaku(s) == {s[i] : i \in 1..Len(s)}

\* Once the server has seen what the page sent, the connection is subscribed
\* to the room that is watched and to no other; unless the socket was down
\* since the room was opened: nobody subscribes again.
SubscribedToActive ==
  sock /\ up = <<>> => subs = (IF active = Nothing \/ deaf THEN {} ELSE {active})

\* At rest the chat shows every danmaku of the room, once, and nothing else;
\* unless the socket was down, one came or one of the viewer's own was still
\* on its way while the room was opened, or one of his was rejected.
ChatComplete ==
  active # Nothing /\ up = <<>> /\ down = <<>> /\ hist = Nothing /\ ~deaf /\ ~spoilt
    => Danmaku(list) = Danmaku(chat[active]) /\ Len(list) = Len(chat[active])
=============================================================================
