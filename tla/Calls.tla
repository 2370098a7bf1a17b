------------------------------- MODULE Calls -------------------------------
(* Voice and video calls between clients: the store of a call, its peer    *)
(* connection, its microphone and screen, and the control messages that    *)
(* the hub relays.                                                         *)
(*                                                                         *)
(* Every handler runs to its next await at once.  A handler that waits is  *)
(* a task; what it does after the await uses the peer connection and the   *)
(* streams as they are then, and the state of the call as it read it at    *)
(* its start.  Closing a peer connection leaves the operations that wait   *)
(* on it pending for ever, so that their handlers are gone.  The awaits    *)
(* that negotiate one description with the connection are one; ICE         *)
(* candidates only take time.                                              *)
EXTENDS Integers, Sequences, FiniteSets

CONSTANTS Clients, Peers,
          MaxCalls,    \* invitations made
          MaxTasks,    \* handlers of one client that wait at once
          Nil

Slots == 1..MaxTasks
Phases == {"idle", "inviting", "incoming", "connected", "ended"}

\* sig: "offered" when the local offer is set, "offer" when the remote one is.
Links == [to : Peers, sig : {"new", "offered", "offer", "stable"}]
Connections == Links \union {Nil}
\* The call a task belongs to is only known to the history variables.
Tasks == [op : {"start", "ring", "accept", "join", "share", "unshare"},
          at : {"ice", "media", "offer", "answer", "remote", "picker", "replace"},
          with : Peers, muted : BOOLEAN, was : Phases, call : 0..MaxCalls]

ASSUME CallsAssumption ==
  /\ IsFiniteSet(Clients) /\ MaxCalls \in Nat /\ MaxTasks \in Nat \ {0}
  /\ Nil \notin Peers \union Tasks \union Links

VARIABLES
  user,        \* whose client it is, chosen once
  cl,          \* the state of each client
  inbox,       \* relayed messages on their way to each client
  made,        \* calls made so far
  overlapped,  \* history: clients that were torn down, or began again, beside a
               \* task, or whose ringing failed, which nothing catches
  switched,    \* history: clients that were muted or unmuted beside a screen share
  untold       \* history: a message was lost or met another call, or a call ended
               \* without one

history == <<overlapped, switched, untold>>
vars == <<user, cl, inbox, made, history>>

Messages == [type : {"invite", "accept", "reject", "end"}, from : Peers, call : 0..MaxCalls]

Fresh == [phase |-> "idle", peer |-> Nil, muted |-> FALSE, sharing |-> FALSE, pc |-> Nil,
          mic |-> "none", leaked |-> FALSE, screen |-> FALSE,
          tasks |-> [i \in Slots |-> Nil], call |-> 0]

-----------------------------------------------------------------------------
(* The client *)

Waiting(s) == {i \in Slots : s.tasks[i] # Nil}
OnPc == {"offer", "answer", "remote", "replace"}

\* Mutant: hanging up leaves the microphone open.
TornDown_KeepsMic(s) ==
  [s EXCEPT !.pc = Nil, !.screen = FALSE,
            !.tasks = [i \in Slots |-> IF i \in Waiting(s) /\ s.tasks[i].at \in OnPc THEN Nil ELSE s.tasks[i]]]

\* teardown()
TornDown(s) ==
  [s EXCEPT !.pc = Nil, !.mic = "none", !.screen = FALSE,
            !.tasks = [i \in Slots |-> IF i \in Waiting(s) /\ s.tasks[i].at \in OnPc THEN Nil ELSE s.tasks[i]]]

Idle(s) == [s EXCEPT !.phase = "idle", !.peer = Nil, !.muted = FALSE, !.sharing = FALSE]
Ended(s) == [Idle(s) EXCEPT !.phase = "ended"]
Connected(s, u) == [s EXCEPT !.phase = "connected", !.peer = u, !.muted = FALSE, !.sharing = FALSE]

Wait(s, i, stage) == [s EXCEPT !.tasks[i].at = stage]
Done(s, i) == [s EXCEPT !.tasks[i] = Nil]
Task(s, op, stage, u, n) ==
  [op |-> op, at |-> stage, with |-> u, muted |-> s.muted, was |-> s.phase, call |-> n]
Started(s, op, stage, u, n) ==
  [s EXCEPT !.tasks[CHOOSE i \in Slots : s.tasks[i] = Nil] = Task(s, op, stage, u, n)]
HasRoom(s) == \E i \in Slots : s.tasks[i] = Nil

-----------------------------------------------------------------------------
(* The relay: a message goes to every client of the user it is for *)

Post(u, type, c, n) ==
  inbox' = [d \in Clients |-> IF user[d] = u
                              THEN Append(inbox[d], [type |-> type, from |-> user[c], call |-> n])
                              ELSE inbox[d]]

\* A handler of c that closes the connection, or sets one up, beside a task.
Beside(c, ops) == \E i \in Waiting(cl[c]) : cl[c].tasks[i].op \in ops
Setups == {"start", "ring", "accept", "join"}
NoteTeardown(c) == overlapped' = IF \E i \in Waiting(cl[c]) : cl[c].tasks[i].at \notin OnPc
                                 THEN overlapped \union {c} ELSE overlapped
NoteSetup(c) == overlapped' = IF Beside(c, Setups \union {"share", "unshare"})
                              THEN overlapped \union {c} ELSE overlapped

Init ==
  /\ user \in [Clients -> Peers]
  /\ cl = [c \in Clients |-> Fresh]
  /\ inbox = [c \in Clients |-> <<>>]
  /\ made = 0
  /\ overlapped = {} /\ switched = {} /\ untold = FALSE

-----------------------------------------------------------------------------
(* What the user does *)

\* CallControls: what the card of a call offers; to share the screen, only
\* that of a video call.
Buttons(s) ==
  CASE s.phase = "inviting" -> {"end"}
    [] s.phase = "incoming" -> {"accept", "reject"}
    [] s.phase = "connected" -> {"mute", "share", "end"}
    [] OTHER -> {}

\* startCall: the buttons of a conversation are there in every phase.
StartCall(c, u) ==
  /\ made < MaxCalls /\ u # user[c] /\ HasRoom(cl[c])
  /\ made' = made + 1
  /\ cl' = [cl EXCEPT ![c] = [Started(TornDown(Idle(@)), "start", "ice", u, made + 1)
                              EXCEPT !.phase = "inviting", !.peer = u, !.call = made + 1]]
  /\ NoteSetup(c)
  /\ untold' = (untold \/ cl[c].phase \in {"incoming", "connected", "inviting"})
  /\ UNCHANGED <<user, inbox, switched>>

AcceptCall(c) ==
  /\ "accept" \in Buttons(cl[c]) /\ HasRoom(cl[c])
  /\ cl' = [cl EXCEPT ![c] = Started(@, "accept", "answer", cl[c].peer, cl[c].call)]
  /\ NoteSetup(c)
  /\ UNCHANGED <<user, inbox, made, switched, untold>>

RejectCall(c) ==
  /\ "reject" \in Buttons(cl[c])
  /\ Post(cl[c].peer, "reject", c, cl[c].call)
  /\ cl' = [cl EXCEPT ![c] = Idle(TornDown(@))]
  /\ NoteTeardown(c)
  /\ UNCHANGED <<user, made, switched, untold>>

EndCall(c) ==
  /\ "end" \in Buttons(cl[c])
  /\ Post(cl[c].peer, "end", c, cl[c].call)
  /\ cl' = [cl EXCEPT ![c] = Idle(TornDown(@))]
  /\ NoteTeardown(c)
  /\ UNCHANGED <<user, made, switched, untold>>

ToggleMute(c) ==
  /\ "mute" \in Buttons(cl[c]) /\ cl[c].mic # "none"
  /\ cl' = [cl EXCEPT ![c].muted = ~@, ![c].mic = IF cl[c].muted THEN "live" ELSE "silent"]
  /\ switched' = IF Beside(c, {"share", "unshare"}) THEN switched \union {c} ELSE switched
  /\ UNCHANGED <<user, inbox, made, overlapped, untold>>

\* toggleScreenShare, up to its await; in an audio call nothing happens.
ToggleShare(c) ==
  /\ "share" \in Buttons(cl[c]) /\ cl[c].pc # Nil /\ HasRoom(cl[c])
  /\ cl' = [cl EXCEPT ![c] =
       IF cl[c].sharing
       THEN Started([@ EXCEPT !.screen = FALSE], "unshare", "replace", cl[c].peer, cl[c].call)
       ELSE Started(@, "share", "picker", cl[c].peer, cl[c].call)]
  /\ UNCHANGED <<user, inbox, made, history>>

\* The card of an ended call goes after 1.8 s; end() tears down again.
CardGone(c) ==
  /\ cl[c].phase = "ended"
  /\ cl' = [cl EXCEPT ![c] = Idle(TornDown(@))]
  /\ NoteTeardown(c)
  /\ UNCHANGED <<user, inbox, made, switched, untold>>

\* The page is left: end() says nothing to the other side.
LeaveHome(c) ==
  /\ cl[c].phase # "idle"
  /\ cl' = [cl EXCEPT ![c] = Idle(TornDown(@))]
  /\ NoteTeardown(c)
  /\ untold' = TRUE
  /\ UNCHANGED <<user, inbox, made, switched>>

-----------------------------------------------------------------------------
(* Messages *)

Head1(c, type) == inbox[c] # <<>> /\ Head(inbox[c]).type = type
Next1(c) == inbox' = [inbox EXCEPT ![c] = Tail(@)]

\* An invitation that finds the client busy is rejected.
InviteBusy(c) ==
  LET m == Head(inbox[c])
  IN /\ Head1(c, "invite") /\ cl[c].phase # "idle"
     /\ inbox' = [d \in Clients |->
          LET q == IF d = c THEN Tail(inbox[d]) ELSE inbox[d]
          IN IF user[d] = m.from THEN Append(q, [type |-> "reject", from |-> user[c], call |-> m.call]) ELSE q]
     /\ UNCHANGED <<user, cl, made, history>>

\* The phase stays "idle" until the ringing shows.
Invited(c) ==
  LET m == Head(inbox[c])
  IN /\ Head1(c, "invite") /\ cl[c].phase = "idle" /\ HasRoom(cl[c])
     /\ Next1(c)
     /\ cl' = [cl EXCEPT ![c] = Started(@, "ring", "ice", m.from, m.call)]
     /\ NoteSetup(c)
     /\ UNCHANGED <<user, made, switched, untold>>

NoteStray(c, m) == untold' = (untold \/ m.call # cl[c].call)

\* Only an offer that is set can be answered; without a connection the message
\* is ignored, in another state setRemoteDescription throws.
Accepted(c) ==
  LET m == Head(inbox[c])
  IN /\ Head1(c, "accept")
     /\ Next1(c)
     /\ IF cl[c].pc # Nil /\ cl[c].pc.sig = "offered"
        THEN /\ HasRoom(cl[c])
             /\ cl' = [cl EXCEPT ![c] = Started(@, "join", "remote", IF @.peer = Nil THEN m.from ELSE @.peer, cl[c].call)]
             /\ NoteSetup(c)
        ELSE UNCHANGED <<cl, overlapped>>
     /\ NoteStray(c, m)
     /\ UNCHANGED <<user, made, switched>>

\* Whoever it is from, a rejection or an end ends the call of this client.
Stopped(c) ==
  LET m == Head(inbox[c])
  IN /\ Head1(c, "reject") \/ Head1(c, "end")
     /\ Next1(c)
     /\ cl' = [cl EXCEPT ![c] = Ended(TornDown(@))]
     /\ NoteTeardown(c) /\ NoteStray(c, m)
     /\ UNCHANGED <<user, made, switched>>

\* A message is lost: the socket is down, a buffer is full, nobody listens, or
\* the relay refuses it, whose answer "call.rejected" no client understands.
Lose(c) ==
  /\ inbox[c] # <<>>
  /\ Next1(c)
  /\ untold' = TRUE
  /\ UNCHANGED <<user, cl, made, overlapped, switched>>

\* onconnectionstatechange
ConnectionLost(c) ==
  /\ cl[c].pc # Nil /\ cl[c].pc.sig = "stable"
  /\ cl' = [cl EXCEPT ![c] = Ended(TornDown(@))]
  /\ NoteTeardown(c)
  /\ untold' = TRUE
  /\ UNCHANGED <<user, inbox, made, switched>>

-----------------------------------------------------------------------------
(* After an await *)

TaskAt(c, i, op, stage) ==
  cl[c].tasks[i] # Nil /\ cl[c].tasks[i].op \in op /\ cl[c].tasks[i].at = stage
Continue(c, s) ==
  /\ cl' = [cl EXCEPT ![c] = s]
  /\ UNCHANGED <<user, inbox, made, history>>

\* newPeerConnection: the credentials have come; a connection that is there is overwritten.
IceKnown(c, i) ==
  /\ TaskAt(c, i, {"start", "ring"}, "ice")
  /\ Continue(c, Wait([cl[c] EXCEPT !.pc = [to |-> cl[c].tasks[i].with, sig |-> "new"]], i, "media"))

\* The microphone has been granted.  A stream that is overwritten is never
\* stopped; without a connection the new one is kept and addTrack throws.
MediaGranted(c, i) ==
  LET s == [cl[c] EXCEPT !.leaked = @ \/ cl[c].mic # "none", !.mic = "live"]
      start == cl[c].tasks[i].op = "start"
  IN /\ TaskAt(c, i, {"start", "ring"}, "media")
     /\ Continue(c, IF s.pc # Nil THEN Wait(s, i, IF start THEN "offer" ELSE "remote")
                    ELSE IF start THEN Done(Ended(TornDown(s)), i)
                    ELSE Done(s, i))

\* The catch of startCall and acceptCall; the other handlers have none.
Caught(s, i, op) == IF op \in {"start", "accept"} THEN Done(Ended(TornDown(s)), i) ELSE Done(s, i)

\* The microphone is refused, an operation of the connection is rejected, or
\* the user closes the picker.
Fails(c, i) ==
  /\ cl[c].tasks[i] # Nil
  /\ cl[c].tasks[i].at \in {"media", "picker"} \union OnPc
  /\ cl' = [cl EXCEPT ![c] = Caught(@, i, @.tasks[i].op)]
  /\ overlapped' = IF \/ cl[c].tasks[i].op = "ring"
                      \/ cl[c].tasks[i].op \in {"start", "accept"} /\ Waiting(cl[c]) # {i}
                   THEN overlapped \union {c} ELSE overlapped
  /\ untold' = TRUE
  /\ UNCHANGED <<user, inbox, made, switched>>

\* The invitation is sent, whatever has become of the call.
OfferSet(c, i) ==
  /\ TaskAt(c, i, {"start"}, "offer")
  /\ cl' = [cl EXCEPT ![c] = Done([@ EXCEPT !.pc.sig = "offered"], i)]
  /\ Post(cl[c].tasks[i].with, "invite", c, cl[c].tasks[i].call)
  /\ UNCHANGED <<user, made, history>>

Ring(c, i) ==
  LET t == cl[c].tasks[i]
  IN /\ TaskAt(c, i, {"ring"}, "remote")
     /\ Continue(c, Done([cl[c] EXCEPT !.pc.sig = "offer", !.phase = "incoming", !.peer = t.with,
                                       !.muted = FALSE, !.sharing = FALSE, !.call = t.call], i))

\* Mutant: connected without telling the caller.
AnswerSet_Silent(c, i) ==
  /\ TaskAt(c, i, {"accept"}, "answer") /\ cl[c].pc.sig = "offer"
  /\ cl' = [cl EXCEPT ![c] = Done(Connected([@ EXCEPT !.pc.sig = "stable"], @.tasks[i].with), i)]
  /\ UNCHANGED <<user, inbox, made, history>>

\* Only a remote offer can be answered, once.
AnswerSet(c, i) ==
  /\ TaskAt(c, i, {"accept"}, "answer") /\ cl[c].pc.sig = "offer"
  /\ Post(cl[c].tasks[i].with, "accept", c, cl[c].tasks[i].call)
  /\ cl' = [cl EXCEPT ![c] = Done(Connected([@ EXCEPT !.pc.sig = "stable"], @.tasks[i].with), i)]
  /\ UNCHANGED <<user, made, history>>

\* Mutant: the answer is not set.
Joined_NoAnswer(c, i) ==
  LET t == cl[c].tasks[i]
      s == Done(cl[c], i)
  IN /\ TaskAt(c, i, {"join"}, "remote") /\ cl[c].pc.sig = "offered"
     /\ Continue(c, IF t.was = "inviting" THEN Connected(s, t.with) ELSE s)

\* The phase that counts is the one read before the awaits.
Joined(c, i) ==
  LET t == cl[c].tasks[i]
      s == Done([cl[c] EXCEPT !.pc.sig = "stable"], i)
  IN /\ TaskAt(c, i, {"join"}, "remote") /\ cl[c].pc.sig = "offered"
     /\ Continue(c, IF t.was = "inviting" THEN Connected(s, t.with) ELSE s)

\* The picker: the screen is captured before it is sent; the sender of a
\* connection that was closed refuses it.
ScreenPicked(c, i) ==
  /\ TaskAt(c, i, {"share"}, "picker")
  /\ Continue(c, IF cl[c].pc # Nil /\ cl[c].pc.to = cl[c].tasks[i].with /\ cl[c].call = cl[c].tasks[i].call
                 THEN Wait([cl[c] EXCEPT !.screen = TRUE], i, "replace")
                 ELSE Done([cl[c] EXCEPT !.screen = TRUE], i))

\* The state read before the await is written back.
ShareSet(c, i) ==
  LET t == cl[c].tasks[i]
  IN /\ TaskAt(c, i, {"share", "unshare"}, "replace")
     /\ Continue(c, Done([Connected(cl[c], t.with) EXCEPT !.muted = t.muted, !.sharing = (t.op = "share")], i))

-----------------------------------------------------------------------------
Resume(c, i) ==
  \/ IceKnown(c, i) \/ MediaGranted(c, i) \/ Fails(c, i) \/ OfferSet(c, i)
  \/ Ring(c, i) \/ AnswerSet(c, i) \/ Joined(c, i) \/ ScreenPicked(c, i) \/ ShareSet(c, i)

Handle(c) == InviteBusy(c) \/ Invited(c) \/ Accepted(c) \/ Stopped(c)

Next ==
  \E c \in Clients :
    \/ \E u \in Peers : StartCall(c, u)
    \/ AcceptCall(c) \/ RejectCall(c) \/ EndCall(c) \/ ToggleMute(c) \/ ToggleShare(c)
    \/ CardGone(c) \/ LeaveHome(c) \/ Handle(c) \/ Lose(c) \/ ConnectionLost(c)
    \/ \E i \in Slots : Resume(c, i)

Spec == Init /\ [][Next]_vars

-----------------------------------------------------------------------------
TypeOK ==
  /\ user \in [Clients -> Peers]
  /\ DOMAIN cl = Clients
  /\ \A c \in Clients :
       /\ cl[c].phase \in Phases /\ cl[c].peer \in Peers \union {Nil}
       /\ cl[c].muted \in BOOLEAN /\ cl[c].sharing \in BOOLEAN
       /\ cl[c].pc \in Connections /\ cl[c].mic \in {"none", "live", "silent"}
       /\ cl[c].leaked \in BOOLEAN /\ cl[c].screen \in BOOLEAN
       /\ cl[c].tasks \in [Slots -> Tasks \union {Nil}] /\ cl[c].call \in 0..MaxCalls
  /\ inbox \in [Clients -> Seq(Messages)]
  /\ made \in 0..MaxCalls
  /\ overlapped \subseteq Clients /\ switched \subseteq Clients
  /\ untold \in BOOLEAN

AtRest(c) == cl[c].phase \in {"idle", "ended"} /\ Waiting(cl[c]) = {}

\* A client at rest, whose handlers never overlapped, captures neither sound
\* nor screen: every way a call can stop stops its tracks.
MicOffAtRest ==
  \A c \in Clients : AtRest(c) /\ c \notin overlapped =>
    cl[c].mic = "none" /\ ~cl[c].leaked /\ ~cl[c].screen

\* A client that shows a call has negotiated it, with the peer it shows.
ConnectedIsReal ==
  \A c \in Clients : cl[c].phase = "connected" /\ c \notin overlapped =>
    /\ cl[c].pc # Nil /\ cl[c].pc.sig = "stable" /\ cl[c].pc.to = cl[c].peer
    /\ cl[c].mic # "none"

\* The microphone button shows what the microphone does, unless it was used
\* while a screen share was being set up or taken down.
MuteShown ==
  \A c \in Clients : cl[c].phase = "connected" /\ c \notin overlapped \union switched =>
    (cl[c].muted <=> cl[c].mic = "silent")

\* What the card of a call says of the connection and of the microphone is so.
CardTells == ConnectedIsReal /\ MuteShown

\* When nothing is on its way, two users with a client each agree on their
\* call: who is connected is connected with somebody who is connected back.
CallsAgree ==
  ( /\ \A c, d \in Clients : user[c] = user[d] => c = d
    /\ overlapped = {} /\ ~untold
    /\ \A c \in Clients : inbox[c] = <<>> /\ Waiting(cl[c]) = {} )
  => \A c \in Clients : cl[c].phase = "connected" =>
       \E d \in Clients : /\ user[d] = cl[c].peer /\ cl[d].phase = "connected"
                         /\ cl[d].peer = user[c]
=============================================================================
