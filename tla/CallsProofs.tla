----------------------------- MODULE CallsProofs -----------------------------
(***************************************************************************)
(* Proofs about the calls, for any clients, users, numbers of calls and of *)
(* handlers that wait, whatever the relay of their messages loses.         *)
(***************************************************************************)
EXTENDS Calls, TLAPS

-----------------------------------------------------------------------------
(* Calls.                                                                  *)

(* The state of a client, field by field.                                  *)
States == [phase : Phases, peer : Peers \union {Nil}, muted : BOOLEAN, sharing : BOOLEAN, pc : Connections,
           mic : {"none", "live", "silent"}, leaked : BOOLEAN, screen : BOOLEAN,
           tasks : [Slots -> Tasks \union {Nil}], call : 0..MaxCalls]

(* n is a state of a client that is s but for what has changed.            *)
SameBut(n, s, changed) ==
  /\ n \in States
  /\ "phase" \notin changed => n.phase = s.phase
  /\ "peer" \notin changed => n.peer = s.peer
  /\ "muted" \notin changed => n.muted = s.muted
  /\ "sharing" \notin changed => n.sharing = s.sharing
  /\ "pc" \notin changed => n.pc = s.pc
  /\ "mic" \notin changed => n.mic = s.mic
  /\ "leaked" \notin changed => n.leaked = s.leaked
  /\ "screen" \notin changed => n.screen = s.screen
  /\ "tasks" \notin changed => n.tasks = s.tasks
  /\ "call" \notin changed => n.call = s.call

LEMMA StateFields ==
  ASSUME NEW s \in States
  PROVE  /\ s.phase \in Phases /\ s.peer \in Peers \union {Nil} /\ s.muted \in BOOLEAN /\ s.sharing \in BOOLEAN
         /\ s.pc \in Connections /\ s.mic \in {"none", "live", "silent"} /\ s.leaked \in BOOLEAN
         /\ s.screen \in BOOLEAN /\ s.tasks \in [Slots -> Tasks \union {Nil}] /\ s.call \in 0..MaxCalls
  BY DEF States

(* What remains of the tasks when the connection is closed.                *)
Kept(s) == [i \in Slots |-> IF i \in Waiting(s) /\ s.tasks[i].at \in OnPc THEN Nil ELSE s.tasks[i]]
Off(s) == s.pc = Nil /\ s.mic = "none" /\ ~s.screen

LEMMA TornFields ==
  ASSUME NEW s \in States
  PROVE  SameBut(TornDown(s), s, {"pc", "mic", "screen", "tasks"}) /\ Off(TornDown(s)) /\ TornDown(s).tasks = Kept(s)
  <1>1. Kept(s) \in [Slots -> Tasks \union {Nil}] /\ Nil \in Connections
    BY StateFields DEF Kept, Connections
  <1>2. TornDown(s) = [s EXCEPT !.pc = Nil, !.mic = "none", !.screen = FALSE, !.tasks = Kept(s)]
    BY DEF TornDown, Kept
  <1> QED
    BY <1>1, <1>2 DEF States, SameBut, Off

LEMMA IdleFields ==
  ASSUME NEW s \in States
  PROVE  /\ SameBut(Idle(s), s, {"phase", "peer", "muted", "sharing"})
         /\ Idle(s).phase = "idle" /\ Idle(s).peer = Nil /\ ~Idle(s).muted /\ ~Idle(s).sharing
  BY DEF Idle, States, SameBut, Phases

LEMMA EndedFields ==
  ASSUME NEW s \in States
  PROVE  /\ SameBut(Ended(s), s, {"phase", "peer", "muted", "sharing"})
         /\ Ended(s).phase = "ended" /\ Ended(s).peer = Nil /\ ~Ended(s).muted /\ ~Ended(s).sharing
  BY IdleFields DEF Ended, States, SameBut, Phases

LEMMA ConnectedFields ==
  ASSUME NEW s \in States, NEW u \in Peers
  PROVE  /\ SameBut(Connected(s, u), s, {"phase", "peer", "muted", "sharing"})
         /\ Connected(s, u).phase = "connected" /\ Connected(s, u).peer = u
         /\ ~Connected(s, u).muted /\ ~Connected(s, u).sharing
  BY DEF Connected, States, SameBut, Phases

LEMMA TaskFields ==
  ASSUME NEW t \in Tasks
  PROVE  /\ t # Nil /\ t.with \in Peers /\ t.muted \in BOOLEAN /\ t.was \in Phases /\ t.call \in 0..MaxCalls
         /\ t.op \in {"start", "ring", "accept", "join", "share", "unshare"}
         /\ t.at \in {"ice", "media", "offer", "answer", "remote", "picker", "replace"}
  BY CallsAssumption DEF Tasks

LEMMA LinkFields ==
  ASSUME NEW s \in States, s.pc # Nil, NEW x \in {"new", "offered", "offer", "stable"}
  PROVE  LET n == [s EXCEPT !.pc.sig = x]
         IN SameBut(n, s, {"pc"}) /\ n.pc # Nil /\ n.pc.to = s.pc.to /\ n.pc.sig = x
  <1> DEFINE l == [s.pc EXCEPT !.sig = x]
  <1>1. s.pc \in Links
    BY StateFields DEF Connections
  <1>2. l \in Links /\ l.to = s.pc.to /\ l.sig = x
    BY <1>1 DEF Links
  <1>3. [s EXCEPT !.pc.sig = x] = [s EXCEPT !.pc = l]
    BY DEF States
  <1> HIDE DEF l
  <1>4. l # Nil /\ l \in Connections
    BY <1>2, CallsAssumption DEF Connections
  <1> QED
    BY <1>2, <1>3, <1>4 DEF SameBut, States

(* One task changes, ends or begins.                                       *)
OthersWait(n, s, i) == \A j \in Slots : j # i => n.tasks[j] = s.tasks[j]

LEMMA TaskSet ==
  ASSUME NEW s \in States, NEW i \in Slots, NEW t \in Tasks \union {Nil}
  PROVE  LET n == [s EXCEPT !.tasks[i] = t]
         IN SameBut(n, s, {"tasks"}) /\ n.tasks[i] = t /\ OthersWait(n, s, i)
  <1> DEFINE f == [s.tasks EXCEPT ![i] = t]
  <1>1. f \in [Slots -> Tasks \union {Nil}] /\ f[i] = t /\ \A j \in Slots : j # i => f[j] = s.tasks[j]
    BY StateFields
  <1>2. [s EXCEPT !.tasks[i] = t] = [s EXCEPT !.tasks = f]
    BY DEF States
  <1> HIDE DEF f
  <1> QED
    BY <1>1, <1>2 DEF SameBut, States, OthersWait

LEMMA DoneFields ==
  ASSUME NEW s \in States, NEW i \in Slots
  PROVE  SameBut(Done(s, i), s, {"tasks"}) /\ Done(s, i).tasks[i] = Nil /\ OthersWait(Done(s, i), s, i)
  BY TaskSet DEF Done

LEMMA WaitFields ==
  ASSUME NEW s \in States, NEW i \in Slots, s.tasks[i] # Nil,
         NEW a \in {"ice", "media", "offer", "answer", "remote", "picker", "replace"}
  PROVE  LET n == Wait(s, i, a)  t == s.tasks[i]  u == n.tasks[i]
         IN /\ SameBut(n, s, {"tasks"}) /\ OthersWait(n, s, i)
            /\ u \in Tasks /\ u.at = a /\ u.op = t.op /\ u.with = t.with
            /\ u.muted = t.muted /\ u.was = t.was /\ u.call = t.call
  <1> DEFINE t == s.tasks[i]
             v == [t EXCEPT !.at = a]
  <1>1. t \in Tasks
    BY StateFields
  <1>2. v \in Tasks /\ v.at = a /\ v.op = t.op /\ v.with = t.with /\ v.muted = t.muted /\ v.was = t.was /\ v.call = t.call
    BY <1>1 DEF Tasks
  <1>3. Wait(s, i, a) = [s EXCEPT !.tasks[i] = v]
    BY StateFields DEF Wait, States
  <1> HIDE DEF v
  <1> QED
    BY <1>2, <1>3, TaskSet

(* m is s with one more task.                                              *)
BeginsAt(m, s, i, op, a, u, n) ==
  LET t == m.tasks[i]
  IN /\ SameBut(m, s, {"tasks"}) /\ OthersWait(m, s, i) /\ s.tasks[i] = Nil
     /\ t \in Tasks /\ t.op = op /\ t.at = a /\ t.with = u /\ t.muted = s.muted /\ t.was = s.phase /\ t.call = n

LEMMA StartedFields ==
  ASSUME NEW s \in States, HasRoom(s), NEW u \in Peers, NEW n \in 0..MaxCalls,
         NEW op \in {"start", "ring", "accept", "join", "share", "unshare"},
         NEW a \in {"ice", "media", "offer", "answer", "remote", "picker", "replace"}
  PROVE  \E i \in Slots : BeginsAt(Started(s, op, a, u, n), s, i, op, a, u, n)
  <1> DEFINE i == CHOOSE j \in Slots : s.tasks[j] = Nil
             t == Task(s, op, a, u, n)
  <1>1. i \in Slots /\ s.tasks[i] = Nil
    BY DEF HasRoom
  <1>2. t \in Tasks /\ t.op = op /\ t.at = a /\ t.with = u /\ t.muted = s.muted /\ t.was = s.phase /\ t.call = n
    BY StateFields DEF Task, Tasks
  <1>3. Started(s, op, a, u, n) = [s EXCEPT !.tasks[i] = t]
    BY DEF Started
  <1> HIDE DEF i, t
  <1> QED
    BY <1>1, <1>2, <1>3, TaskSet DEF BeginsAt

(* A call that waits knows its peer, and what waits on the connection has one. *)
Wired(s) ==
  /\ s.phase \in {"inviting", "incoming", "connected"} => s.peer \in Peers
  /\ s.phase = "incoming" => s.pc # Nil
  /\ \A i \in Slots : s.tasks[i] # Nil /\ s.tasks[i].at \in OnPc => s.pc # Nil

(* What a task may be doing, phase by phase, if tasks never overlapped.    *)
Link(s, u, sig) == s.pc # Nil /\ s.pc.to = u /\ s.pc.sig = sig
Ringing(s, t) ==
  /\ t.op = "ring"
  /\ \/ t.at = "ice" /\ s.mic = "none"
     \/ t.at = "media" /\ s.mic = "none" /\ Link(s, t.with, "new")
     \/ t.at = "remote" /\ s.mic = "live" /\ Link(s, t.with, "new")
Calling(s, t) ==
  /\ t.with = s.peer
  /\ \/ t.op = "start" /\ t.at = "ice" /\ s.mic = "none"
     \/ t.op = "start" /\ t.at = "media" /\ s.mic = "none" /\ Link(s, t.with, "new")
     \/ t.op = "start" /\ t.at = "offer" /\ s.mic = "live" /\ Link(s, t.with, "new")
     \/ t.op = "join" /\ t.at = "remote" /\ t.was = "inviting" /\ s.mic = "live" /\ Link(s, t.with, "offered")
Answering(s, t) == t.op = "accept" /\ t.at = "answer" /\ t.with = s.peer
Sharing(s, t) == t.op \in {"share", "unshare"} /\ t.with = s.peer

(* The client, if its tasks never overlapped.                              *)
NoneWaits(s) == \A i \in Slots : s.tasks[i] = Nil
OneWaits(s) == \A i, j \in Slots : s.tasks[i] # Nil /\ s.tasks[j] # Nil => i = j
Good(s) ==
  /\ ~s.leaked
  /\ s.phase = "ended" => NoneWaits(s) /\ Off(s)
  /\ s.phase # "connected" => ~s.screen /\ OneWaits(s)
  /\ s.phase = "idle" => (NoneWaits(s) => Off(s)) /\ \A i \in Slots : s.tasks[i] # Nil => Ringing(s, s.tasks[i])
  /\ s.phase = "inviting" =>
       /\ ~s.muted
       /\ NoneWaits(s) => s.mic = "live" /\ Link(s, s.peer, "offered")
       /\ \A i \in Slots : s.tasks[i] # Nil => Calling(s, s.tasks[i])
  /\ s.phase = "incoming" =>
       /\ ~s.muted /\ s.mic = "live" /\ Link(s, s.peer, "offer")
       /\ \A i \in Slots : s.tasks[i] # Nil => Answering(s, s.tasks[i])
  /\ s.phase = "connected" =>
       /\ s.mic # "none" /\ Link(s, s.peer, "stable")
       /\ \A i \in Slots : s.tasks[i] # Nil => Sharing(s, s.tasks[i])

(* Its microphone, if it was not switched beside a screen share.           *)
MuteTold(s) ==
  s.phase = "connected" =>
    /\ s.muted <=> s.mic = "silent"
    /\ \A i \in Slots : s.tasks[i] # Nil => (s.tasks[i].muted <=> s.muted)

Sound(s, ov, sw) == s \in States /\ Wired(s) /\ (~ov => Good(s)) /\ (~ov /\ ~sw => MuteTold(s))

ClientsInv ==
  /\ cl \in [Clients -> States]
  /\ \A c \in Clients : Sound(cl[c], c \in overlapped, c \in switched)

(* A step of one client that leaves it sound.                              *)
Moved(c, n) ==
  /\ cl' = [cl EXCEPT ![c] = n]
  /\ overlapped \subseteq overlapped' /\ overlapped' \subseteq overlapped \union {c}
  /\ switched \subseteq switched' /\ switched' \subseteq switched \union {c}

LEMMA MoveKept ==
  ASSUME ClientsInv, NEW c \in Clients, NEW n, Moved(c, n), Sound(n, c \in overlapped', c \in switched')
  PROVE  ClientsInv'
  <1>1. n \in States /\ cl' \in [Clients -> States] /\ cl'[c] = n /\ \A d \in Clients : d # c => cl'[d] = cl[d]
    BY DEF ClientsInv, Moved, Sound
  <1>2. ASSUME NEW d \in Clients PROVE Sound(cl'[d], d \in overlapped', d \in switched')
    <2>1. CASE d = c
      BY <1>1, <2>1
    <2>2. CASE d # c
      <3>1. (d \in overlapped' <=> d \in overlapped) /\ (d \in switched' <=> d \in switched)
        BY <2>2 DEF Moved
      <3>2. Sound(cl[d], d \in overlapped, d \in switched)
        BY DEF ClientsInv
      <3> QED
        BY <1>1, <2>2, <3>1, <3>2 DEF Sound
    <2> QED
      BY <2>1, <2>2
  <1> QED
    BY <1>1, <1>2 DEF ClientsInv

(* Slots with a task, by what the tasks of a state are made of.            *)
LEMMA KeptFields ==
  ASSUME NEW s \in States, NEW i \in Slots
  PROVE  /\ s.tasks[i] = Nil => Kept(s)[i] = Nil
         /\ Kept(s)[i] # Nil => Kept(s)[i] = s.tasks[i] /\ s.tasks[i].at \notin OnPc
         /\ s.tasks[i] # Nil /\ s.tasks[i].at \in OnPc => Kept(s)[i] = Nil
  BY DEF Kept, Waiting

(* Whatever ends a call leaves nothing behind, unless a task still waits   *)
(* for something else than the connection.                                 *)
LEMMA StoppedSound ==
  ASSUME NEW s \in States, NEW n, n = Idle(TornDown(s)) \/ n = Ended(TornDown(s))
  PROVE  /\ SameBut(n, s, {"phase", "peer", "muted", "sharing", "pc", "mic", "screen", "tasks"})
         /\ n.tasks = Kept(s) /\ Off(n) /\ Wired(n) /\ MuteTold(n) /\ n.phase \in {"idle", "ended"}
         /\ ~s.leaked /\ (\A i \in Slots : s.tasks[i] # Nil => s.tasks[i].at \in OnPc) => Good(n)
  <1>1. /\ SameBut(n, s, {"phase", "peer", "muted", "sharing", "pc", "mic", "screen", "tasks"})
        /\ n.tasks = Kept(s) /\ Off(n) /\ n.phase \in {"idle", "ended"}
    BY TornFields, IdleFields, EndedFields DEF SameBut, Off
  <1>2. Wired(n)
    BY <1>1, KeptFields DEF Wired
  <1>3. ASSUME ~s.leaked, \A i \in Slots : s.tasks[i] # Nil => s.tasks[i].at \in OnPc PROVE Good(n)
    <2>1. NoneWaits(n)
      BY <1>1, <1>3, KeptFields DEF NoneWaits
    <2> QED
      BY <1>1, <1>3, <2>1 DEF Good, NoneWaits, OneWaits, SameBut, Off
  <1> QED
    BY <1>1, <1>2, <1>3 DEF MuteTold

LEMMA StopMoves ==
  ASSUME ClientsInv, NEW c \in Clients, NEW n, n = Idle(TornDown(cl[c])) \/ n = Ended(TornDown(cl[c])),
         cl' = [cl EXCEPT ![c] = n], NoteTeardown(c), switched' = switched
  PROVE  ClientsInv'
  <1>1. Moved(c, n)
    BY DEF Moved, NoteTeardown
  <1>2. cl[c] \in States /\ (c \notin overlapped => Good(cl[c]))
    BY DEF ClientsInv, Sound
  <1>3. c \notin overlapped' => c \notin overlapped /\ \A i \in Slots : cl[c].tasks[i] # Nil => cl[c].tasks[i].at \in OnPc
    BY DEF NoteTeardown, Waiting
  <1>4. c \notin overlapped' => Good(n)
    BY <1>2, <1>3, StoppedSound DEF Good
  <1>5. n \in States /\ Wired(n) /\ MuteTold(n)
    BY <1>2, StoppedSound DEF SameBut
  <1> QED
    BY <1>1, <1>4, <1>5, MoveKept DEF Sound

(* A set-up beside no other task.                                          *)
LEMMA SetupAlone ==
  ASSUME ClientsInv, NEW c \in Clients, NoteSetup(c)
  PROVE  /\ overlapped \subseteq overlapped' /\ overlapped' \subseteq overlapped \union {c}
         /\ c \notin overlapped' => c \notin overlapped /\ NoneWaits(cl[c]) /\ Good(cl[c])
  <1>1. cl[c] \in States /\ (c \notin overlapped => Good(cl[c]))
    BY DEF ClientsInv, Sound
  <1>2. \A i \in Slots : cl[c].tasks[i] # Nil => cl[c].tasks[i].op \in Setups \union {"share", "unshare"}
    BY <1>1, StateFields, TaskFields DEF Setups
  <1>3. c \notin overlapped' => c \notin overlapped /\ NoneWaits(cl[c])
    BY <1>2 DEF NoteSetup, Beside, Waiting, NoneWaits
  <1> QED
    BY <1>1, <1>3 DEF NoteSetup

LEMMA Sounds ==
  ASSUME ClientsInv, NEW c \in Clients
  PROVE  /\ cl[c] \in States /\ Wired(cl[c])
         /\ c \notin overlapped => Good(cl[c])
         /\ c \notin overlapped /\ c \notin switched => MuteTold(cl[c])
  BY DEF ClientsInv, Sound

LEMMA StartMoves ==
  ASSUME ClientsInv, made \in 0..MaxCalls, NEW c \in Clients, NEW u \in Peers, StartCall(c, u)
  PROVE  ClientsInv'
  <1> DEFINE s == cl[c]
             m == TornDown(Idle(s))
             k == Started(m, "start", "ice", u, made + 1)
             n == [k EXCEPT !.phase = "inviting", !.peer = u, !.call = made + 1]
  <1>1. cl' = [cl EXCEPT ![c] = n] /\ NoteSetup(c) /\ switched' = switched /\ HasRoom(s)
    BY DEF StartCall
  <1>2. made + 1 \in 0..MaxCalls
    BY CallsAssumption DEF StartCall
  <1>3. s \in States
    BY Sounds
  <1> HIDE DEF s
  <1>4. /\ SameBut(m, s, {"phase", "peer", "muted", "sharing", "pc", "mic", "screen", "tasks"})
        /\ Off(m) /\ ~m.muted /\ m.tasks = Kept(s)
    <2>1. Kept(Idle(s)) = Kept(s)
      BY <1>3, IdleFields DEF Kept, Waiting, SameBut
    <2> QED
      BY <1>3, <2>1, IdleFields, TornFields DEF SameBut, Off
  <1>5. HasRoom(m)
    BY <1>1, <1>3, <1>4, KeptFields DEF HasRoom
  <1> HIDE DEF m
  <1>a. PICK i \in Slots : BeginsAt(k, m, i, "start", "ice", u, made + 1)
    BY <1>2, <1>4, <1>5, StartedFields DEF SameBut
  <1>6. /\ SameBut(k, m, {"tasks"}) /\ OthersWait(k, m, i) /\ m.tasks[i] = Nil
        /\ k.tasks[i] \in Tasks /\ k.tasks[i].op = "start" /\ k.tasks[i].at = "ice" /\ k.tasks[i].with = u
    BY <1>a DEF BeginsAt
  <1> HIDE DEF k
  <1>7. /\ SameBut(n, k, {"phase", "peer", "call"}) /\ n.phase = "inviting" /\ n.peer = u
    BY <1>2, <1>6 DEF SameBut, States, Phases
  <1> HIDE DEF n
  <1>8. Wired(n)
    <2>1. ASSUME NEW j \in Slots, n.tasks[j] # Nil PROVE n.tasks[j].at \notin OnPc
      <3>1. CASE j = i
        BY <1>6, <1>7, <3>1 DEF SameBut, OnPc
      <3>2. CASE j # i
        BY <1>3, <1>4, <1>6, <1>7, <2>1, <3>2, KeptFields DEF SameBut, OthersWait
      <3> QED
        BY <3>1, <3>2
    <2> QED
      BY <1>7, <2>1 DEF Wired
  <1>9. c \notin overlapped' => Good(n)
    <2> SUFFICES ASSUME c \notin overlapped' PROVE Good(n)
      OBVIOUS
    <2>1. NoneWaits(s) /\ ~s.leaked
      BY <1>1, SetupAlone DEF s, Good
    <2>2. \A j \in Slots : j # i => n.tasks[j] = Nil
      BY <1>3, <1>4, <1>6, <1>7, <2>1, KeptFields DEF SameBut, OthersWait, NoneWaits
    <2>3. n.tasks[i] # Nil /\ Calling(n, n.tasks[i])
      BY <1>4, <1>6, <1>7, TaskFields DEF SameBut, Calling, Off
    <2> QED
      BY <1>4, <1>6, <1>7, <2>1, <2>2, <2>3 DEF SameBut, Good, NoneWaits, OneWaits, Off
  <1>10. Sound(n, c \in overlapped', c \in switched') /\ Moved(c, n)
    BY <1>1, <1>7, <1>8, <1>9, SetupAlone DEF Sound, Moved, MuteTold, SameBut
  <1> QED
    BY <1>10, MoveKept

(* Such a task is what a client without a task may begin with.             *)
MayBegin(s, op, a, u) ==
  Good(s) /\ NoneWaits(s) =>
    \A t \in Tasks : t.op = op /\ t.at = a /\ t.with = u /\ t.was = s.phase =>
      \/ s.phase = "idle" /\ Ringing(s, t)
      \/ s.phase = "inviting" /\ Calling(s, t)
      \/ s.phase = "incoming" /\ Answering(s, t)

(* A task that begins where the phase stays: it is added to the others.    *)
LEMMA Begins ==
  ASSUME ClientsInv, NEW c \in Clients, HasRoom(cl[c]), NEW u \in Peers, NEW k \in 0..MaxCalls,
         NEW op \in {"start", "ring", "accept", "join", "share", "unshare"},
         NEW a \in {"ice", "media", "offer", "answer", "remote", "picker", "replace"},
         a \in OnPc => cl[c].pc # Nil,
         cl' = [cl EXCEPT ![c] = Started(cl[c], op, a, u, k)], NoteSetup(c), switched' = switched,
         MayBegin(cl[c], op, a, u)
  PROVE  ClientsInv'
  <1> DEFINE s == cl[c]
             n == Started(s, op, a, u, k)
  <1>1. s \in States /\ Wired(s)
    BY Sounds
  <1>a. PICK i \in Slots : BeginsAt(n, s, i, op, a, u, k)
    BY <1>1, StartedFields
  <1>2. /\ SameBut(n, s, {"tasks"}) /\ OthersWait(n, s, i) /\ s.tasks[i] = Nil
        /\ n.tasks[i] \in Tasks /\ n.tasks[i].op = op /\ n.tasks[i].at = a /\ n.tasks[i].with = u
        /\ n.tasks[i].was = s.phase
    BY <1>a DEF BeginsAt
  <1> HIDE DEF n
  <1>3. Wired(n)
    BY <1>1, <1>2 DEF Wired, SameBut, OthersWait
  <1>4. c \notin overlapped' => Good(n)
    <2> SUFFICES ASSUME c \notin overlapped' PROVE Good(n)
      OBVIOUS
    <2>1. NoneWaits(s) /\ Good(s)
      BY SetupAlone
    <2> DEFINE t == n.tasks[i]
    <2>2. \/ s.phase = "idle" /\ Ringing(s, t)
          \/ s.phase = "inviting" /\ Calling(s, t)
          \/ s.phase = "incoming" /\ Answering(s, t)
      BY <1>2, <2>1 DEF MayBegin
    <2>3. t # Nil /\ \A j \in Slots : j # i => n.tasks[j] = Nil
      BY <1>2, <2>1, TaskFields DEF OthersWait, NoneWaits
    <2> HIDE DEF s
    <2>4. \/ n.phase = "idle" /\ Ringing(n, t)
          \/ n.phase = "inviting" /\ Calling(n, t)
          \/ n.phase = "incoming" /\ Answering(n, t)
      BY <1>2, <2>2 DEF SameBut, Ringing, Calling, Answering, Link
    <2> QED
      BY <1>2, <2>1, <2>3, <2>4 DEF SameBut, Good, NoneWaits, OneWaits, Link
  <1>5. c \notin overlapped' => MuteTold(n)
    <2> SUFFICES ASSUME c \notin overlapped' PROVE n.phase # "connected"
      BY DEF MuteTold
    <2>1. NoneWaits(s) /\ Good(s)
      BY SetupAlone
    <2> QED
      BY <1>2, <2>1 DEF SameBut, MayBegin
  <1>6. Sound(n, c \in overlapped', c \in switched') /\ Moved(c, n)
    BY <1>2, <1>3, <1>4, <1>5, SetupAlone DEF Sound, Moved, SameBut, n
  <1> QED
    BY <1>6, MoveKept

LEMMA MuteMoves ==
  ASSUME ClientsInv, NEW c \in Clients, ToggleMute(c)
  PROVE  ClientsInv'
  <1> DEFINE s == cl[c]
             w == IF s.muted THEN "live" ELSE "silent"
             n == [s EXCEPT !.muted = ~@, !.mic = w]
  <1>1. s \in States /\ Wired(s) /\ s.phase = "connected"
    BY Sounds DEF ToggleMute, Buttons
  <1>2. cl' = [cl EXCEPT ![c] = n] /\ overlapped' = overlapped
        /\ switched' = IF Beside(c, {"share", "unshare"}) THEN switched \union {c} ELSE switched
    BY DEF ToggleMute, ClientsInv
  <1>3. SameBut(n, s, {"muted", "mic"}) /\ (n.muted <=> ~s.muted) /\ n.mic = w
    <2> HIDE DEF s, w
    <2>1. w \in {"live", "silent"} /\ s \in States
      BY <1>1 DEF w
    <2> QED
      BY <2>1 DEF SameBut, States
  <1> HIDE DEF n
  <1>4. Wired(n)
    BY <1>1, <1>3 DEF Wired, SameBut
  <1>5. c \notin overlapped => Good(n)
    BY <1>1, <1>3, Sounds DEF Good, SameBut, Link, Sharing
  <1>6. c \notin overlapped /\ c \notin switched' => NoneWaits(s)
    BY <1>1, <1>2, Sounds DEF Good, Sharing, Beside, Waiting, NoneWaits
  <1>7. c \notin overlapped /\ c \notin switched' => MuteTold(n)
    BY <1>3, <1>6 DEF MuteTold, NoneWaits, SameBut
  <1>8. Sound(n, c \in overlapped', c \in switched') /\ Moved(c, n)
    BY <1>2, <1>3, <1>4, <1>5, <1>7 DEF Sound, Moved, SameBut, n
  <1> QED
    BY <1>8, MoveKept

LEMMA ShareMoves ==
  ASSUME ClientsInv, NEW c \in Clients, ToggleShare(c)
  PROVE  ClientsInv'
  <1> DEFINE s == cl[c]
             m == IF s.sharing THEN [s EXCEPT !.screen = FALSE] ELSE s
             op == IF s.sharing THEN "unshare" ELSE "share"
             a == IF s.sharing THEN "replace" ELSE "picker"
             n == Started(m, op, a, s.peer, s.call)
  <1>1. s \in States /\ Wired(s) /\ s.phase = "connected" /\ s.pc # Nil /\ HasRoom(s)
    BY Sounds DEF ToggleShare, Buttons
  <1>2. cl' = [cl EXCEPT ![c] = n] /\ UNCHANGED <<overlapped, switched>>
    BY DEF ToggleShare, history
  <1>3. s.peer \in Peers /\ s.call \in 0..MaxCalls
    BY <1>1, StateFields DEF Wired
  <1> HIDE DEF s
  <1>4. SameBut(m, s, {"screen"}) /\ HasRoom(m)
    BY <1>1 DEF SameBut, States, HasRoom
  <1>5. op \in {"share", "unshare"} /\ a \in {"replace", "picker"}
    OBVIOUS
  <1> HIDE DEF m, op, a
  <1>a. PICK i \in Slots : BeginsAt(n, m, i, op, a, s.peer, s.call)
    BY <1>3, <1>4, <1>5, StartedFields DEF SameBut
  <1>6. /\ SameBut(n, m, {"tasks"}) /\ OthersWait(n, m, i) /\ m.tasks[i] = Nil
        /\ n.tasks[i] \in Tasks /\ n.tasks[i].op = op /\ n.tasks[i].at = a /\ n.tasks[i].with = s.peer
        /\ n.tasks[i].muted = m.muted
    BY <1>a DEF BeginsAt
  <1> HIDE DEF n
  <1>7. Wired(n)
    BY <1>1, <1>3, <1>4, <1>6 DEF Wired, SameBut, OthersWait
  <1>8. ASSUME Good(s) PROVE Good(n)
    <2>1. \A j \in Slots : n.tasks[j] # Nil => Sharing(n, n.tasks[j])
      BY <1>1, <1>4, <1>5, <1>6, <1>8 DEF Good, SameBut, OthersWait, Sharing
    <2> QED
      BY <1>1, <1>4, <1>6, <1>8, <2>1 DEF Good, SameBut, Link
  <1>9. ASSUME MuteTold(s) PROVE MuteTold(n)
    BY <1>1, <1>4, <1>6, <1>9 DEF MuteTold, SameBut, OthersWait
  <1>10. Sound(n, c \in overlapped', c \in switched') /\ Moved(c, n)
    BY <1>2, <1>6, <1>7, <1>8, <1>9, Sounds DEF Sound, Moved, SameBut, s
  <1> QED
    BY <1>10, MoveKept

LEMMA AcceptMoves ==
  ASSUME ClientsInv, NEW c \in Clients, AcceptCall(c)
  PROVE  ClientsInv'
  <1>1. /\ cl[c] \in States /\ Wired(cl[c]) /\ cl[c].phase = "incoming" /\ HasRoom(cl[c])
        /\ cl' = [cl EXCEPT ![c] = Started(cl[c], "accept", "answer", cl[c].peer, cl[c].call)]
        /\ NoteSetup(c) /\ switched' = switched
    BY Sounds DEF AcceptCall, Buttons
  <1>2. cl[c].peer \in Peers /\ cl[c].call \in 0..MaxCalls /\ cl[c].pc # Nil
    BY <1>1, StateFields DEF Wired
  <1>3. MayBegin(cl[c], "accept", "answer", cl[c].peer)
    BY <1>1 DEF Answering, MayBegin
  <1> QED
    BY <1>1, <1>2, <1>3, Begins

LEMMA InvitedMoves ==
  ASSUME ClientsInv, inbox \in [Clients -> Seq(Messages)], NEW c \in Clients, Invited(c)
  PROVE  ClientsInv'
  <1> DEFINE m == Head(inbox[c])
  <1>1. m \in Messages
    BY DEF Invited, Head1
  <1>2. m.from \in Peers /\ m.call \in 0..MaxCalls
    BY <1>1 DEF Messages
  <1>3. /\ cl[c].phase = "idle" /\ HasRoom(cl[c])
        /\ cl' = [cl EXCEPT ![c] = Started(cl[c], "ring", "ice", m.from, m.call)]
        /\ NoteSetup(c) /\ switched' = switched
    BY DEF Invited
  <1> HIDE DEF m
  <1>4. MayBegin(cl[c], "ring", "ice", m.from)
    BY <1>3 DEF Good, Off, Ringing, MayBegin
  <1>5. "ice" \notin OnPc
    BY DEF OnPc
  <1> QED
    BY <1>2, <1>3, <1>4, <1>5, Begins

LEMMA AcceptedMoves ==
  ASSUME ClientsInv, inbox \in [Clients -> Seq(Messages)], NEW c \in Clients, Accepted(c)
  PROVE  ClientsInv'
  <1> DEFINE s == cl[c]
             u == IF s.peer = Nil THEN Head(inbox[c]).from ELSE s.peer
  <1>1. s \in States /\ Wired(s) /\ switched' = switched
    BY Sounds DEF Accepted
  <1>2. CASE UNCHANGED <<cl, overlapped>>
    BY <1>1, <1>2 DEF ClientsInv
  <1>3. CASE /\ s.pc # Nil /\ s.pc.sig = "offered" /\ HasRoom(s) /\ NoteSetup(c)
             /\ cl' = [cl EXCEPT ![c] = Started(s, "join", "remote", u, s.call)]
    <2>1. Head(inbox[c]).from \in Peers
      <3>1. Head(inbox[c]) \in Messages
        BY DEF Accepted, Head1
      <3> QED
        BY <3>1 DEF Messages
    <2>2. u \in Peers /\ s.call \in 0..MaxCalls
      BY <1>1, <2>1, StateFields
    <2>3. ASSUME Good(s), NoneWaits(s), NEW t \in Tasks, t.op = "join", t.at = "remote", t.with = u, t.was = s.phase
          PROVE  s.phase = "inviting" /\ Calling(s, t)
      <3>1. s.phase = "inviting"
        BY <1>1, <1>3, <2>3, StateFields DEF Good, Off, Link, Phases
      <3>2. s.peer \in Peers /\ s.peer # Nil
        BY <1>1, <3>1, CallsAssumption DEF Wired
      <3> QED
        BY <2>3, <3>1, <3>2 DEF Good, Calling
    <2>4. MayBegin(s, "join", "remote", u)
      BY <2>3 DEF MayBegin
    <2> QED
      BY <1>1, <1>3, <2>2, <2>4, Begins
  <1> QED
    BY <1>2, <1>3 DEF Accepted

(* A task goes on, or ends, and leaves the histories.                      *)
LEMMA TaskMoves ==
  ASSUME ClientsInv, NEW c \in Clients, NEW n, cl' = [cl EXCEPT ![c] = n], UNCHANGED <<overlapped, switched>>,
         n \in States, Wired(n), Good(cl[c]) => Good(n), Good(cl[c]) /\ MuteTold(cl[c]) => MuteTold(n)
  PROVE  ClientsInv'
  <1>1. Moved(c, n) /\ Sound(n, c \in overlapped', c \in switched')
    BY Sounds DEF Moved, Sound
  <1> QED
    BY <1>1, MoveKept

LEMMA LastTask ==
  ASSUME NEW s, NEW n, Good(s), s.phase # "connected", NEW i \in Slots, s.tasks[i] # Nil,
         n.tasks[i] = Nil, OthersWait(n, s, i)
  PROVE  NoneWaits(n)
  BY DEF Good, OneWaits, NoneWaits, OthersWait

LEMMA IceMoves ==
  ASSUME ClientsInv, NEW c \in Clients, NEW i \in Slots, IceKnown(c, i)
  PROVE  ClientsInv'
  <1> DEFINE s == cl[c]
             t == s.tasks[i]
             l == [to |-> t.with, sig |-> "new"]
             m == [s EXCEPT !.pc = l]
             n == Wait(m, i, "media")
  <1>1. /\ s \in States /\ Wired(s) /\ t \in Tasks /\ t # Nil /\ t.op \in {"start", "ring"} /\ t.at = "ice"
        /\ cl' = [cl EXCEPT ![c] = n] /\ UNCHANGED <<overlapped, switched>>
    BY Sounds, StateFields DEF IceKnown, TaskAt, Continue, history
  <1>2. l \in Links /\ l.to = t.with /\ l.sig = "new" /\ l \in Connections /\ l # Nil
    BY <1>1, TaskFields, CallsAssumption DEF Links, Connections
  <1> HIDE DEF s, l
  <1>3. SameBut(m, s, {"pc"}) /\ m.pc = l
    BY <1>1, <1>2 DEF SameBut, States
  <1> HIDE DEF m
  <1>4. /\ SameBut(n, m, {"tasks"}) /\ OthersWait(n, m, i)
        /\ n.tasks[i].at = "media" /\ n.tasks[i].op = t.op /\ n.tasks[i].with = t.with /\ n.tasks[i] \in Tasks
    BY <1>1, <1>3, WaitFields DEF SameBut
  <1> HIDE DEF n
  <1>5. Wired(n)
    BY <1>1, <1>2, <1>3, <1>4 DEF Wired, SameBut, OthersWait
  <1>6. ASSUME Good(s) PROVE Good(n) /\ n.phase # "connected"
    <2>1. \/ s.phase = "idle" /\ Ringing(s, t)
          \/ s.phase = "inviting" /\ Calling(s, t)
      BY <1>1, <1>6, StateFields DEF Good, NoneWaits, Answering, Sharing, Phases
    <2>2. n.tasks[i] # Nil /\ \A j \in Slots : j # i => n.tasks[j] = Nil
      BY <1>1, <1>3, <1>4, <1>6, <2>1, TaskFields DEF Good, OneWaits, OthersWait, SameBut
    <2>3. \/ n.phase = "idle" /\ Ringing(n, n.tasks[i])
          \/ n.phase = "inviting" /\ Calling(n, n.tasks[i])
      BY <1>1, <1>2, <1>3, <1>4, <2>1 DEF SameBut, Ringing, Calling, Link
    <2> QED
      BY <1>3, <1>4, <1>6, <2>1, <2>2, <2>3 DEF Good, SameBut, NoneWaits, OneWaits
  <1> QED
    BY <1>1, <1>4, <1>5, <1>6, TaskMoves DEF SameBut, MuteTold, s

LEMMA MediaMoves ==
  ASSUME ClientsInv, NEW c \in Clients, NEW i \in Slots, MediaGranted(c, i)
  PROVE  ClientsInv'
  <1> DEFINE s == cl[c]
             t == s.tasks[i]
             m == [s EXCEPT !.leaked = @ \/ s.mic # "none", !.mic = "live"]
             a == IF t.op = "start" THEN "offer" ELSE "remote"
             n == IF m.pc # Nil THEN Wait(m, i, a)
                  ELSE IF t.op = "start" THEN Done(Ended(TornDown(m)), i) ELSE Done(m, i)
  <1>1. /\ s \in States /\ Wired(s) /\ t \in Tasks /\ t # Nil /\ t.op \in {"start", "ring"} /\ t.at = "media"
        /\ cl' = [cl EXCEPT ![c] = n] /\ UNCHANGED <<overlapped, switched>>
    BY Sounds, StateFields DEF MediaGranted, TaskAt, Continue, history
  <1> HIDE DEF s
  <1>2. /\ SameBut(m, s, {"leaked", "mic"}) /\ m.mic = "live"
        /\ s.mic = "none" /\ ~s.leaked => ~m.leaked
    <2> DEFINE y == s.leaked \/ s.mic # "none"
    <2>1. y \in BOOLEAN /\ m = [s EXCEPT !.leaked = y, !.mic = "live"] /\ (s.mic = "none" /\ ~s.leaked => ~y)
      BY <1>1 DEF States
    <2> HIDE DEF y, m
    <2> QED
      BY <1>1, <2>1 DEF SameBut, States
  <1> HIDE DEF m
  <1>3. CASE m.pc # Nil
    <2>0. n = Wait(m, i, a) /\ a \in {"offer", "remote"} /\ (a = "offer" <=> t.op = "start")
      BY <1>3
    <2> HIDE DEF n, a
    <2>1. /\ SameBut(n, m, {"tasks"}) /\ OthersWait(n, m, i)
          /\ n.tasks[i].at = a /\ n.tasks[i].op = t.op /\ n.tasks[i].with = t.with /\ n.tasks[i] \in Tasks
      BY <1>1, <1>2, <2>0, WaitFields DEF SameBut
    <2>2. Wired(n)
      BY <1>1, <1>2, <1>3, <2>1 DEF Wired, SameBut, OthersWait
    <2>3. ASSUME Good(s) PROVE Good(n) /\ n.phase # "connected"
      <3>1. \/ s.phase = "idle" /\ Ringing(s, t)
            \/ s.phase = "inviting" /\ Calling(s, t)
        BY <1>1, <2>3, StateFields DEF Good, NoneWaits, Answering, Sharing, Phases
      <3>2. n.tasks[i] # Nil /\ \A j \in Slots : j # i => n.tasks[j] = Nil
        BY <1>1, <1>2, <2>1, <2>3, <3>1, TaskFields DEF Good, OneWaits, OthersWait, SameBut
      <3>3. s.mic = "none" /\ Link(s, t.with, "new")
        BY <1>1, <3>1 DEF Ringing, Calling
      <3>4. \/ n.phase = "idle" /\ Ringing(n, n.tasks[i])
            \/ n.phase = "inviting" /\ Calling(n, n.tasks[i])
        BY <1>1, <1>2, <2>0, <2>1, <3>1, <3>3 DEF SameBut, Ringing, Calling, Link
      <3> QED
        BY <1>2, <2>1, <2>3, <3>1, <3>2, <3>3, <3>4 DEF Good, SameBut, NoneWaits, OneWaits
    <2> QED
      BY <1>1, <2>1, <2>2, <2>3, TaskMoves DEF SameBut, MuteTold, s
  <1>4. CASE m.pc = Nil
    <2>1. ~Good(s)
      <3> SUFFICES ASSUME Good(s) PROVE FALSE
        OBVIOUS
      <3>1. \/ s.phase = "idle" /\ Ringing(s, t)
            \/ s.phase = "inviting" /\ Calling(s, t)
        BY <1>1, StateFields DEF Good, NoneWaits, Answering, Sharing, Phases
      <3> QED
        BY <1>1, <1>2, <1>4, <3>1 DEF Ringing, Calling, Link, SameBut
    <2>2. n \in States /\ Wired(n)
      <3>1. CASE t.op = "start"
        <4> DEFINE e == Ended(TornDown(m))
        <4>1. n = Done(e, i) /\ m \in States
          BY <1>2, <1>4, <3>1 DEF SameBut
        <4>2. e \in States /\ Wired(e)
          BY <4>1, StoppedSound DEF SameBut
        <4> HIDE DEF e, n
        <4> QED
          BY <4>1, <4>2, DoneFields DEF SameBut, Wired, OthersWait
      <3>2. CASE t.op # "start"
        <4>1. n = Done(m, i) /\ m \in States
          BY <1>2, <1>4, <3>2 DEF SameBut
        <4> HIDE DEF n
        <4> QED
          BY <1>1, <1>2, <4>1, DoneFields DEF SameBut, Wired, OthersWait
      <3> QED
        BY <3>1, <3>2
    <2> HIDE DEF n
    <2> QED
      BY <1>1, <2>1, <2>2, TaskMoves DEF s
  <1> QED
    BY <1>3, <1>4

(* A task that fails, and what the handler makes of it.                    *)
LEMMA FailMoves ==
  ASSUME ClientsInv, NEW c \in Clients, NEW i \in Slots, Fails(c, i)
  PROVE  ClientsInv'
  <1> DEFINE s == cl[c]
             t == s.tasks[i]
             n == Caught(s, i, t.op)
  <1>1. /\ s \in States /\ Wired(s) /\ t \in Tasks /\ t # Nil /\ switched' = switched
        /\ cl' = [cl EXCEPT ![c] = n]
        /\ overlapped' = IF t.op = "ring" \/ (t.op \in {"start", "accept"} /\ Waiting(s) # {i})
                         THEN overlapped \union {c} ELSE overlapped
    BY Sounds, StateFields DEF Fails
  <1>2. (c \notin overlapped => Good(s)) /\ (c \notin overlapped /\ c \notin switched => MuteTold(s))
    BY Sounds
  <1>3. Moved(c, n)
    BY <1>1 DEF Moved
  <1> HIDE DEF s
  <1>4. CASE t.op \in {"start", "accept"}
    <2> DEFINE e == Ended(TornDown(s))
    <2>1. n = Done(e, i)
      BY <1>4 DEF Caught
    <2>2. /\ SameBut(e, s, {"phase", "peer", "muted", "sharing", "pc", "mic", "screen", "tasks"})
          /\ e.tasks = Kept(s) /\ Off(e) /\ Wired(e) /\ e.phase = "ended"
      BY <1>1, StoppedSound, EndedFields, TornFields DEF SameBut
    <2> HIDE DEF e, n
    <2>3. SameBut(n, e, {"tasks"}) /\ n.tasks[i] = Nil /\ OthersWait(n, e, i)
      BY <2>1, <2>2, DoneFields DEF SameBut
    <2>4. Wired(n)
      BY <2>2, <2>3 DEF Wired, SameBut, OthersWait
    <2>5. c \notin overlapped' => Good(n)
      <3> SUFFICES ASSUME c \notin overlapped' PROVE Good(n)
        OBVIOUS
      <3>1. Waiting(s) = {i} /\ Good(s)
        BY <1>1, <1>2, <1>4
      <3>2. \A j \in Slots : j # i => s.tasks[j] = Nil
        BY <3>1 DEF Waiting
      <3>3. NoneWaits(n)
        BY <1>1, <2>2, <2>3, <3>2, KeptFields DEF NoneWaits, OthersWait
      <3> QED
        BY <2>2, <2>3, <3>1, <3>3 DEF Good, SameBut, Off, NoneWaits, OneWaits
    <2> QED
      BY <1>1, <1>3, <2>2, <2>3, <2>4, <2>5, MoveKept DEF Sound, SameBut, MuteTold
  <1>5. CASE t.op \notin {"start", "accept"}
    <2>1. n = Done(s, i)
      BY <1>5 DEF Caught
    <2> HIDE DEF n
    <2>2. SameBut(n, s, {"tasks"}) /\ n.tasks[i] = Nil /\ OthersWait(n, s, i)
      BY <1>1, <2>1, DoneFields
    <2>3. Wired(n)
      BY <1>1, <2>2 DEF Wired, SameBut, OthersWait
    <2>4. c \notin overlapped' => Good(n)
      <3> SUFFICES ASSUME c \notin overlapped' PROVE Good(n)
        OBVIOUS
      <3>1. Good(s) /\ t.op # "ring"
        BY <1>1, <1>2
      <3>2. CASE s.phase = "connected"
        BY <2>2, <3>1, <3>2 DEF Good, SameBut, Link, Sharing, OthersWait
      <3>3. CASE s.phase # "connected"
        <4>1. NoneWaits(n)
          BY <1>1, <2>2, <3>1, <3>3, LastTask
        <4>2. s.phase = "inviting" /\ Calling(s, t)
          BY <1>1, <1>5, <3>1, <3>3, StateFields DEF Good, NoneWaits, Ringing, Answering, Phases
        <4> QED
          BY <1>5, <2>2, <3>1, <4>1, <4>2 DEF Good, SameBut, NoneWaits, OneWaits, Calling, Link
      <3> QED
        BY <3>2, <3>3
    <2>5. MuteTold(s) => MuteTold(n)
      BY <2>2 DEF MuteTold, SameBut, OthersWait
    <2> QED
      BY <1>1, <1>2, <1>3, <2>2, <2>3, <2>4, <2>5, MoveKept DEF Sound, SameBut
  <1> QED
    BY <1>4, <1>5

(* The steps in which a task ends and the connection gets a description.   *)
LEMMA OfferMoves ==
  ASSUME ClientsInv, NEW c \in Clients, NEW i \in Slots, OfferSet(c, i)
  PROVE  ClientsInv'
  <1> DEFINE s == cl[c]
             t == s.tasks[i]
             m == [s EXCEPT !.pc.sig = "offered"]
             n == Done(m, i)
  <1>1. /\ s \in States /\ Wired(s) /\ t \in Tasks /\ t # Nil /\ t.op = "start" /\ t.at = "offer"
        /\ cl' = [cl EXCEPT ![c] = n] /\ UNCHANGED <<overlapped, switched>>
    BY Sounds, StateFields DEF OfferSet, TaskAt, history
  <1> HIDE DEF s
  <1>2. s.pc # Nil
    BY <1>1 DEF Wired, OnPc
  <1>3. SameBut(m, s, {"pc"}) /\ m.pc # Nil /\ m.pc.to = s.pc.to /\ m.pc.sig = "offered"
    BY <1>1, <1>2, LinkFields
  <1> HIDE DEF m
  <1>4. SameBut(n, m, {"tasks"}) /\ n.tasks[i] = Nil /\ OthersWait(n, m, i)
    BY <1>3, DoneFields DEF SameBut
  <1> HIDE DEF n
  <1>5. Wired(n)
    BY <1>1, <1>3, <1>4 DEF Wired, SameBut, OthersWait
  <1>6. ASSUME Good(s) PROVE Good(n) /\ n.phase # "connected"
    <2>1. s.phase = "inviting" /\ Calling(s, t)
      BY <1>1, <1>6, StateFields DEF Good, NoneWaits, Ringing, Answering, Sharing, Phases
    <2>2. NoneWaits(n)
      BY <1>1, <1>3, <1>4, <1>6, <2>1 DEF Good, OneWaits, NoneWaits, OthersWait, SameBut
    <2>3. s.mic = "live" /\ s.pc.to = s.peer
      BY <1>1, <2>1 DEF Calling, Link
    <2> QED
      BY <1>3, <1>4, <1>6, <2>1, <2>2, <2>3 DEF Good, SameBut, NoneWaits, OneWaits, Link
  <1> QED
    BY <1>1, <1>4, <1>5, <1>6, TaskMoves DEF SameBut, MuteTold, s

LEMMA RingMoves ==
  ASSUME ClientsInv, NEW c \in Clients, NEW i \in Slots, Ring(c, i)
  PROVE  ClientsInv'
  <1> DEFINE s == cl[c]
             t == s.tasks[i]
             m == [s EXCEPT !.pc.sig = "offer"]
             k == [m EXCEPT !.phase = "incoming", !.peer = t.with, !.muted = FALSE, !.sharing = FALSE, !.call = t.call]
             n == Done(k, i)
  <1>1. /\ s \in States /\ Wired(s) /\ t \in Tasks /\ t # Nil /\ t.op = "ring" /\ t.at = "remote"
        /\ cl' = [cl EXCEPT ![c] = n] /\ UNCHANGED <<overlapped, switched>>
    BY Sounds, StateFields DEF Ring, TaskAt, Continue, history
  <1> HIDE DEF s
  <1>2. s.pc # Nil /\ t.with \in Peers /\ t.call \in 0..MaxCalls
    BY <1>1, TaskFields DEF Wired, OnPc
  <1>3. SameBut(m, s, {"pc"}) /\ m.pc # Nil /\ m.pc.to = s.pc.to /\ m.pc.sig = "offer"
    BY <1>1, <1>2, LinkFields
  <1> HIDE DEF m
  <1>4. /\ SameBut(k, m, {"phase", "peer", "muted", "sharing", "call"})
        /\ k.phase = "incoming" /\ k.peer = t.with /\ ~k.muted
    BY <1>2, <1>3 DEF SameBut, States, Phases
  <1> HIDE DEF k
  <1>5. SameBut(n, k, {"tasks"}) /\ n.tasks[i] = Nil /\ OthersWait(n, k, i)
    BY <1>4, DoneFields DEF SameBut
  <1> HIDE DEF n
  <1>6. Wired(n)
    BY <1>1, <1>2, <1>3, <1>4, <1>5 DEF Wired, SameBut, OthersWait
  <1>7. ASSUME Good(s) PROVE Good(n)
    <2>1. s.phase = "idle" /\ Ringing(s, t)
      BY <1>1, <1>7, StateFields DEF Good, NoneWaits, Calling, Answering, Sharing, Phases
    <2>2. NoneWaits(n)
      BY <1>1, <1>3, <1>4, <1>5, <1>7, <2>1 DEF Good, OneWaits, NoneWaits, OthersWait, SameBut
    <2>3. s.mic = "live" /\ s.pc.to = t.with
      BY <1>1, <2>1 DEF Ringing, Link
    <2> QED
      BY <1>3, <1>4, <1>5, <1>7, <2>1, <2>2, <2>3 DEF Good, SameBut, NoneWaits, OneWaits, Link
  <1> QED
    BY <1>1, <1>4, <1>5, <1>6, <1>7, TaskMoves DEF SameBut, MuteTold, s

LEMMA AnswerMoves ==
  ASSUME ClientsInv, NEW c \in Clients, NEW i \in Slots, AnswerSet(c, i)
  PROVE  ClientsInv'
  <1> DEFINE s == cl[c]
             t == s.tasks[i]
             m == [s EXCEPT !.pc.sig = "stable"]
             k == Connected(m, t.with)
             n == Done(k, i)
  <1>1. /\ s \in States /\ Wired(s) /\ t \in Tasks /\ t # Nil /\ t.op = "accept" /\ t.at = "answer"
        /\ cl' = [cl EXCEPT ![c] = n] /\ UNCHANGED <<overlapped, switched>>
    BY Sounds, StateFields DEF AnswerSet, TaskAt, history, States
  <1> HIDE DEF s
  <1>2. s.pc # Nil /\ t.with \in Peers
    BY <1>1, TaskFields DEF Wired, OnPc
  <1>3. SameBut(m, s, {"pc"}) /\ m.pc # Nil /\ m.pc.to = s.pc.to /\ m.pc.sig = "stable"
    BY <1>1, <1>2, LinkFields
  <1> HIDE DEF m
  <1>4. /\ SameBut(k, m, {"phase", "peer", "muted", "sharing"})
        /\ k.phase = "connected" /\ k.peer = t.with /\ ~k.muted
    BY <1>2, <1>3, ConnectedFields DEF SameBut
  <1> HIDE DEF k
  <1>5. SameBut(n, k, {"tasks"}) /\ n.tasks[i] = Nil /\ OthersWait(n, k, i)
    BY <1>4, DoneFields DEF SameBut
  <1> HIDE DEF n
  <1>6. Wired(n)
    BY <1>1, <1>2, <1>3, <1>4, <1>5 DEF Wired, SameBut, OthersWait
  <1>7. ASSUME Good(s) PROVE Good(n) /\ MuteTold(n)
    <2>1. s.phase = "incoming" /\ Answering(s, t)
      BY <1>1, <1>7, StateFields DEF Good, NoneWaits, Calling, Ringing, Sharing, Phases
    <2>2. NoneWaits(n)
      BY <1>1, <1>3, <1>4, <1>5, <1>7, <2>1 DEF Good, OneWaits, NoneWaits, OthersWait, SameBut
    <2>3. n.mic = "live" /\ Link(n, n.peer, "stable") /\ ~n.leaked
      BY <1>1, <1>3, <1>4, <1>5, <1>7, <2>1 DEF Answering, Link, Good, SameBut
    <2>4. n.phase = "connected" /\ ~n.muted
      BY <1>4, <1>5 DEF SameBut
    <2> QED
      BY <2>2, <2>3, <2>4 DEF Good, MuteTold, NoneWaits
  <1> QED
    BY <1>1, <1>5, <1>6, <1>7, TaskMoves DEF SameBut, s

LEMMA JoinMoves ==
  ASSUME ClientsInv, NEW c \in Clients, NEW i \in Slots, Joined(c, i)
  PROVE  ClientsInv'
  <1> DEFINE s == cl[c]
             t == s.tasks[i]
             m == [s EXCEPT !.pc.sig = "stable"]
             k == Done(m, i)
             n == IF t.was = "inviting" THEN Connected(k, t.with) ELSE k
  <1>1. /\ s \in States /\ Wired(s) /\ t \in Tasks /\ t # Nil /\ t.op = "join" /\ t.at = "remote"
        /\ cl' = [cl EXCEPT ![c] = n] /\ UNCHANGED <<overlapped, switched>>
    BY Sounds, StateFields DEF Joined, TaskAt, Continue, history
  <1> HIDE DEF s
  <1>2. s.pc # Nil /\ t.with \in Peers
    BY <1>1, TaskFields DEF Wired, OnPc
  <1>3. SameBut(m, s, {"pc"}) /\ m.pc # Nil /\ m.pc.to = s.pc.to /\ m.pc.sig = "stable"
    BY <1>1, <1>2, LinkFields
  <1> HIDE DEF m
  <1>4. SameBut(k, m, {"tasks"}) /\ k.tasks[i] = Nil /\ OthersWait(k, m, i)
    BY <1>3, DoneFields DEF SameBut
  <1> HIDE DEF k
  <1>5. /\ SameBut(n, k, {"phase", "peer", "muted", "sharing"})
        /\ t.was = "inviting" => n.phase = "connected" /\ n.peer = t.with /\ ~n.muted
        /\ t.was # "inviting" => n = k
    BY <1>2, <1>4, ConnectedFields DEF SameBut
  <1> HIDE DEF n
  <1>6. Wired(n)
    BY <1>1, <1>2, <1>3, <1>4, <1>5 DEF Wired, SameBut, OthersWait
  <1>7. ASSUME Good(s) PROVE Good(n) /\ MuteTold(n)
    <2>1. s.phase = "inviting" /\ Calling(s, t)
      BY <1>1, <1>7, StateFields DEF Good, NoneWaits, Answering, Ringing, Sharing, Phases
    <2>2. NoneWaits(n)
      BY <1>1, <1>3, <1>4, <1>5, <1>7, <2>1 DEF Good, OneWaits, NoneWaits, OthersWait, SameBut
    <2>3. t.was = "inviting" /\ s.mic = "live" /\ s.pc.to = t.with
      BY <1>1, <2>1 DEF Calling, Link
    <2>4. n.mic = "live" /\ Link(n, n.peer, "stable") /\ ~n.leaked /\ n.phase = "connected" /\ ~n.muted
      BY <1>3, <1>4, <1>5, <1>7, <2>3 DEF Link, Good, SameBut
    <2> QED
      BY <2>2, <2>4 DEF Good, MuteTold, NoneWaits
  <1> QED
    BY <1>1, <1>5, <1>6, <1>7, TaskMoves DEF SameBut, s

LEMMA PickMoves ==
  ASSUME ClientsInv, NEW c \in Clients, NEW i \in Slots, ScreenPicked(c, i)
  PROVE  ClientsInv'
  <1> DEFINE s == cl[c]
             t == s.tasks[i]
             m == [s EXCEPT !.screen = TRUE]
             n == IF s.pc # Nil /\ s.pc.to = t.with /\ s.call = t.call THEN Wait(m, i, "replace") ELSE Done(m, i)
  <1>1. /\ s \in States /\ Wired(s) /\ t \in Tasks /\ t # Nil /\ t.op = "share"
        /\ cl' = [cl EXCEPT ![c] = n] /\ UNCHANGED <<overlapped, switched>>
    BY Sounds, StateFields DEF ScreenPicked, TaskAt, Continue, history
  <1> HIDE DEF s
  <1>2. SameBut(m, s, {"screen"})
    BY <1>1 DEF SameBut, States
  <1>3. n = Done(m, i) \/ (n = Wait(m, i, "replace") /\ s.pc # Nil)
    OBVIOUS
  <1> HIDE DEF m, n
  <1>4. /\ SameBut(n, m, {"tasks"}) /\ OthersWait(n, m, i)
        /\ n.tasks[i] # Nil => /\ n.tasks[i].op = "share" /\ n.tasks[i].with = t.with
                               /\ n.tasks[i].muted = t.muted /\ s.pc # Nil
    <2>1. CASE n = Done(m, i)
      BY <1>2, <2>1, DoneFields DEF SameBut
    <2>2. CASE n = Wait(m, i, "replace") /\ s.pc # Nil
      <3>1. m \in States /\ m.tasks[i] = t /\ m.tasks[i] # Nil
        BY <1>1, <1>2 DEF SameBut
      <3>2. /\ SameBut(n, m, {"tasks"}) /\ OthersWait(n, m, i)
            /\ n.tasks[i].op = t.op /\ n.tasks[i].with = t.with /\ n.tasks[i].muted = t.muted
        BY <2>2, <3>1, WaitFields
      <3> QED
        BY <1>1, <2>2, <3>2
    <2> QED
      BY <1>3, <2>1, <2>2
  <1>5. Wired(n)
    BY <1>1, <1>2, <1>4 DEF Wired, SameBut, OthersWait
  <1>6. ASSUME Good(s) PROVE s.phase = "connected" /\ Good(n)
    <2>1. s.phase = "connected" /\ Sharing(s, t)
      BY <1>1, <1>6, StateFields DEF Good, NoneWaits, Ringing, Calling, Answering, Phases
    <2>2. \A j \in Slots : n.tasks[j] # Nil => Sharing(n, n.tasks[j])
      BY <1>2, <1>4, <1>6, <2>1 DEF Good, Sharing, SameBut, OthersWait
    <2> QED
      BY <1>2, <1>4, <1>6, <2>1, <2>2 DEF Good, SameBut, Link
  <1>7. ASSUME MuteTold(s) PROVE MuteTold(n)
    BY <1>1, <1>2, <1>4, <1>7 DEF MuteTold, SameBut, OthersWait
  <1> QED
    BY <1>1, <1>4, <1>5, <1>6, <1>7, TaskMoves DEF SameBut, s

LEMMA SharedMoves ==
  ASSUME ClientsInv, NEW c \in Clients, NEW i \in Slots, ShareSet(c, i)
  PROVE  ClientsInv'
  <1> DEFINE s == cl[c]
             t == s.tasks[i]
             m == Connected(s, t.with)
             b == t.op = "share"
             k == [m EXCEPT !.muted = t.muted, !.sharing = b]
             n == Done(k, i)
  <1>1. /\ s \in States /\ Wired(s) /\ t \in Tasks /\ t # Nil /\ t.op \in {"share", "unshare"} /\ t.at = "replace"
        /\ cl' = [cl EXCEPT ![c] = n] /\ UNCHANGED <<overlapped, switched>>
    BY Sounds, StateFields DEF ShareSet, TaskAt, Continue, history
  <1> HIDE DEF s
  <1>2. t.with \in Peers /\ t.muted \in BOOLEAN /\ b \in BOOLEAN
    BY <1>1, TaskFields
  <1> HIDE DEF b
  <1>3. SameBut(m, s, {"phase", "peer", "muted", "sharing"}) /\ m.phase = "connected" /\ m.peer = t.with
    BY <1>1, <1>2, ConnectedFields
  <1> HIDE DEF m
  <1>4. SameBut(k, m, {"muted", "sharing"}) /\ (k.muted <=> t.muted)
    BY <1>2, <1>3 DEF SameBut, States
  <1> HIDE DEF k
  <1>5. SameBut(n, k, {"tasks"}) /\ n.tasks[i] = Nil /\ OthersWait(n, k, i)
    BY <1>4, DoneFields DEF SameBut
  <1> HIDE DEF n
  <1>6. Wired(n)
    BY <1>1, <1>2, <1>3, <1>4, <1>5 DEF Wired, SameBut, OthersWait
  <1>7. ASSUME Good(s) PROVE s.phase = "connected" /\ Good(n)
    <2>1. s.phase = "connected" /\ Sharing(s, t)
      BY <1>1, <1>7, StateFields DEF Good, NoneWaits, Ringing, Calling, Answering, Phases
    <2>2. s.peer = t.with
      BY <2>1 DEF Sharing
    <2>3. \A j \in Slots : n.tasks[j] # Nil => Sharing(n, n.tasks[j])
      BY <1>3, <1>4, <1>5, <1>7, <2>1, <2>2 DEF Good, Sharing, SameBut, OthersWait
    <2> QED
      BY <1>3, <1>4, <1>5, <1>7, <2>1, <2>2, <2>3 DEF Good, SameBut, Link
  <1>8. ASSUME MuteTold(s), s.phase = "connected" PROVE MuteTold(n)
    <2>1. t.muted <=> s.muted
      BY <1>1, <1>8 DEF MuteTold
    <2> QED
      BY <1>3, <1>4, <1>5, <1>8, <2>1 DEF MuteTold, SameBut, OthersWait
  <1> QED
    BY <1>1, <1>5, <1>6, <1>7, <1>8, TaskMoves DEF SameBut, s

(* Messages and calls made, by their types.                                *)
Relayed == user \in [Clients -> Peers] /\ inbox \in [Clients -> Seq(Messages)] /\ made \in 0..MaxCalls

LEMMA Posted ==
  ASSUME Relayed, NEW c \in Clients, NEW u, NEW n \in 0..MaxCalls,
         NEW type \in {"invite", "accept", "reject", "end"}, Post(u, type, c, n)
  PROVE  inbox' \in [Clients -> Seq(Messages)]
  <1> DEFINE m == [type |-> type, from |-> user[c], call |-> n]
  <1>1. m \in Messages
    BY DEF Messages, Relayed
  <1> HIDE DEF m
  <1>2. inbox' = [d \in Clients |-> IF user[d] = u THEN Append(inbox[d], m) ELSE inbox[d]]
    BY DEF Post, m
  <1>3. \A d \in Clients : inbox[d] \in Seq(Messages) /\ Append(inbox[d], m) \in Seq(Messages)
    BY <1>1 DEF Relayed
  <1> QED
    BY <1>2, <1>3

LEMMA Taken ==
  ASSUME Relayed, NEW c \in Clients, inbox[c] # <<>>, Next1(c)
  PROVE  inbox' \in [Clients -> Seq(Messages)]
  <1>1. Tail(inbox[c]) \in Seq(Messages)
    BY DEF Relayed
  <1> QED
    BY <1>1 DEF Relayed, Next1

LEMMA RelayedKept ==
  ASSUME Relayed, ClientsInv, Next
  PROVE  Relayed'
  <1>1. \A c \in Clients : cl[c].call \in 0..MaxCalls /\ \A i \in Slots : cl[c].tasks[i] # Nil => cl[c].tasks[i].call \in 0..MaxCalls
    BY Sounds, StateFields, TaskFields
  <1>2. PICK c \in Clients :
          \/ \E u \in Peers : StartCall(c, u)
          \/ AcceptCall(c) \/ RejectCall(c) \/ EndCall(c) \/ ToggleMute(c) \/ ToggleShare(c)
          \/ CardGone(c) \/ LeaveHome(c) \/ Handle(c) \/ Lose(c) \/ ConnectionLost(c)
          \/ \E i \in Slots : Resume(c, i)
    BY DEF Next
  <1>3. ASSUME UNCHANGED <<user, inbox, made>> PROVE Relayed'
    BY <1>3 DEF Relayed
  <1>4. ASSUME inbox[c] # <<>>, Next1(c), UNCHANGED <<user, made>> PROVE Relayed'
    BY <1>4, Taken DEF Relayed
  <1>5. ASSUME NEW u, NEW n \in 0..MaxCalls, NEW type \in {"invite", "accept", "reject", "end"},
               Post(u, type, c, n), UNCHANGED <<user, made>>
        PROVE  Relayed'
    BY <1>5, Posted DEF Relayed
  <1>6. ASSUME NEW u \in Peers, StartCall(c, u) PROVE Relayed'
    BY <1>6, CallsAssumption DEF StartCall, Relayed
  <1>7. CASE RejectCall(c) \/ EndCall(c)
    BY <1>1, <1>5, <1>7 DEF RejectCall, EndCall
  <1>8. CASE AcceptCall(c) \/ ToggleMute(c) \/ ToggleShare(c) \/ CardGone(c) \/ LeaveHome(c) \/ ConnectionLost(c)
    BY <1>3, <1>8 DEF AcceptCall, ToggleMute, ToggleShare, CardGone, LeaveHome, ConnectionLost
  <1>9. CASE Invited(c) \/ Accepted(c) \/ Stopped(c) \/ Lose(c)
    BY <1>4, <1>9 DEF Invited, Accepted, Stopped, Lose, Head1
  <1>10. CASE InviteBusy(c)
    <2> DEFINE m == Head(inbox[c])
               r == [type |-> "reject", from |-> user[c], call |-> m.call]
               q(d) == IF d = c THEN Tail(inbox[d]) ELSE inbox[d]
    <2>1. inbox[c] # <<>> /\ m \in Messages
      BY <1>10 DEF InviteBusy, Head1, Relayed
    <2>2. r \in Messages
      BY <2>1 DEF Messages, Relayed
    <2>3. \A d \in Clients : q(d) \in Seq(Messages)
      BY <2>1 DEF Relayed
    <2>4. /\ inbox' = [d \in Clients |-> IF user[d] = m.from THEN Append(q(d), r) ELSE q(d)]
          /\ UNCHANGED <<user, made>>
      BY <1>10 DEF InviteBusy
    <2> HIDE DEF m, r, q
    <2>5. \A d \in Clients : Append(q(d), r) \in Seq(Messages)
      BY <2>2, <2>3
    <2> QED
      BY <2>3, <2>4, <2>5 DEF Relayed
  <1>11. ASSUME NEW i \in Slots, Resume(c, i) PROVE Relayed'
    <2>1. CASE OfferSet(c, i) \/ AnswerSet(c, i)
      <3>1. cl[c].tasks[i].call \in 0..MaxCalls
        BY <1>1, <2>1 DEF OfferSet, AnswerSet, TaskAt
      <3> QED
        BY <1>5, <2>1, <3>1 DEF OfferSet, AnswerSet
    <2>2. CASE \/ IceKnown(c, i) \/ MediaGranted(c, i) \/ Fails(c, i) \/ Ring(c, i) \/ Joined(c, i)
               \/ ScreenPicked(c, i) \/ ShareSet(c, i)
      BY <1>3, <2>2 DEF IceKnown, MediaGranted, Fails, Ring, Joined, ScreenPicked, ShareSet, Continue
    <2> QED
      BY <1>11, <2>1, <2>2 DEF Resume
  <1> QED
    BY <1>2, <1>6, <1>7, <1>8, <1>9, <1>10, <1>11 DEF Handle

LEMMA ClientsKept ==
  ASSUME Relayed, ClientsInv, Next
  PROVE  ClientsInv'
  <1>1. PICK c \in Clients :
          \/ \E u \in Peers : StartCall(c, u)
          \/ AcceptCall(c) \/ RejectCall(c) \/ EndCall(c) \/ ToggleMute(c) \/ ToggleShare(c)
          \/ CardGone(c) \/ LeaveHome(c) \/ Handle(c) \/ Lose(c) \/ ConnectionLost(c)
          \/ \E i \in Slots : Resume(c, i)
    BY DEF Next
  <1>2. ASSUME UNCHANGED <<cl, overlapped, switched>> PROVE ClientsInv'
    BY <1>2 DEF ClientsInv
  <1>3. CASE RejectCall(c) \/ EndCall(c) \/ CardGone(c) \/ LeaveHome(c)
    <2>1. cl' = [cl EXCEPT ![c] = Idle(TornDown(cl[c]))] /\ NoteTeardown(c) /\ switched' = switched
      BY <1>3 DEF RejectCall, EndCall, CardGone, LeaveHome, ClientsInv
    <2> QED
      BY <2>1, StopMoves
  <1>4. CASE Stopped(c) \/ ConnectionLost(c)
    <2>1. cl' = [cl EXCEPT ![c] = Ended(TornDown(cl[c]))] /\ NoteTeardown(c) /\ switched' = switched
      BY <1>4 DEF Stopped, ConnectionLost, ClientsInv
    <2> QED
      BY <2>1, StopMoves
  <1>5. CASE InviteBusy(c) \/ Lose(c)
    BY <1>2, <1>5 DEF InviteBusy, Lose, history
  <1>6. ASSUME NEW i \in Slots, Resume(c, i) PROVE ClientsInv'
    BY <1>6, IceMoves, MediaMoves, FailMoves, OfferMoves, RingMoves, AnswerMoves, JoinMoves, PickMoves, SharedMoves DEF Resume
  <1>7. \A u \in Peers : StartCall(c, u) => ClientsInv'
    BY StartMoves DEF Relayed
  <1> QED
    BY <1>1, <1>3, <1>4, <1>5, <1>6, <1>7, AcceptMoves, MuteMoves, ShareMoves, InvitedMoves, AcceptedMoves DEF Handle, Relayed

(* What is invariant of calls.                                             *)
CallsInv == Relayed /\ ClientsInv /\ overlapped \subseteq Clients /\ switched \subseteq Clients /\ untold \in BOOLEAN

LEMMA HistoryKept ==
  ASSUME CallsInv, Next
  PROVE  overlapped' \subseteq Clients /\ switched' \subseteq Clients /\ untold' \in BOOLEAN
  <1> USE DEF CallsInv, NoteTeardown, NoteSetup, NoteStray, history, Continue
  <1>1. PICK c \in Clients :
          \/ \E u \in Peers : StartCall(c, u)
          \/ AcceptCall(c) \/ RejectCall(c) \/ EndCall(c) \/ ToggleMute(c) \/ ToggleShare(c)
          \/ CardGone(c) \/ LeaveHome(c) \/ Handle(c) \/ Lose(c) \/ ConnectionLost(c)
          \/ \E i \in Slots : Resume(c, i)
    BY DEF Next
  <1>2. \/ overlapped' = overlapped \/ overlapped' = overlapped \union {c}
    BY <1>1 DEF StartCall, AcceptCall, RejectCall, EndCall, ToggleMute, ToggleShare, CardGone, LeaveHome,
                Handle, InviteBusy, Invited, Accepted, Stopped, Lose, ConnectionLost, Resume, IceKnown, MediaGranted,
                Fails, OfferSet, Ring, AnswerSet, Joined, ScreenPicked, ShareSet
  <1>3. \/ switched' = switched \/ switched' = switched \union {c}
    BY <1>1 DEF StartCall, AcceptCall, RejectCall, EndCall, ToggleMute, ToggleShare, CardGone, LeaveHome,
                Handle, InviteBusy, Invited, Accepted, Stopped, Lose, ConnectionLost, Resume, IceKnown, MediaGranted,
                Fails, OfferSet, Ring, AnswerSet, Joined, ScreenPicked, ShareSet
  <1>4. untold' \in BOOLEAN
    BY <1>1 DEF StartCall, AcceptCall, RejectCall, EndCall, ToggleMute, ToggleShare, CardGone, LeaveHome,
                Handle, InviteBusy, Invited, Accepted, Stopped, Lose, ConnectionLost, Resume, IceKnown, MediaGranted,
                Fails, OfferSet, Ring, AnswerSet, Joined, ScreenPicked, ShareSet
  <1> QED
    BY <1>2, <1>3, <1>4

LEMMA CallsInductive == Spec => []CallsInv
  <1>1. Init => CallsInv
    <2> SUFFICES ASSUME Init PROVE CallsInv
      OBVIOUS
    <2>1. Fresh \in States
      BY CallsAssumption DEF Fresh, States, Phases, Connections
    <2>2. Wired(Fresh) /\ Good(Fresh) /\ MuteTold(Fresh)
      BY DEF Fresh, Wired, Good, MuteTold, NoneWaits, OneWaits, Off
    <2>3. ClientsInv
      BY <2>1, <2>2 DEF Init, ClientsInv, Sound
    <2>4. inbox \in [Clients -> Seq(Messages)]
      BY DEF Init
    <2>5. user \in [Clients -> Peers] /\ made = 0 /\ made \in 0..MaxCalls
      BY CallsAssumption DEF Init
    <2>6. overlapped \subseteq Clients /\ switched \subseteq Clients /\ untold \in BOOLEAN
      BY DEF Init
    <2>7. Relayed
      BY <2>4, <2>5 DEF Relayed
    <2> QED
      BY <2>3, <2>6, <2>7 DEF CallsInv
  <1>2. CallsInv /\ [Next]_vars => CallsInv'
    <2>1. CASE UNCHANGED vars
      BY <2>1 DEF vars, history, CallsInv, Relayed, ClientsInv
    <2>2. CASE Next
      BY <2>2, RelayedKept, ClientsKept, HistoryKept DEF CallsInv
    <2> QED
      BY <2>1, <2>2
  <1> QED
    BY <1>1, <1>2, PTL DEF Spec

\* The clients, the messages on their way and the calls stay what they are
\* declared to be.
THEOREM CallsTypes == Spec => []TypeOK
  <1>1. CallsInv => TypeOK
    BY StateFields DEF CallsInv, Relayed, ClientsInv, TypeOK
  <1> QED
    BY <1>1, CallsInductive, PTL

\* However a call ends, or fails while it is set up, a client at rest whose
\* handlers never overlapped captures neither sound nor screen.
THEOREM MicAlwaysOffAtRest == Spec => []MicOffAtRest
  <1>1. CallsInv => MicOffAtRest
    <2> SUFFICES ASSUME CallsInv, NEW c \in Clients, AtRest(c), c \notin overlapped
                 PROVE  cl[c].mic = "none" /\ ~cl[c].leaked /\ ~cl[c].screen
      BY DEF MicOffAtRest
    <2>1. Good(cl[c])
      BY Sounds DEF CallsInv
    <2>2. NoneWaits(cl[c]) /\ cl[c].phase \in {"idle", "ended"}
      BY DEF AtRest, Waiting, NoneWaits
    <2> QED
      BY <2>1, <2>2 DEF Good, Off
  <1> QED
    BY <1>1, CallsInductive, PTL

\* A client that shows a call has negotiated it with the peer it shows, and
\* its microphone button shows what the microphone does, unless handlers
\* overlapped or it was pressed beside a screen share.
THEOREM CardAlwaysTells == Spec => []CardTells
  <1>1. CallsInv => CardTells
    <2> SUFFICES ASSUME CallsInv PROVE CardTells
      OBVIOUS
    <2>1. ConnectedIsReal
      BY Sounds DEF CallsInv, ConnectedIsReal, Good, Link
    <2>2. MuteShown
      <3> SUFFICES ASSUME NEW c \in Clients, cl[c].phase = "connected", c \notin overlapped \union switched
                   PROVE  cl[c].muted <=> cl[c].mic = "silent"
        BY DEF MuteShown
      <3> QED
        BY Sounds DEF CallsInv, MuteTold
    <2> QED
      BY <2>1, <2>2 DEF CardTells
  <1> QED
    BY <1>1, CallsInductive, PTL

-----------------------------------------------------------------------------
(* Both sides of a call.                                                   *)

(* As long as users have one client each and nothing overlapped or was     *)
(* lost.                                                                   *)
OneEach == \A c, d \in Clients : user[c] = user[d] => c = d
Undisturbed == OneEach /\ overlapped = {} /\ ~untold

(* What a client's state says of its call: whether it is in one, rings, or *)
(* has a task.                                                             *)
In(s) == s.phase \in {"inviting", "incoming", "connected"}
Does(s, op) == \E i \in Slots : s.tasks[i] # Nil /\ s.tasks[i].op = op
Rung(s, n, u) == \E i \in Slots : s.tasks[i] # Nil /\ s.tasks[i].op = "ring" /\ s.tasks[i].call = n /\ s.tasks[i].with = u
Tied(s) == \A i \in Slots : s.tasks[i] # Nil /\ s.tasks[i].op \in {"start", "accept", "join"} => s.tasks[i].call = s.call
Alike(t, s) ==
  /\ t.call = s.call /\ (Tied(s) => Tied(t))
  /\ \A n \in 0..MaxCalls, u \in Peers : Rung(t, n, u) <=> Rung(s, n, u)
  /\ \A op \in {"start", "join"} : Does(t, op) <=> Does(s, op)
Calm(t, s) == Alike(t, s) /\ (In(t) <=> In(s)) /\ (In(s) => t.phase = s.phase /\ t.peer = s.peer)

LEMMA TaskAdded ==
  ASSUME NEW s, NEW t, NEW i \in Slots, OthersWait(t, s, i), s.tasks[i] = Nil, t.tasks[i] # Nil, t.call = s.call
  PROVE  /\ \A o \in {"start", "ring", "accept", "join", "share", "unshare"} :
              /\ Does(s, o) => Does(t, o)
              /\ t.tasks[i].op = o => Does(t, o)
              /\ Does(t, o) /\ t.tasks[i].op # o => Does(s, o)
         /\ \A k \in 0..MaxCalls, w \in Peers : Rung(s, k, w) => Rung(t, k, w)
         /\ t.tasks[i].op # "ring" => \A k \in 0..MaxCalls, w \in Peers : Rung(t, k, w) => Rung(s, k, w)
         /\ t.tasks[i].op = "ring" => \A k \in 0..MaxCalls, w \in Peers :
              Rung(t, k, w) <=> Rung(s, k, w) \/ (t.tasks[i].call = k /\ t.tasks[i].with = w)
         /\ Tied(s) /\ (t.tasks[i].op \in {"start", "accept", "join"} => t.tasks[i].call = s.call) => Tied(t)
  BY DEF Does, Rung, Tied, OthersWait

LEMMA TaskWaits ==
  ASSUME NEW s, NEW t, NEW i \in Slots, OthersWait(t, s, i), s.tasks[i] # Nil, t.tasks[i] # Nil, t.call = s.call,
         t.tasks[i].op = s.tasks[i].op, t.tasks[i].call = s.tasks[i].call, t.tasks[i].with = s.tasks[i].with
  PROVE  Alike(t, s)
  BY DEF Alike, Does, Rung, Tied, OthersWait

LEMMA TaskEnded ==
  ASSUME NEW s, NEW t, NEW i \in Slots, OthersWait(t, s, i), s.tasks[i] # Nil, t.tasks[i] = Nil
  PROVE  /\ \A n \in 0..MaxCalls, u \in Peers : Rung(t, n, u) => Rung(s, n, u)
         /\ \A op \in {"start", "ring", "accept", "join", "share", "unshare"} : Does(t, op) => Does(s, op)
         /\ s.tasks[i].op # "ring" => \A n \in 0..MaxCalls, u \in Peers : Rung(s, n, u) => Rung(t, n, u)
         /\ \A op \in {"start", "ring", "accept", "join", "share", "unshare"} : s.tasks[i].op # op /\ Does(s, op) => Does(t, op)
         /\ t.call = s.call /\ Tied(s) => Tied(t)
  BY DEF Does, Rung, Tied, OthersWait

LEMMA NoTask ==
  ASSUME NEW s, NoneWaits(s)
  PROVE  (\A n \in 0..MaxCalls, u \in Peers : ~Rung(s, n, u)) /\ (\A op \in {"start", "ring", "accept", "join", "share", "unshare"} : ~Does(s, op)) /\ Tied(s)
  BY DEF NoneWaits, Rung, Does, Tied

(* A good client rings only when it is idle, and begins, joins and accepts *)
(* calls only in the phase for it.                                         *)
LEMMA TaskPhase ==
  ASSUME NEW s \in States, Good(s)
  PROVE  /\ \A n \in 0..MaxCalls, u \in Peers : Rung(s, n, u) => s.phase = "idle"
         /\ Does(s, "start") \/ Does(s, "join") => s.phase = "inviting"
         /\ Does(s, "start") => ~Does(s, "join")
         /\ \A i \in Slots : s.tasks[i] # Nil =>
              /\ s.tasks[i].op = "ring" => s.phase = "idle"
              /\ s.tasks[i].op \in {"start", "join"} => s.phase = "inviting" /\ s.tasks[i].with = s.peer
              /\ s.tasks[i].op = "accept" => s.phase = "incoming" /\ s.tasks[i].with = s.peer
              /\ s.tasks[i].op \in {"share", "unshare"} => s.phase = "connected" /\ s.tasks[i].with = s.peer
  <1>1. ASSUME NEW i \in Slots, s.tasks[i] # Nil
        PROVE  LET t == s.tasks[i]
               IN /\ t.op = "ring" => s.phase = "idle"
                  /\ t.op \in {"start", "join"} => s.phase = "inviting" /\ t.with = s.peer
                  /\ t.op = "accept" => s.phase = "incoming" /\ t.with = s.peer
                  /\ t.op \in {"share", "unshare"} => s.phase = "connected" /\ t.with = s.peer
    BY <1>1, StateFields DEF Good, NoneWaits, Ringing, Calling, Answering, Sharing, Phases
  <1>2. \A n \in 0..MaxCalls, u \in Peers : Rung(s, n, u) => s.phase = "idle"
    BY <1>1 DEF Rung
  <1>3. Does(s, "start") \/ Does(s, "join") => s.phase = "inviting"
    BY <1>1 DEF Does
  <1>4. Does(s, "start") => ~Does(s, "join")
    BY <1>3 DEF Does, Good, OneWaits
  <1> QED
    BY <1>1, <1>2, <1>3, <1>4

-----------------------------------------------------------------------------
(* What the steps of a client c do to its state, undisturbed.              *)

Quiet == CallsInv /\ Undisturbed /\ Undisturbed' /\ user' = user
Moves(c, t) ==
  /\ cl' \in [Clients -> States] /\ cl'[c] = t
  /\ \A d \in Clients : d # c => cl'[d] = cl[d]
Mailless == inbox' = inbox /\ made' = made

LEMMA QuietFacts ==
  ASSUME Quiet, NEW c \in Clients
  PROVE  /\ cl[c] \in States /\ Good(cl[c]) /\ Wired(cl[c]) /\ Relayed
         /\ \A n : cl' = [cl EXCEPT ![c] = n] /\ n \in States => Moves(c, n)
         /\ overlapped = {} /\ overlapped' = {} /\ ~untold /\ ~untold'
  BY Sounds DEF Quiet, Undisturbed, CallsInv, ClientsInv, Moves

LEMMA StopView ==
  ASSUME Quiet, NEW c \in Clients, NEW n, n = Idle(TornDown(cl[c])) \/ n = Ended(TornDown(cl[c])),
         cl' = [cl EXCEPT ![c] = n], NoteTeardown(c)
  PROVE  Moves(c, n) /\ NoneWaits(n) /\ ~In(n) /\ n.call = cl[c].call
  <1>1. \A i \in Slots : cl[c].tasks[i] # Nil => cl[c].tasks[i].at \in OnPc
    BY QuietFacts DEF NoteTeardown, Waiting
  <1>2. n \in States /\ n.tasks = Kept(cl[c]) /\ n.phase \in {"idle", "ended"} /\ n.call = cl[c].call
    BY QuietFacts, StoppedSound DEF SameBut
  <1>3. NoneWaits(n)
    <2> SUFFICES ASSUME NEW i \in Slots PROVE n.tasks[i] = Nil
      BY DEF NoneWaits
    <2> QED
      BY <1>1, <1>2, QuietFacts, KeptFields
  <1> QED
    BY <1>2, <1>3, QuietFacts DEF In

LEMMA StartView ==
  ASSUME Quiet, NEW c \in Clients, NEW u \in Peers, StartCall(c, u)
  PROVE  LET s == cl[c]  t == cl'[c]
         IN /\ Moves(c, t) /\ ~In(s) /\ NoneWaits(s)
            /\ t.phase = "inviting" /\ t.peer = u /\ t.call = made + 1 /\ u # user[c] /\ made' = made + 1
            /\ \A k \in 0..MaxCalls, w \in Peers : ~Rung(t, k, w)
            /\ Does(t, "start") /\ ~Does(t, "join") /\ Tied(t) /\ inbox' = inbox
  <1> DEFINE s == cl[c]
             m == TornDown(Idle(s))
             k == Started(m, "start", "ice", u, made + 1)
             n == [k EXCEPT !.phase = "inviting", !.peer = u, !.call = made + 1]
  <1>1. /\ cl' = [cl EXCEPT ![c] = n] /\ NoteSetup(c) /\ HasRoom(s) /\ made' = made + 1 /\ u # user[c] /\ inbox' = inbox
        /\ s.phase \notin {"incoming", "connected", "inviting"}
    BY QuietFacts DEF StartCall
  <1>2. made + 1 \in 0..MaxCalls /\ s \in States
    BY CallsAssumption, QuietFacts DEF StartCall, Relayed
  <1>3. NoneWaits(s) /\ Good(s)
    <2>1. ClientsInv
      BY DEF Quiet, CallsInv
    <2> QED
      BY <1>1, <2>1, SetupAlone, QuietFacts
  <1> HIDE DEF s
  <1>4. m \in States /\ NoneWaits(m)
    <2>1. Idle(s) \in States /\ Idle(s).tasks = s.tasks
      BY <1>2, IdleFields DEF SameBut
    <2> QED
      BY <1>3, <2>1, TornFields, KeptFields DEF SameBut, NoneWaits
  <1>5. HasRoom(m)
    BY <1>4, CallsAssumption DEF HasRoom, NoneWaits, Slots
  <1> HIDE DEF m
  <1>6. PICK i \in Slots : BeginsAt(k, m, i, "start", "ice", u, made + 1)
    BY <1>2, <1>4, <1>5, StartedFields
  <1>7. /\ Does(k, "start") /\ ~Does(k, "join") /\ \A l \in 0..MaxCalls, w \in Peers : ~Rung(k, l, w)
        /\ k \in States /\ \A j \in Slots : k.tasks[j] # Nil => k.tasks[j].call = made + 1
    <2>1. Does(k, "start") /\ (Does(k, "join") => Does(m, "join")) /\ \A l \in 0..MaxCalls, w \in Peers : Rung(k, l, w) => Rung(m, l, w)
      <3>1. /\ OthersWait(k, m, i) /\ m.tasks[i] = Nil /\ k.tasks[i] # Nil /\ k.tasks[i].op = "start"
            /\ k.call = m.call
        BY <1>6, TaskFields DEF BeginsAt, SameBut
      <3> QED
        BY <3>1, TaskAdded
    <2>2. k.tasks[i].call = made + 1 /\ \A j \in Slots : j # i => k.tasks[j] = Nil
      BY <1>4, <1>6 DEF BeginsAt, OthersWait, NoneWaits
    <2> QED
      BY <1>4, <1>6, <2>1, <2>2, NoTask DEF BeginsAt, SameBut
  <1> HIDE DEF k
  <1>8. SameBut(n, k, {"phase", "peer", "call"}) /\ n.phase = "inviting" /\ n.peer = u /\ n.call = made + 1
    BY <1>2, <1>7 DEF SameBut, States, Phases
  <1> HIDE DEF n
  <1>9. n \in States /\ n.tasks = k.tasks
    BY <1>8 DEF SameBut
  <1>10. Does(n, "start") /\ ~Does(n, "join") /\ (\A l \in 0..MaxCalls, w \in Peers : ~Rung(n, l, w)) /\ Tied(n)
    BY <1>7, <1>8, <1>9 DEF Does, Rung, Tied
  <1>11. Moves(c, n)
    BY <1>1, <1>9, QuietFacts DEF s
  <1>12. cl'[c] = n
    BY <1>11 DEF Moves
  <1> QED
    BY <1>1, <1>3, <1>8, <1>10, <1>11, <1>12 DEF s, In

(* Steps that change neither the call nor who waits for what in it.        *)
LEMMA CalmAlike ==
  ASSUME NEW s, NEW m, NEW t, t.call = s.call, t.phase = s.phase, t.peer = s.peer,
         m.tasks = s.tasks, m.call = s.call, Alike(t, m)
  PROVE  Calm(t, s)
  BY DEF Calm, Alike, Rung, Does, Tied, In

LEMMA AcceptView ==
  ASSUME Quiet, NEW c \in Clients, AcceptCall(c)
  PROVE  Moves(c, cl'[c]) /\ Calm(cl'[c], cl[c]) /\ Mailless
  <1> DEFINE s == cl[c]
             n == Started(s, "accept", "answer", s.peer, s.call)
  <1>1. s \in States /\ Wired(s) /\ s.phase = "incoming" /\ HasRoom(s) /\ cl' = [cl EXCEPT ![c] = n] /\ Mailless
    BY QuietFacts DEF AcceptCall, Buttons, Mailless
  <1>2. s.peer \in Peers /\ s.call \in 0..MaxCalls
    BY <1>1, StateFields DEF Wired
  <1>3. PICK i \in Slots : BeginsAt(n, s, i, "accept", "answer", s.peer, s.call)
    BY <1>1, <1>2, StartedFields
  <1> HIDE DEF n
  <1>4. n \in States /\ n.phase = s.phase /\ n.peer = s.peer /\ n.call = s.call
    BY <1>3 DEF BeginsAt, SameBut
  <1>5. Alike(n, s)
    <2>1. /\ OthersWait(n, s, i) /\ s.tasks[i] = Nil /\ n.tasks[i] # Nil /\ n.tasks[i].op = "accept"
          /\ n.tasks[i].call = s.call
      BY <1>3, TaskFields DEF BeginsAt
    <2> QED
      BY <1>4, <2>1, TaskAdded DEF Alike
  <1>6. Moves(c, n)
    BY <1>1, <1>4, QuietFacts
  <1> QED
    BY <1>1, <1>4, <1>5, <1>6 DEF Moves, Calm, In

LEMMA MuteView ==
  ASSUME Quiet, NEW c \in Clients, ToggleMute(c)
  PROVE  Moves(c, cl'[c]) /\ Calm(cl'[c], cl[c]) /\ Mailless
  <1> DEFINE s == cl[c]
             w == IF s.muted THEN "live" ELSE "silent"
             n == [s EXCEPT !.muted = ~@, !.mic = w]
  <1>1. s \in States /\ cl' = [cl EXCEPT ![c] = n] /\ Mailless
    BY QuietFacts DEF ToggleMute, Mailless
  <1>2. SameBut(n, s, {"muted", "mic"})
    <2> HIDE DEF s, w
    <2>1. w \in {"live", "silent"} /\ s \in States
      BY <1>1 DEF w
    <2> QED
      BY <2>1 DEF SameBut, States
  <1> HIDE DEF n
  <1>3. n \in States /\ n.phase = s.phase /\ n.peer = s.peer /\ n.call = s.call /\ n.tasks = s.tasks
    BY <1>2 DEF SameBut
  <1>4. Moves(c, n)
    BY <1>1, <1>3, QuietFacts
  <1> QED
    BY <1>1, <1>3, <1>4 DEF Moves, Calm, Alike, In, Does, Rung, Tied

LEMMA ShareView ==
  ASSUME Quiet, NEW c \in Clients, ToggleShare(c)
  PROVE  Moves(c, cl'[c]) /\ Calm(cl'[c], cl[c]) /\ Mailless
  <1> DEFINE s == cl[c]
             m == IF s.sharing THEN [s EXCEPT !.screen = FALSE] ELSE s
             op == IF s.sharing THEN "unshare" ELSE "share"
             a == IF s.sharing THEN "replace" ELSE "picker"
             n == Started(m, op, a, s.peer, s.call)
  <1>1. s \in States /\ Wired(s) /\ s.phase = "connected" /\ HasRoom(s) /\ cl' = [cl EXCEPT ![c] = n] /\ Mailless
    BY QuietFacts DEF ToggleShare, Buttons, Mailless
  <1>2. s.peer \in Peers /\ s.call \in 0..MaxCalls
    BY <1>1, StateFields DEF Wired
  <1> HIDE DEF s
  <1>3. SameBut(m, s, {"screen"}) /\ HasRoom(m)
    BY <1>1 DEF SameBut, States, HasRoom
  <1>4. op \in {"share", "unshare"} /\ a \in {"replace", "picker"}
    OBVIOUS
  <1> HIDE DEF m, op, a
  <1>5. PICK i \in Slots : BeginsAt(n, m, i, op, a, s.peer, s.call)
    BY <1>2, <1>3, <1>4, StartedFields DEF SameBut
  <1> HIDE DEF n
  <1>6. n \in States /\ n.phase = s.phase /\ n.peer = s.peer /\ n.call = s.call /\ m.tasks = s.tasks /\ m.call = s.call
    BY <1>3, <1>5 DEF BeginsAt, SameBut
  <1>7. Alike(n, m)
    <2>1. /\ OthersWait(n, m, i) /\ m.tasks[i] = Nil /\ n.tasks[i] # Nil /\ n.tasks[i].op \in {"share", "unshare"}
      BY <1>4, <1>5, TaskFields DEF BeginsAt
    <2> QED
      BY <1>6, <2>1, TaskAdded DEF Alike
  <1>8. Moves(c, n)
    BY <1>1, <1>6, QuietFacts DEF s
  <1> QED
    BY <1>1, <1>6, <1>7, <1>8, CalmAlike DEF Moves, s

LEMMA CardView ==
  ASSUME Quiet, NEW c \in Clients, CardGone(c)
  PROVE  Moves(c, cl'[c]) /\ Calm(cl'[c], cl[c]) /\ Mailless
  <1>1. /\ cl[c].phase = "ended" /\ cl' = [cl EXCEPT ![c] = Idle(TornDown(cl[c]))] /\ NoteTeardown(c) /\ Mailless
    BY DEF CardGone, Mailless, Quiet, CallsInv, ClientsInv
  <1> DEFINE n == Idle(TornDown(cl[c]))
  <1>2. Moves(c, n) /\ NoneWaits(n) /\ ~In(n) /\ n.call = cl[c].call
    BY <1>1, StopView
  <1>3. NoneWaits(cl[c]) /\ ~In(cl[c])
    BY <1>1, QuietFacts DEF Good, In
  <1> HIDE DEF n
  <1> QED
    BY <1>1, <1>2, <1>3, NoTask DEF Moves, Calm, Alike

LEMMA IceView ==
  ASSUME Quiet, NEW c \in Clients, NEW i \in Slots, IceKnown(c, i)
  PROVE  Moves(c, cl'[c]) /\ Calm(cl'[c], cl[c]) /\ Mailless
  <1> DEFINE s == cl[c]
             t == s.tasks[i]
             l == [to |-> t.with, sig |-> "new"]
             m == [s EXCEPT !.pc = l]
             n == Wait(m, i, "media")
  <1>1. s \in States /\ t \in Tasks /\ t # Nil /\ cl' = [cl EXCEPT ![c] = n] /\ Mailless
    BY QuietFacts, StateFields DEF IceKnown, TaskAt, Continue, Mailless
  <1>2. l \in Connections
    BY <1>1, TaskFields DEF Links, Connections
  <1> HIDE DEF s, l
  <1>3. SameBut(m, s, {"pc"})
    BY <1>1, <1>2 DEF SameBut, States
  <1> HIDE DEF m
  <1>4. /\ SameBut(n, m, {"tasks"}) /\ OthersWait(n, m, i) /\ n.tasks[i] \in Tasks
        /\ n.tasks[i].op = t.op /\ n.tasks[i].with = t.with /\ n.tasks[i].call = t.call
    BY <1>1, <1>3, WaitFields DEF SameBut
  <1> HIDE DEF n
  <1>5. /\ n \in States /\ n.phase = s.phase /\ n.peer = s.peer /\ n.call = s.call /\ m.tasks = s.tasks /\ m.call = s.call
        /\ n.tasks[i] # Nil
    BY <1>3, <1>4, TaskFields DEF SameBut
  <1>6. Alike(n, m)
    BY <1>1, <1>4, <1>5, TaskWaits
  <1>7. Moves(c, n)
    BY <1>1, <1>5, QuietFacts DEF s
  <1> QED
    BY <1>1, <1>5, <1>6, <1>7, CalmAlike DEF Moves, s

LEMMA MediaView ==
  ASSUME Quiet, NEW c \in Clients, NEW i \in Slots, MediaGranted(c, i)
  PROVE  Moves(c, cl'[c]) /\ Calm(cl'[c], cl[c]) /\ Mailless
  <1> DEFINE s == cl[c]
             t == s.tasks[i]
             m == [s EXCEPT !.leaked = @ \/ s.mic # "none", !.mic = "live"]
             a == IF t.op = "start" THEN "offer" ELSE "remote"
             r == IF m.pc # Nil THEN Wait(m, i, a)
                  ELSE IF t.op = "start" THEN Done(Ended(TornDown(m)), i) ELSE Done(m, i)
             n == Wait(m, i, a)
  <1>1. s \in States /\ Good(s) /\ t \in Tasks /\ t # Nil /\ t.op \in {"start", "ring"} /\ t.at = "media"
        /\ cl' = [cl EXCEPT ![c] = r] /\ Mailless
    BY QuietFacts, StateFields DEF MediaGranted, TaskAt, Continue, Mailless
  <1> HIDE DEF s
  <1>2. SameBut(m, s, {"leaked", "mic"})
    <2> DEFINE y == s.leaked \/ s.mic # "none"
    <2>1. y \in BOOLEAN /\ m = [s EXCEPT !.leaked = y, !.mic = "live"]
      BY <1>1 DEF States
    <2> HIDE DEF y, m
    <2> QED
      BY <1>1, <2>1 DEF SameBut, States
  <1>3. s.pc # Nil
    <2>1. \/ s.phase = "idle" /\ Ringing(s, t)
          \/ s.phase = "inviting" /\ Calling(s, t)
      BY <1>1, StateFields DEF Good, NoneWaits, Answering, Sharing, Phases
    <2> QED
      BY <1>1, <2>1 DEF Ringing, Calling, Link
  <1> HIDE DEF m
  <1>4. r = n /\ a \in {"offer", "remote"}
    BY <1>2, <1>3 DEF SameBut
  <1> HIDE DEF r, a
  <1>5. /\ SameBut(n, m, {"tasks"}) /\ OthersWait(n, m, i) /\ n.tasks[i] \in Tasks
        /\ n.tasks[i].op = t.op /\ n.tasks[i].with = t.with /\ n.tasks[i].call = t.call
    BY <1>1, <1>2, <1>4, WaitFields DEF SameBut
  <1> HIDE DEF n
  <1>6. /\ n \in States /\ n.phase = s.phase /\ n.peer = s.peer /\ n.call = s.call /\ m.tasks = s.tasks /\ m.call = s.call
        /\ n.tasks[i] # Nil
    BY <1>2, <1>5, TaskFields DEF SameBut
  <1>7. Alike(n, m)
    BY <1>1, <1>5, <1>6, TaskWaits
  <1>8. Moves(c, n)
    BY <1>1, <1>4, <1>6, QuietFacts DEF s
  <1> QED
    BY <1>1, <1>6, <1>7, <1>8, CalmAlike DEF Moves, s

LEMMA PickView ==
  ASSUME Quiet, NEW c \in Clients, NEW i \in Slots, ScreenPicked(c, i)
  PROVE  Moves(c, cl'[c]) /\ Calm(cl'[c], cl[c]) /\ Mailless
  <1> DEFINE s == cl[c]
             t == s.tasks[i]
             m == [s EXCEPT !.screen = TRUE]
             n == IF s.pc # Nil /\ s.pc.to = t.with /\ s.call = t.call THEN Wait(m, i, "replace") ELSE Done(m, i)
  <1>1. s \in States /\ t \in Tasks /\ t # Nil /\ t.op = "share" /\ cl' = [cl EXCEPT ![c] = n] /\ Mailless
    BY QuietFacts, StateFields DEF ScreenPicked, TaskAt, Continue, Mailless
  <1> HIDE DEF s
  <1>2. SameBut(m, s, {"screen"})
    BY <1>1 DEF SameBut, States
  <1>3. n = Done(m, i) \/ n = Wait(m, i, "replace")
    OBVIOUS
  <1> HIDE DEF m, n
  <1>4. m \in States /\ m.tasks = s.tasks /\ m.call = s.call /\ m.phase = s.phase /\ m.peer = s.peer /\ m.tasks[i] # Nil
        /\ m.tasks[i].op = "share"
    BY <1>1, <1>2 DEF SameBut
  <1>5. SameBut(n, m, {"tasks"}) /\ Alike(n, m)
    <2>1. CASE n = Done(m, i)
      <3>1. SameBut(n, m, {"tasks"}) /\ n.tasks[i] = Nil /\ OthersWait(n, m, i) /\ n.call = m.call
        BY <1>4, <2>1, DoneFields DEF SameBut
      <3> QED
        BY <1>4, <3>1, TaskEnded DEF Alike
    <2>2. CASE n = Wait(m, i, "replace")
      <3>1. /\ SameBut(n, m, {"tasks"}) /\ OthersWait(n, m, i) /\ n.tasks[i] \in Tasks /\ n.call = m.call
            /\ n.tasks[i].op = m.tasks[i].op /\ n.tasks[i].with = m.tasks[i].with /\ n.tasks[i].call = m.tasks[i].call
        BY <1>4, <2>2, WaitFields DEF SameBut
      <3> QED
        BY <1>4, <3>1, TaskWaits, TaskFields
    <2> QED
      BY <1>3, <2>1, <2>2
  <1>6. n \in States /\ n.phase = s.phase /\ n.peer = s.peer /\ n.call = s.call
    BY <1>4, <1>5 DEF SameBut
  <1>7. Moves(c, n)
    BY <1>1, <1>6, QuietFacts DEF s
  <1> QED
    BY <1>1, <1>4, <1>5, <1>6, <1>7, CalmAlike DEF Moves, s

LEMMA SharedView ==
  ASSUME Quiet, NEW c \in Clients, NEW i \in Slots, ShareSet(c, i)
  PROVE  Moves(c, cl'[c]) /\ Calm(cl'[c], cl[c]) /\ Mailless
  <1> DEFINE s == cl[c]
             t == s.tasks[i]
             m == Connected(s, t.with)
             b == t.op = "share"
             k == [m EXCEPT !.muted = t.muted, !.sharing = b]
             n == Done(k, i)
  <1>1. /\ s \in States /\ Good(s) /\ t \in Tasks /\ t # Nil /\ t.op \in {"share", "unshare"}
        /\ cl' = [cl EXCEPT ![c] = n] /\ Mailless
    BY QuietFacts, StateFields DEF ShareSet, TaskAt, Continue, Mailless
  <1> HIDE DEF s
  <1>2. t.with \in Peers /\ t.muted \in BOOLEAN /\ b \in BOOLEAN
    BY <1>1, TaskFields
  <1>3. s.phase = "connected" /\ t.with = s.peer
    BY <1>1, TaskPhase
  <1> HIDE DEF b
  <1>4. SameBut(m, s, {"phase", "peer", "muted", "sharing"}) /\ m.phase = "connected" /\ m.peer = t.with
    BY <1>1, <1>2, ConnectedFields
  <1> HIDE DEF m
  <1>5. SameBut(k, m, {"muted", "sharing"})
    BY <1>2, <1>4 DEF SameBut, States
  <1> HIDE DEF k
  <1>6. SameBut(n, k, {"tasks"}) /\ n.tasks[i] = Nil /\ OthersWait(n, k, i)
    BY <1>5, DoneFields DEF SameBut
  <1> HIDE DEF n
  <1>7. /\ n \in States /\ n.phase = s.phase /\ n.peer = s.peer /\ n.call = s.call /\ k.tasks = s.tasks /\ k.call = s.call
        /\ n.call = k.call
    BY <1>3, <1>4, <1>5, <1>6 DEF SameBut
  <1>8. Alike(n, k)
    BY <1>1, <1>6, <1>7, TaskEnded DEF Alike
  <1>9. Moves(c, n)
    BY <1>1, <1>7, QuietFacts DEF s
  <1> QED
    BY <1>1, <1>7, <1>8, <1>9, CalmAlike DEF Moves, s

LEMMA OfferView ==
  ASSUME Quiet, NEW c \in Clients, NEW i \in Slots, OfferSet(c, i)
  PROVE  LET s == cl[c]  t == cl'[c]
         IN /\ Moves(c, t) /\ NoneWaits(t) /\ Does(s, "start") /\ s.phase = "inviting"
            /\ t.phase = s.phase /\ t.peer = s.peer /\ t.call = s.call /\ made' = made
            /\ Tied(s) => Post(s.peer, "invite", c, s.call)
  <1> DEFINE s == cl[c]
             t == s.tasks[i]
             m == [s EXCEPT !.pc.sig = "offered"]
             n == Done(m, i)
  <1>1. /\ s \in States /\ Wired(s) /\ Good(s) /\ t \in Tasks /\ t # Nil /\ t.op = "start" /\ t.at = "offer"
        /\ cl' = [cl EXCEPT ![c] = n] /\ made' = made /\ Post(t.with, "invite", c, t.call)
    BY QuietFacts, StateFields DEF OfferSet, TaskAt
  <1> HIDE DEF s
  <1>2. s.pc # Nil /\ s.phase = "inviting" /\ t.with = s.peer /\ Does(s, "start")
    BY <1>1, TaskPhase DEF Wired, OnPc, Does
  <1>3. SameBut(m, s, {"pc"})
    BY <1>1, <1>2, LinkFields
  <1> HIDE DEF m
  <1>4. SameBut(n, m, {"tasks"}) /\ n.tasks[i] = Nil /\ OthersWait(n, m, i)
    BY <1>3, DoneFields DEF SameBut
  <1> HIDE DEF n
  <1>5. NoneWaits(n)
    <2>1. OthersWait(n, s, i)
      BY <1>3, <1>4 DEF OthersWait, SameBut
    <2> QED
      BY <1>1, <1>2, <1>4, <2>1, LastTask
  <1>6. n \in States /\ n.phase = s.phase /\ n.peer = s.peer /\ n.call = s.call
    BY <1>3, <1>4 DEF SameBut
  <1>7. Moves(c, n)
    BY <1>1, <1>6, QuietFacts DEF s
  <1>8. Tied(s) => t.call = s.call
    BY <1>1 DEF Tied
  <1> QED
    BY <1>1, <1>2, <1>5, <1>6, <1>7, <1>8 DEF Moves, s

LEMMA RingView ==
  ASSUME Quiet, NEW c \in Clients, NEW i \in Slots, Ring(c, i)
  PROVE  LET s == cl[c]  t == cl'[c]
         IN /\ Moves(c, t) /\ NoneWaits(t) /\ s.phase = "idle" /\ t.phase = "incoming"
            /\ Rung(s, t.call, t.peer) /\ t.peer \in Peers /\ Mailless
  <1> DEFINE s == cl[c]
             t == s.tasks[i]
             m == [s EXCEPT !.pc.sig = "offer"]
             k == [m EXCEPT !.phase = "incoming", !.peer = t.with, !.muted = FALSE, !.sharing = FALSE, !.call = t.call]
             n == Done(k, i)
  <1>1. /\ s \in States /\ Wired(s) /\ Good(s) /\ t \in Tasks /\ t # Nil /\ t.op = "ring" /\ t.at = "remote"
        /\ cl' = [cl EXCEPT ![c] = n] /\ Mailless
    BY QuietFacts, StateFields DEF Ring, TaskAt, Continue, Mailless
  <1> HIDE DEF s
  <1>2. s.pc # Nil /\ s.phase = "idle" /\ t.with \in Peers /\ t.call \in 0..MaxCalls
    BY <1>1, TaskPhase, TaskFields DEF Wired, OnPc
  <1>3. SameBut(m, s, {"pc"})
    BY <1>1, <1>2, LinkFields
  <1> HIDE DEF m
  <1>4. /\ SameBut(k, m, {"phase", "peer", "muted", "sharing", "call"})
        /\ k.phase = "incoming" /\ k.peer = t.with /\ k.call = t.call
    BY <1>2, <1>3 DEF SameBut, States, Phases
  <1> HIDE DEF k
  <1>5. SameBut(n, k, {"tasks"}) /\ n.tasks[i] = Nil /\ OthersWait(n, k, i)
    BY <1>4, DoneFields DEF SameBut
  <1> HIDE DEF n
  <1>6. NoneWaits(n)
    <2>1. OthersWait(n, s, i)
      BY <1>3, <1>4, <1>5 DEF OthersWait, SameBut
    <2> QED
      BY <1>1, <1>2, <1>5, <2>1, LastTask
  <1>7. n \in States /\ n.phase = "incoming" /\ n.peer = t.with /\ n.call = t.call
    BY <1>4, <1>5 DEF SameBut
  <1>8. Moves(c, n)
    BY <1>1, <1>7, QuietFacts DEF s
  <1>9. Rung(s, n.call, n.peer)
    BY <1>1, <1>7 DEF Rung
  <1> QED
    BY <1>1, <1>2, <1>6, <1>7, <1>8, <1>9 DEF Moves, s

LEMMA AnswerView ==
  ASSUME Quiet, NEW c \in Clients, NEW i \in Slots, AnswerSet(c, i)
  PROVE  LET s == cl[c]  t == cl'[c]
         IN /\ Moves(c, t) /\ NoneWaits(t) /\ s.phase = "incoming" /\ t.phase = "connected"
            /\ t.peer = s.peer /\ t.call = s.call /\ made' = made
            /\ Tied(s) => Post(s.peer, "accept", c, s.call)
  <1> DEFINE s == cl[c]
             t == s.tasks[i]
             m == [s EXCEPT !.pc.sig = "stable"]
             k == Connected(m, t.with)
             n == Done(k, i)
  <1>1. /\ s \in States /\ Wired(s) /\ Good(s) /\ t \in Tasks /\ t # Nil /\ t.op = "accept" /\ t.at = "answer"
        /\ cl' = [cl EXCEPT ![c] = n] /\ made' = made /\ Post(t.with, "accept", c, t.call)
    BY QuietFacts, StateFields DEF AnswerSet, TaskAt, States
  <1> HIDE DEF s
  <1>2. s.pc # Nil /\ s.phase = "incoming" /\ t.with = s.peer /\ t.with \in Peers
    BY <1>1, TaskPhase, TaskFields DEF Wired, OnPc
  <1>3. SameBut(m, s, {"pc"})
    BY <1>1, <1>2, LinkFields
  <1> HIDE DEF m
  <1>4. SameBut(k, m, {"phase", "peer", "muted", "sharing"}) /\ k.phase = "connected" /\ k.peer = t.with
    BY <1>2, <1>3, ConnectedFields DEF SameBut
  <1> HIDE DEF k
  <1>5. SameBut(n, k, {"tasks"}) /\ n.tasks[i] = Nil /\ OthersWait(n, k, i)
    BY <1>4, DoneFields DEF SameBut
  <1> HIDE DEF n
  <1>6. NoneWaits(n)
    <2>1. OthersWait(n, s, i)
      BY <1>3, <1>4, <1>5 DEF OthersWait, SameBut
    <2> QED
      BY <1>1, <1>2, <1>5, <2>1, LastTask
  <1>7. n \in States /\ n.phase = "connected" /\ n.peer = s.peer /\ n.call = s.call
    BY <1>2, <1>3, <1>4, <1>5 DEF SameBut
  <1>8. Moves(c, n)
    BY <1>1, <1>7, QuietFacts DEF s
  <1>9. Tied(s) => t.call = s.call
    BY <1>1 DEF Tied
  <1> QED
    BY <1>1, <1>2, <1>6, <1>7, <1>8, <1>9 DEF Moves, s

LEMMA JoinView ==
  ASSUME Quiet, NEW c \in Clients, NEW i \in Slots, Joined(c, i)
  PROVE  LET s == cl[c]  t == cl'[c]
         IN /\ Moves(c, t) /\ NoneWaits(t) /\ Does(s, "join") /\ s.phase = "inviting" /\ t.phase = "connected"
            /\ t.peer = s.peer /\ t.call = s.call /\ Mailless
  <1> DEFINE s == cl[c]
             t == s.tasks[i]
             m == [s EXCEPT !.pc.sig = "stable"]
             k == Done(m, i)
             n == Connected(k, t.with)
  <1>1. s \in States /\ Wired(s) /\ Good(s) /\ t \in Tasks /\ t # Nil /\ t.op = "join" /\ t.at = "remote"
    BY QuietFacts, StateFields DEF Joined, TaskAt
  <1>2. s.pc # Nil /\ s.phase = "inviting" /\ t.with = s.peer /\ t.with \in Peers /\ Does(s, "join")
    BY <1>1, TaskPhase, TaskFields DEF Wired, OnPc, Does
  <1>3. t.was = "inviting"
    BY <1>1, <1>2 DEF Good, Calling
  <1>4. cl' = [cl EXCEPT ![c] = n] /\ Mailless
    BY <1>3 DEF Joined, Continue, Mailless
  <1> HIDE DEF s
  <1>5. SameBut(m, s, {"pc"})
    BY <1>1, <1>2, LinkFields
  <1> HIDE DEF m
  <1>6. SameBut(k, m, {"tasks"}) /\ k.tasks[i] = Nil /\ OthersWait(k, m, i)
    BY <1>5, DoneFields DEF SameBut
  <1> HIDE DEF k
  <1>7. SameBut(n, k, {"phase", "peer", "muted", "sharing"}) /\ n.phase = "connected" /\ n.peer = t.with
    BY <1>2, <1>6, ConnectedFields DEF SameBut
  <1> HIDE DEF n
  <1>8. NoneWaits(n)
    <2>1. OthersWait(k, s, i)
      BY <1>5, <1>6 DEF OthersWait, SameBut
    <2>2. NoneWaits(k)
      BY <1>1, <1>2, <1>6, <2>1, LastTask
    <2> QED
      BY <1>7, <2>2 DEF NoneWaits, SameBut
  <1>9. n \in States /\ n.phase = "connected" /\ n.peer = s.peer /\ n.call = s.call
    BY <1>2, <1>5, <1>6, <1>7 DEF SameBut
  <1>10. Moves(c, n)
    BY <1>4, <1>9, QuietFacts DEF s
  <1> QED
    BY <1>2, <1>4, <1>8, <1>9, <1>10 DEF Moves, s

(* The steps that take a message.                                          *)
LEMMA InvitedView ==
  ASSUME Quiet, NEW c \in Clients, Invited(c)
  PROVE  LET s == cl[c]  t == cl'[c]  m == Head(inbox[c])
         IN /\ Moves(c, t) /\ NoneWaits(s) /\ s.phase = "idle" /\ t.phase = "idle" /\ t.call = s.call /\ made' = made
            /\ \A n \in 0..MaxCalls, u \in Peers : Rung(t, n, u) <=> n = m.call /\ u = m.from
            /\ ~Does(t, "start") /\ ~Does(t, "join") /\ Tied(t)
            /\ Head1(c, "invite") /\ Next1(c)
  <1> DEFINE s == cl[c]
             m == Head(inbox[c])
             n == Started(s, "ring", "ice", m.from, m.call)
  <1>1. /\ Head1(c, "invite") /\ s.phase = "idle" /\ HasRoom(s) /\ Next1(c) /\ cl' = [cl EXCEPT ![c] = n]
        /\ NoteSetup(c) /\ made' = made /\ s \in States
    BY QuietFacts DEF Invited
  <1>2. m.from \in Peers /\ m.call \in 0..MaxCalls
    <2>1. m \in Messages
      BY <1>1, QuietFacts DEF Head1, Relayed
    <2> QED
      BY <2>1 DEF Messages
  <1>3. NoneWaits(s)
    <2>1. ClientsInv
      BY DEF Quiet, CallsInv
    <2> QED
      BY <1>1, <2>1, SetupAlone, QuietFacts
  <1> HIDE DEF m
  <1>4. PICK i \in Slots : BeginsAt(n, s, i, "ring", "ice", m.from, m.call)
    BY <1>1, <1>2, StartedFields
  <1> HIDE DEF n
  <1>5. /\ n \in States /\ n.phase = "idle" /\ n.call = s.call /\ OthersWait(n, s, i) /\ s.tasks[i] = Nil
        /\ n.tasks[i] # Nil /\ n.tasks[i].op = "ring" /\ n.tasks[i].with = m.from /\ n.tasks[i].call = m.call
    BY <1>1, <1>4, TaskFields DEF BeginsAt, SameBut
  <1>6. /\ \A k \in 0..MaxCalls, u \in Peers : ~Rung(s, k, u)
        /\ ~Does(s, "start") /\ ~Does(s, "join") /\ Tied(s)
    BY <1>3, NoTask
  <1>7. \A k \in 0..MaxCalls, u \in Peers : Rung(n, k, u) <=> k = m.call /\ u = m.from
    BY <1>5, <1>6, TaskAdded
  <1>8. ~Does(n, "start") /\ ~Does(n, "join") /\ Tied(n)
    BY <1>5, <1>6, TaskAdded
  <1>9. Moves(c, n)
    BY <1>1, <1>5, QuietFacts DEF s
  <1> QED
    BY <1>1, <1>3, <1>5, <1>7, <1>8, <1>9 DEF Moves, s, m

LEMMA AcceptedView ==
  ASSUME Quiet, NEW c \in Clients, Accepted(c)
  PROVE  LET s == cl[c]  t == cl'[c]
         IN /\ Moves(c, t) /\ t.call = s.call /\ made' = made /\ t.phase = s.phase /\ t.peer = s.peer
            /\ Head1(c, "accept") /\ Next1(c) /\ Head(inbox[c]).call = s.call
            /\ Tied(s) => Tied(t)
            /\ (Does(t, "start") <=> Does(s, "start")) /\ (Does(s, "join") => Does(t, "join"))
            /\ \A n \in 0..MaxCalls, u \in Peers : Rung(t, n, u) <=> Rung(s, n, u)
            /\ s.phase = "inviting" => Does(s, "start") \/ Does(t, "join")
            /\ Does(t, "join") => s.phase = "inviting"
  <1> DEFINE s == cl[c]
             u == IF s.peer = Nil THEN Head(inbox[c]).from ELSE s.peer
             n == Started(s, "join", "remote", u, s.call)
  <1>1. /\ s \in States /\ Wired(s) /\ Good(s) /\ Head1(c, "accept") /\ Next1(c) /\ made' = made
        /\ Head(inbox[c]).call = s.call
    BY QuietFacts DEF Accepted, NoteStray
  <1>2. CASE UNCHANGED cl /\ ~(s.pc # Nil /\ s.pc.sig = "offered")
    <2>1. Moves(c, s) /\ cl'[c] = s
      BY <1>2, QuietFacts DEF Moves, Quiet, CallsInv, ClientsInv
    <2>2. s.phase = "inviting" => Does(s, "start")
      <3> SUFFICES ASSUME s.phase = "inviting" PROVE Does(s, "start")
        OBVIOUS
      <3>1. ~NoneWaits(s)
        BY <1>1, <1>2 DEF Good, Link
      <3>2. PICK i \in Slots : s.tasks[i] # Nil
        BY <3>1 DEF NoneWaits
      <3>3. Calling(s, s.tasks[i])
        BY <1>1, <3>2 DEF Good
      <3> QED
        BY <1>2, <3>2, <3>3 DEF Calling, Link, Does
    <2> QED
      BY <1>1, <2>1, <2>2, TaskPhase
  <1>3. CASE /\ s.pc # Nil /\ s.pc.sig = "offered" /\ HasRoom(s) /\ NoteSetup(c)
             /\ cl' = [cl EXCEPT ![c] = n]
    <2>1. u \in Peers /\ s.call \in 0..MaxCalls
      <3>1. Head(inbox[c]) \in Messages
        BY <1>1, QuietFacts DEF Head1, Relayed
      <3> QED
        BY <1>1, <3>1, StateFields DEF Messages
    <2>2. NoneWaits(s)
      <3>1. ClientsInv
        BY DEF Quiet, CallsInv
      <3> QED
        BY <1>3, <3>1, SetupAlone, QuietFacts
    <2>3. s.phase = "inviting"
      BY <1>1, <1>3, <2>2, StateFields DEF Good, Off, Link, Phases
    <2> HIDE DEF u
    <2>4. PICK i \in Slots : BeginsAt(n, s, i, "join", "remote", u, s.call)
      BY <1>1, <1>3, <2>1, StartedFields
    <2> HIDE DEF n
    <2>5. /\ n \in States /\ n.phase = s.phase /\ n.peer = s.peer /\ n.call = s.call /\ OthersWait(n, s, i) /\ s.tasks[i] = Nil
          /\ n.tasks[i] # Nil /\ n.tasks[i].op = "join" /\ n.tasks[i].call = s.call
      BY <2>4, TaskFields DEF BeginsAt, SameBut
    <2>6. /\ Tied(s) => Tied(n)
          /\ Does(n, "start") <=> Does(s, "start")
          /\ Does(n, "join")
          /\ \A k \in 0..MaxCalls, w \in Peers : Rung(n, k, w) <=> Rung(s, k, w)
      BY <2>5, TaskAdded
    <2>7. Moves(c, n)
      BY <1>3, <2>5, QuietFacts
    <2>8. cl'[c] = n
      BY <2>7 DEF Moves
    <2> QED
      BY <1>1, <2>3, <2>5, <2>6, <2>7, <2>8
  <1> QED
    BY <1>2, <1>3 DEF Accepted

LEMMA StoppedView ==
  ASSUME Quiet, NEW c \in Clients, Stopped(c)
  PROVE  LET s == cl[c]  t == cl'[c]
         IN /\ Moves(c, t) /\ NoneWaits(t) /\ ~In(t) /\ t.call = s.call /\ made' = made
            /\ Head1(c, "reject") \/ Head1(c, "end")
            /\ Next1(c) /\ Head(inbox[c]).call = s.call
  <1>1. /\ cl' = [cl EXCEPT ![c] = Ended(TornDown(cl[c]))] /\ NoteTeardown(c) /\ made' = made
        /\ Head1(c, "reject") \/ Head1(c, "end")
        /\ Next1(c) /\ Head(inbox[c]).call = cl[c].call
    BY QuietFacts DEF Stopped, NoteStray, Quiet, CallsInv, ClientsInv
  <1>2. LET n == Ended(TornDown(cl[c])) IN Moves(c, n) /\ NoneWaits(n) /\ ~In(n) /\ n.call = cl[c].call
    BY <1>1, StopView
  <1> QED
    BY <1>1, <1>2 DEF Moves

LEMMA EndView ==
  ASSUME Quiet, NEW c \in Clients, RejectCall(c) \/ EndCall(c)
  PROVE  LET s == cl[c]  t == cl'[c]
         IN /\ Moves(c, t) /\ NoneWaits(t) /\ ~In(t) /\ In(s) /\ t.call = s.call /\ made' = made
            /\ Post(s.peer, "reject", c, s.call) \/ Post(s.peer, "end", c, s.call)
  <1>1. /\ cl' = [cl EXCEPT ![c] = Idle(TornDown(cl[c]))] /\ NoteTeardown(c) /\ made' = made
        /\ Post(cl[c].peer, "reject", c, cl[c].call) \/ Post(cl[c].peer, "end", c, cl[c].call)
        /\ In(cl[c])
    BY DEF RejectCall, EndCall, Buttons, In, Quiet, CallsInv, ClientsInv
  <1>2. LET n == Idle(TornDown(cl[c])) IN Moves(c, n) /\ NoneWaits(n) /\ ~In(n) /\ n.call = cl[c].call
    BY <1>1, StopView
  <1> QED
    BY <1>1, <1>2 DEF Moves

-----------------------------------------------------------------------------
(* What is on its way to a client, by type and by sender.                  *)

Letter(q, type, n) == \E k \in DOMAIN q : q[k].type = type /\ q[k].call = n
Sender(q, u, n) == \E k \in DOMAIN q : q[k].from = u /\ q[k].call = n
InvitesDiffer(q) ==
  \A j, k \in DOMAIN q : q[j].type = "invite" /\ q[k].type = "invite" /\ q[j].call = q[k].call => j = k

LEMMA LetterAppended ==
  ASSUME NEW q \in Seq(Messages), NEW m \in Messages
  PROVE  LET r == Append(q, m)
         IN /\ \A type \in {"invite", "accept", "reject", "end"}, n \in 0..MaxCalls :
                 /\ Letter(q, type, n) => Letter(r, type, n)
                 /\ m.type = type /\ m.call = n => Letter(r, type, n)
                 /\ Letter(r, type, n) /\ ~Letter(q, type, n) => m.type = type /\ m.call = n
            /\ \A u \in Peers, n \in 0..MaxCalls :
                 /\ Sender(q, u, n) => Sender(r, u, n)
                 /\ Sender(r, u, n) /\ ~Sender(q, u, n) => m.from = u /\ m.call = n
            /\ InvitesDiffer(q) /\ (m.type = "invite" => ~Letter(q, "invite", m.call)) => InvitesDiffer(r)
  <1> DEFINE r == Append(q, m)
  <1>1. /\ Len(q) \in Nat /\ DOMAIN q = 1..Len(q) /\ DOMAIN r = 1..(Len(q) + 1)
        /\ r[Len(q) + 1] = m /\ \A k \in 1..Len(q) : r[k] = q[k]
    OBVIOUS
  <1> DEFINE l == Len(q)
  <1>2. l \in Nat /\ DOMAIN q = 1..l /\ DOMAIN r = 1..(l + 1) /\ r[l + 1] = m /\ \A k \in 1..l : r[k] = q[k]
    BY <1>1
  <1> HIDE DEF l, r
  <1>3. \A k \in DOMAIN r : k \in DOMAIN q \/ k = l + 1
    BY <1>2
  <1>4. \A k \in DOMAIN q : k \in DOMAIN r /\ r[k] = q[k] /\ k # l + 1
    BY <1>2
  <1>5. l + 1 \in DOMAIN r
    BY <1>2
  <1>6. \A type \in {"invite", "accept", "reject", "end"}, n \in 0..MaxCalls :
          /\ Letter(q, type, n) => Letter(r, type, n)
          /\ m.type = type /\ m.call = n => Letter(r, type, n)
          /\ Letter(r, type, n) /\ ~Letter(q, type, n) => m.type = type /\ m.call = n
    BY <1>2, <1>3, <1>4, <1>5 DEF Letter
  <1>7. \A u \in Peers, n \in 0..MaxCalls :
          /\ Sender(q, u, n) => Sender(r, u, n)
          /\ Sender(r, u, n) /\ ~Sender(q, u, n) => m.from = u /\ m.call = n
    BY <1>2, <1>3, <1>4, <1>5 DEF Sender
  <1>8. InvitesDiffer(q) /\ (m.type = "invite" => ~Letter(q, "invite", m.call)) => InvitesDiffer(r)
    BY <1>2, <1>3, <1>4 DEF InvitesDiffer, Letter
  <1> QED
    BY <1>6, <1>7, <1>8 DEF r

LEMMA LetterTaken ==
  ASSUME NEW q \in Seq(Messages), q # <<>>
  PROVE  LET r == Tail(q)  m == Head(q)
         IN /\ m \in Messages /\ Letter(q, m.type, m.call) /\ Sender(q, m.from, m.call)
            /\ \A type \in {"invite", "accept", "reject", "end"}, n \in 0..MaxCalls :
                 /\ Letter(r, type, n) => Letter(q, type, n)
                 /\ Letter(q, type, n) /\ ~Letter(r, type, n) => m.type = type /\ m.call = n
            /\ \A u \in Peers, n \in 0..MaxCalls : Sender(r, u, n) => Sender(q, u, n)
            /\ InvitesDiffer(q) => InvitesDiffer(r) /\ (m.type = "invite" => ~Letter(r, "invite", m.call))
  <1> DEFINE r == Tail(q)
             l == Len(q)
             m == Head(q)
  <1>1. /\ l \in Nat \ {0} /\ DOMAIN q = 1..l /\ DOMAIN r = 1..(l - 1) /\ m = q[1]
        /\ \A k \in 1..(l - 1) : r[k] = q[k + 1]
    OBVIOUS
  <1>2. m \in Messages
    OBVIOUS
  <1> HIDE DEF l, r, m
  <1>3. 1 \in DOMAIN q /\ \A k \in DOMAIN q : k = 1 \/ (k - 1 \in DOMAIN r /\ r[k - 1] = q[k])
    BY <1>1
  <1>4. \A k \in DOMAIN r : k + 1 \in DOMAIN q /\ r[k] = q[k + 1] /\ k + 1 # 1 /\ k \in Int
    BY <1>1
  <1>5. \A type \in {"invite", "accept", "reject", "end"}, n \in 0..MaxCalls :
          /\ Letter(r, type, n) => Letter(q, type, n)
          /\ Letter(q, type, n) /\ ~Letter(r, type, n) => m.type = type /\ m.call = n
    <2> SUFFICES ASSUME NEW type \in {"invite", "accept", "reject", "end"}, NEW n \in 0..MaxCalls
        PROVE  /\ Letter(r, type, n) => Letter(q, type, n)
               /\ Letter(q, type, n) /\ ~Letter(r, type, n) => m.type = type /\ m.call = n
      OBVIOUS
    <2>1. Letter(r, type, n) => Letter(q, type, n)
      BY <1>4 DEF Letter
    <2>2. ASSUME Letter(q, type, n), ~Letter(r, type, n) PROVE m.type = type /\ m.call = n
      <3>1. PICK k \in DOMAIN q : q[k].type = type /\ q[k].call = n
        BY <2>2 DEF Letter
      <3>2. ~(k - 1 \in DOMAIN r /\ r[k - 1] = q[k])
        BY <2>2, <3>1 DEF Letter
      <3>3. k = 1
        BY <1>3, <3>2
      <3> QED
        BY <1>1, <3>1, <3>3
    <2> QED
      BY <2>1, <2>2
  <1>6. \A u \in Peers, n \in 0..MaxCalls : Sender(r, u, n) => Sender(q, u, n)
    BY <1>4 DEF Sender
  <1>7. InvitesDiffer(q) => InvitesDiffer(r) /\ (m.type = "invite" => ~Letter(r, "invite", m.call))
    <2> SUFFICES ASSUME InvitesDiffer(q) PROVE InvitesDiffer(r) /\ (m.type = "invite" => ~Letter(r, "invite", m.call))
      OBVIOUS
    <2>1. InvitesDiffer(r)
      BY <1>4 DEF InvitesDiffer
    <2>2. m.type = "invite" => ~Letter(r, "invite", m.call)
      BY <1>1, <1>3, <1>4 DEF InvitesDiffer, Letter
    <2> QED
      BY <2>1, <2>2
  <1>8. Letter(q, m.type, m.call) /\ Sender(q, m.from, m.call)
    BY <1>1, <1>3 DEF Letter, Sender
  <1> QED
    BY <1>2, <1>5, <1>6, <1>7, <1>8 DEF r, m

-----------------------------------------------------------------------------
(* What the clients and the messages under way say of call n, and how that *)
(* fits together.                                                          *)

Numbers == 0..MaxCalls
Asks(x, n) == Letter(inbox[x], "invite", n)
Answers(x, n) == Letter(inbox[x], "accept", n)
Stopping(x, n) == Letter(inbox[x], "reject", n) \/ Letter(inbox[x], "end", n)
Rings(x, n) == \E u \in Peers : Rung(cl[x], n, u)
Busy(x, n) == In(cl[x]) /\ cl[x].call = n
Inviting(x, n) == cl[x].phase = "inviting" /\ cl[x].call = n
Talking(x, n) == cl[x].phase = "connected" /\ cl[x].call = n
Pending(x, n) == Asks(x, n) \/ Rings(x, n) \/ (cl[x].phase = "incoming" /\ cl[x].call = n)
Answered(x, n) == Answers(x, n) \/ Does(cl[x], "join")
Trace(x, u, n) == (Busy(x, n) /\ cl[x].peer = u) \/ Rung(cl[x], n, u) \/ Sender(inbox[x], u, n)
Knows(x, n) == \E u \in Peers : Trace(x, u, n)

(* All that is left of a call is between two users.                        *)
Paired ==
  \A x, y \in Clients, n \in Numbers, u, w \in Peers : Trace(x, u, n) /\ Trace(y, w, n) =>
    /\ u # user[x] /\ n <= made
    /\ (user[x] = user[y] /\ u = w) \/ (user[x] = w /\ u = user[y])
(* A call that has not been offered yet is known to its caller only.       *)
Unoffered ==
  \A a \in Clients : Does(cl[a], "start") => \A x \in Clients :
    /\ x # a => cl[x].call # cl[a].call
    /\ ~Rings(x, cl[a].call) /\ \A u \in Peers : ~Sender(inbox[x], u, cl[a].call)
InvitedOnce ==
  \A x \in Clients : ~Rings(x, cl[x].call) /\ \A n \in Numbers : Asks(x, n) => cl[x].call # n /\ ~Rings(x, n)
(* Whoever tells the other side that a call is over has nothing of it.     *)
Gone ==
  \A x, y \in Clients, n \in Numbers : x # y /\ Stopping(x, n) => ~Busy(y, n) /\ ~Rings(y, n) /\ ~Asks(y, n)
Asked ==
  \A x \in Clients, n \in Numbers : Pending(x, n) =>
    Stopping(x, n) \/ \E d \in Clients : d # x /\ Inviting(d, n)
Heard ==
  \A x \in Clients, n \in Numbers : Inviting(x, n) /\ Answered(x, n) =>
    Stopping(x, n) \/ \E d \in Clients : d # x /\ Talking(d, n)
Mutual ==
  \A x \in Clients, n \in Numbers : Talking(x, n) =>
    Stopping(x, n) \/ \E d \in Clients : d # x /\ (Talking(d, n) \/ (Inviting(d, n) /\ Answered(d, n)))
Orderly == \A x \in Clients : Tied(cl[x]) /\ InvitesDiffer(inbox[x]) /\ cl[x].call <= made

AgreeInv == Orderly /\ Paired /\ Unoffered /\ InvitedOnce /\ Gone /\ Asked /\ Heard /\ Mutual

LEMMA FromSomebody ==
  ASSUME NEW q \in Seq(Messages), NEW type \in {"invite", "accept", "reject", "end"}, NEW n \in Numbers, Letter(q, type, n)
  PROVE  \E u \in Peers : Sender(q, u, n)
  <1>1. PICK k \in DOMAIN q : q[k].call = n
    BY DEF Letter
  <1>2. q[k] \in Messages
    OBVIOUS
  <1>3. q[k].from \in Peers
    BY <1>2 DEF Messages
  <1> QED
    BY <1>1, <1>3 DEF Sender

LEMMA Known ==
  ASSUME CallsInv, NEW x \in Clients, NEW n \in Numbers,
         Asks(x, n) \/ Answers(x, n) \/ Stopping(x, n) \/ Rings(x, n) \/ Busy(x, n)
  PROVE  Knows(x, n)
  <1>1. inbox[x] \in Seq(Messages) /\ cl[x] \in States /\ Wired(cl[x])
    BY Sounds DEF CallsInv, ClientsInv, Relayed
  <1>2. CASE Asks(x, n) \/ Answers(x, n) \/ Stopping(x, n)
    BY <1>1, <1>2, FromSomebody DEF Asks, Answers, Stopping, Knows, Trace
  <1>3. CASE Rings(x, n)
    BY <1>3 DEF Rings, Knows, Trace
  <1>4. CASE Busy(x, n)
    <2>1. cl[x].peer \in Peers
      BY <1>1, <1>4, StateFields DEF Wired, Busy, In
    <2> QED
      BY <1>4, <2>1 DEF Knows, Trace
  <1> QED
    BY <1>2, <1>3, <1>4

LEMMA Other ==
  ASSUME CallsInv, Paired, OneEach, NEW x \in Clients, NEW y \in Clients, x # y, NEW n \in Numbers,
         NEW u \in Peers, Trace(x, u, n), Knows(y, n)
  PROVE  user[y] = u /\ u # user[x]
  BY DEF Knows, Paired, OneEach

LEMMA OnlyTwo ==
  ASSUME CallsInv, Paired, OneEach, NEW x \in Clients, NEW y \in Clients, NEW z \in Clients, NEW n \in Numbers,
         Knows(x, n), Knows(y, n), Knows(z, n)
  PROVE  x = y \/ y = z \/ x = z
  BY Other DEF Knows, OneEach

LEMMA PostView ==
  ASSUME CallsInv, NEW c \in Clients, NEW u \in Peers, NEW n \in Numbers, NEW type \in {"invite", "accept", "reject", "end"},
         Post(u, type, c, n), user' = user
  PROVE  \A x \in Clients :
           /\ \A k \in Numbers :
                /\ (Asks(x, k) => Asks(x, k)') /\ (Answers(x, k) => Answers(x, k)') /\ (Stopping(x, k) => Stopping(x, k)')
                /\ Asks(x, k)' /\ ~Asks(x, k) => type = "invite" /\ user[x] = u /\ k = n
                /\ Answers(x, k)' /\ ~Answers(x, k) => type = "accept" /\ user[x] = u /\ k = n
                /\ Stopping(x, k)' /\ ~Stopping(x, k) => type \in {"reject", "end"} /\ user[x] = u /\ k = n
           /\ \A w \in Peers, k \in Numbers :
                Sender(inbox'[x], w, k) /\ ~Sender(inbox[x], w, k) => user[x] = u /\ w = user[c] /\ k = n
           /\ InvitesDiffer(inbox[x]) /\ (type = "invite" => ~Asks(x, n)) => InvitesDiffer(inbox'[x])
           /\ user[x] = u =>
                /\ type = "invite" => Asks(x, n)'
                /\ type = "accept" => Answers(x, n)'
                /\ type \in {"reject", "end"} => Stopping(x, n)'
  <1> DEFINE m == [type |-> type, from |-> user[c], call |-> n]
  <1>1. m \in Messages /\ m.type = type /\ m.from = user[c] /\ m.call = n
    BY DEF Messages, CallsInv, Relayed, Numbers
  <1>2. ASSUME NEW x \in Clients
        PROVE  inbox[x] \in Seq(Messages) /\ inbox'[x] = IF user[x] = u THEN Append(inbox[x], m) ELSE inbox[x]
    BY DEF Post, CallsInv, ClientsInv, Relayed
  <1> HIDE DEF m
  <1> SUFFICES ASSUME NEW x \in Clients
      PROVE  /\ \A k \in Numbers :
                /\ (Asks(x, k) => Asks(x, k)') /\ (Answers(x, k) => Answers(x, k)') /\ (Stopping(x, k) => Stopping(x, k)')
                /\ Asks(x, k)' /\ ~Asks(x, k) => type = "invite" /\ user[x] = u /\ k = n
                /\ Answers(x, k)' /\ ~Answers(x, k) => type = "accept" /\ user[x] = u /\ k = n
                /\ Stopping(x, k)' /\ ~Stopping(x, k) => type \in {"reject", "end"} /\ user[x] = u /\ k = n
             /\ \A w \in Peers, k \in Numbers :
                Sender(inbox'[x], w, k) /\ ~Sender(inbox[x], w, k) => user[x] = u /\ w = user[c] /\ k = n
             /\ InvitesDiffer(inbox[x]) /\ (type = "invite" => ~Asks(x, n)) => InvitesDiffer(inbox'[x])
             /\ user[x] = u =>
                /\ type = "invite" => Asks(x, n)'
                /\ type = "accept" => Answers(x, n)'
                /\ type \in {"reject", "end"} => Stopping(x, n)'
    OBVIOUS
  <1>3. CASE user[x] # u
    BY <1>2, <1>3 DEF Asks, Answers, Stopping
  <1>4. CASE user[x] = u
    <2>1. inbox[x] \in Seq(Messages) /\ inbox'[x] = Append(inbox[x], m)
      BY <1>2, <1>4
    <2>2. /\ \A ty \in {"invite", "accept", "reject", "end"}, k \in 0..MaxCalls :
               /\ Letter(inbox[x], ty, k) => Letter(inbox'[x], ty, k)
               /\ m.type = ty /\ m.call = k => Letter(inbox'[x], ty, k)
               /\ Letter(inbox'[x], ty, k) /\ ~Letter(inbox[x], ty, k) => m.type = ty /\ m.call = k
          /\ \A w \in Peers, k \in 0..MaxCalls :
               Sender(inbox'[x], w, k) /\ ~Sender(inbox[x], w, k) => m.from = w /\ m.call = k
          /\ InvitesDiffer(inbox[x]) /\ (m.type = "invite" => ~Letter(inbox[x], "invite", m.call)) => InvitesDiffer(inbox'[x])
      BY <1>1, <2>1, LetterAppended
    <2> QED
      BY <1>1, <1>4, <2>2 DEF Asks, Answers, Stopping, Numbers
  <1> QED
    BY <1>3, <1>4

LEMMA TakenView ==
  ASSUME CallsInv, NEW c \in Clients, inbox[c] # <<>>, Next1(c)
  PROVE  LET m == Head(inbox[c])
         IN /\ m.call \in Numbers /\ m.from \in Peers /\ Sender(inbox[c], m.from, m.call) /\ Letter(inbox[c], m.type, m.call)
            /\ \A x \in Clients :
                 /\ x # c => inbox'[x] = inbox[x]
                 /\ \A k \in Numbers :
                      /\ (Asks(x, k)' => Asks(x, k)) /\ (Answers(x, k)' => Answers(x, k)) /\ (Stopping(x, k)' => Stopping(x, k))
                      /\ Asks(x, k) /\ ~Asks(x, k)' => x = c /\ m.type = "invite" /\ k = m.call
                      /\ Answers(x, k) /\ ~Answers(x, k)' => x = c /\ m.type = "accept" /\ k = m.call
                      /\ Stopping(x, k) /\ ~Stopping(x, k)' => x = c /\ m.type \in {"reject", "end"} /\ k = m.call
                 /\ \A w \in Peers, k \in Numbers : Sender(inbox'[x], w, k) => Sender(inbox[x], w, k)
                 /\ InvitesDiffer(inbox[x]) => InvitesDiffer(inbox'[x])
            /\ InvitesDiffer(inbox[c]) /\ m.type = "invite" => ~Letter(inbox'[c], "invite", m.call)
  <1> DEFINE m == Head(inbox[c])
  <1>1. inbox[c] \in Seq(Messages) /\ inbox'[c] = Tail(inbox[c]) /\ \A x \in Clients : x # c => inbox'[x] = inbox[x]
    BY DEF Next1, CallsInv, ClientsInv, Relayed
  <1>2. /\ m \in Messages /\ Letter(inbox[c], m.type, m.call) /\ Sender(inbox[c], m.from, m.call)
        /\ \A ty \in {"invite", "accept", "reject", "end"}, k \in 0..MaxCalls :
             /\ Letter(inbox'[c], ty, k) => Letter(inbox[c], ty, k)
             /\ Letter(inbox[c], ty, k) /\ ~Letter(inbox'[c], ty, k) => m.type = ty /\ m.call = k
        /\ \A w \in Peers, k \in 0..MaxCalls : Sender(inbox'[c], w, k) => Sender(inbox[c], w, k)
        /\ InvitesDiffer(inbox[c]) => InvitesDiffer(inbox'[c]) /\ (m.type = "invite" => ~Letter(inbox'[c], "invite", m.call))
    BY <1>1, LetterTaken
  <1>3. m.call \in Numbers /\ m.from \in Peers
    BY <1>2 DEF Messages, Numbers
  <1> HIDE DEF m
  <1>4. \A x \in Clients : \A k \in Numbers :
           /\ (Asks(x, k)' => Asks(x, k)) /\ (Answers(x, k)' => Answers(x, k)) /\ (Stopping(x, k)' => Stopping(x, k))
           /\ Asks(x, k) /\ ~Asks(x, k)' => x = c /\ m.type = "invite" /\ k = m.call
           /\ Answers(x, k) /\ ~Answers(x, k)' => x = c /\ m.type = "accept" /\ k = m.call
           /\ Stopping(x, k) /\ ~Stopping(x, k)' => x = c /\ m.type \in {"reject", "end"} /\ k = m.call
    BY <1>1, <1>2 DEF Asks, Answers, Stopping, Numbers
  <1>5. \A x \in Clients :
          /\ \A w \in Peers, k \in Numbers : Sender(inbox'[x], w, k) => Sender(inbox[x], w, k)
          /\ InvitesDiffer(inbox[x]) => InvitesDiffer(inbox'[x])
    BY <1>1, <1>2 DEF Numbers
  <1>6. InvitesDiffer(inbox[c]) /\ m.type = "invite" => ~Letter(inbox'[c], "invite", m.call)
    BY <1>2
  <1> QED
    BY <1>1, <1>2, <1>3, <1>4, <1>5, <1>6 DEF m

-----------------------------------------------------------------------------
(* Every step keeps the agreement, undisturbed.                            *)

(* A client that a step leaves alone, or changes calmly, is seen as before. *)
SeenAs(x) ==
  /\ cl'[x].call = cl[x].call /\ (Tied(cl[x]) => Tied(cl'[x]))
  /\ (cl'[x].phase = "inviting" <=> cl[x].phase = "inviting") /\ (cl'[x].phase = "incoming" <=> cl[x].phase = "incoming")
  /\ (cl'[x].phase = "connected" <=> cl[x].phase = "connected") /\ (In(cl'[x]) <=> In(cl[x]))
  /\ In(cl[x]) => cl'[x].peer = cl[x].peer
  /\ (Does(cl'[x], "start") <=> Does(cl[x], "start")) /\ (Does(cl'[x], "join") <=> Does(cl[x], "join"))
  /\ \A n \in Numbers, u \in Peers : Rung(cl'[x], n, u) <=> Rung(cl[x], n, u)

LEMMA CalmSeen ==
  ASSUME NEW c \in Clients, Moves(c, cl'[c]), NEW x \in Clients, x # c \/ Calm(cl'[c], cl[c])
  PROVE  SeenAs(x)
  BY DEF Moves, Calm, Alike, In, SeenAs, Numbers

LEMMA Numbered ==
  ASSUME CallsInv, NEW x \in Clients
  PROVE  cl[x].call \in Numbers
  BY Sounds, StateFields DEF CallsInv, Numbers

LEMMA CalmKept ==
  ASSUME Quiet, AgreeInv, NEW c \in Clients, Moves(c, cl'[c]), Calm(cl'[c], cl[c]), Mailless
  PROVE  AgreeInv'
  <1>0. \A x \in Clients : cl[x].call \in Numbers
    BY Numbered DEF Quiet
  <1>1. \A x \in Clients : SeenAs(x)
    BY CalmSeen
  <1>2. inbox' = inbox /\ made' = made /\ user' = user
    BY DEF Mailless, Quiet
  <1>3. \A x \in Clients, n \in Numbers :
          /\ (Asks(x, n)' <=> Asks(x, n)) /\ (Answers(x, n)' <=> Answers(x, n)) /\ (Stopping(x, n)' <=> Stopping(x, n))
          /\ (Rings(x, n)' <=> Rings(x, n)) /\ (Busy(x, n)' <=> Busy(x, n)) /\ (Inviting(x, n)' <=> Inviting(x, n))
          /\ (Talking(x, n)' <=> Talking(x, n)) /\ (Pending(x, n)' <=> Pending(x, n))
          /\ (Answered(x, n)' <=> Answered(x, n))
          /\ \A u \in Peers : Trace(x, u, n)' <=> Trace(x, u, n)
    BY <1>1, <1>2 DEF SeenAs, Asks, Answers, Stopping, Rings, Busy, Inviting, Talking, Pending, Answered, Trace
  <1>4. Orderly'
    BY <1>1, <1>2 DEF AgreeInv, Orderly, SeenAs
  <1>5. Paired'
    BY <1>2, <1>3 DEF AgreeInv, Paired
  <1>6. Unoffered'
    BY <1>0, <1>1, <1>2, <1>3 DEF AgreeInv, Unoffered, SeenAs
  <1>7. InvitedOnce'
    BY <1>0, <1>1, <1>3 DEF AgreeInv, InvitedOnce, SeenAs
  <1>8. Gone'
    BY <1>3 DEF AgreeInv, Gone
  <1>9. Asked' /\ Heard' /\ Mutual'
    BY <1>3 DEF AgreeInv, Asked, Heard, Mutual
  <1> QED
    BY <1>4, <1>5, <1>6, <1>7, <1>8, <1>9 DEF AgreeInv

LEMMA PairedKept ==
  ASSUME Quiet, Paired, made' = made,
         \A x \in Clients, n \in Numbers, u \in Peers : Trace(x, u, n)' =>
           Trace(x, u, n) \/ \E y \in Clients : u = user[y] /\ Trace(y, user[x], n)
  PROVE  Paired'
  <1>1. user' = user /\ user \in [Clients -> Peers]
    BY DEF Quiet, CallsInv, Relayed
  <1>2. ASSUME NEW x \in Clients, NEW n \in Numbers, NEW u \in Peers, Trace(x, u, n)'
        PROVE  \E y \in Clients, w \in Peers :
                 Trace(y, w, n) /\ ((x = y /\ u = w) \/ (u = user[y] /\ w = user[x]))
    BY <1>1, <1>2
  <1>3. ASSUME NEW x \in Clients, NEW y \in Clients, NEW n \in Numbers, NEW u \in Peers, NEW w \in Peers,
               Trace(x, u, n)', Trace(y, w, n)'
        PROVE  /\ u # user[x] /\ n <= made
               /\ (user[x] = user[y] /\ u = w) \/ (user[x] = w /\ u = user[y])
    <2>1. PICK a \in Clients, v \in Peers : Trace(a, v, n) /\ ((x = a /\ u = v) \/ (u = user[a] /\ v = user[x]))
      BY <1>2, <1>3
    <2>2. PICK b \in Clients, z \in Peers : Trace(b, z, n) /\ ((y = b /\ w = z) \/ (w = user[b] /\ z = user[y]))
      BY <1>2, <1>3
    <2>3. /\ v # user[a] /\ n <= made
          /\ (user[a] = user[b] /\ v = z) \/ (user[a] = z /\ v = user[b])
      BY <2>1, <2>2 DEF Paired
    <2> QED
      BY <2>1, <2>2, <2>3
  <1> QED
    BY <1>1, <1>3 DEF Paired

LEMMA StartKept ==
  ASSUME Quiet, AgreeInv, NEW c \in Clients, NEW v \in Peers, StartCall(c, v)
  PROVE  AgreeInv'
  <1>0. PICK n0 \in Numbers : n0 = made + 1
    <2>1. made + 1 \in Numbers
      BY CallsAssumption DEF StartCall, Quiet, CallsInv, Relayed, Numbers
    <2> QED
      BY <2>1
  <1>1. /\ Moves(c, cl'[c]) /\ ~In(cl[c]) /\ NoneWaits(cl[c])
        /\ cl'[c].phase = "inviting" /\ cl'[c].peer = v /\ cl'[c].call = n0 /\ v # user[c] /\ made' = n0
        /\ \A k \in Numbers, w \in Peers : ~Rung(cl'[c], k, w)
        /\ Does(cl'[c], "start") /\ ~Does(cl'[c], "join") /\ Tied(cl'[c]) /\ inbox' = inbox
    BY <1>0, StartView DEF Numbers
  <1>2. \A x \in Clients : x # c => SeenAs(x)
    BY <1>1, CalmSeen
  <1>3. user' = user /\ made \in Nat /\ \A x \in Clients : cl[x].call \in Numbers /\ cl[x].call <= made
    BY <1>1, Numbered, CallsAssumption DEF Quiet, CallsInv, Relayed, StartCall, Numbers, AgreeInv, Orderly
  <1>4. /\ \A k \in Numbers, w \in Peers : ~Rung(cl[c], k, w)
        /\ ~Does(cl[c], "start") /\ ~Does(cl[c], "join")
    BY <1>1, NoTask DEF Numbers
  <1>5. \A x \in Clients, n \in Numbers, u \in Peers : Trace(x, u, n) => n # n0
    BY <1>0, <1>3 DEF AgreeInv, Paired
  <1>6. \A x \in Clients : /\ ~Asks(x, n0) /\ ~Answers(x, n0) /\ ~Stopping(x, n0) /\ ~Rings(x, n0)
                           /\ \A u \in Peers : ~Sender(inbox[x], u, n0)
    <2>1. \A x \in Clients : ~Knows(x, n0)
      BY <1>3, <1>5 DEF Knows
    <2> QED
      BY <1>3, <2>1, Known DEF Quiet, Knows, Trace
  <1>7. \A x \in Clients, n \in Numbers :
          /\ (Asks(x, n)' <=> Asks(x, n)) /\ (Answers(x, n)' <=> Answers(x, n)) /\ (Stopping(x, n)' <=> Stopping(x, n))
          /\ (Rings(x, n)' <=> Rings(x, n)) /\ (Talking(x, n)' <=> Talking(x, n)) /\ (Pending(x, n)' <=> Pending(x, n))
          /\ Busy(x, n)' <=> Busy(x, n) \/ (x = c /\ n = n0)
          /\ Inviting(x, n)' <=> Inviting(x, n) \/ (x = c /\ n = n0)
          /\ x # c => (Answered(x, n)' <=> Answered(x, n))
          /\ ~Answered(c, n0)'
          /\ \A u \in Peers : Trace(x, u, n)' <=> Trace(x, u, n) \/ (x = c /\ u = v /\ n = n0)
    <2> SUFFICES ASSUME NEW x \in Clients, NEW n \in Numbers
        PROVE  /\ (Asks(x, n)' <=> Asks(x, n)) /\ (Answers(x, n)' <=> Answers(x, n)) /\ (Stopping(x, n)' <=> Stopping(x, n))
               /\ (Rings(x, n)' <=> Rings(x, n)) /\ (Talking(x, n)' <=> Talking(x, n)) /\ (Pending(x, n)' <=> Pending(x, n))
               /\ Busy(x, n)' <=> Busy(x, n) \/ (x = c /\ n = n0)
               /\ Inviting(x, n)' <=> Inviting(x, n) \/ (x = c /\ n = n0)
               /\ x # c => (Answered(x, n)' <=> Answered(x, n))
               /\ ~Answered(c, n0)'
               /\ \A u \in Peers : Trace(x, u, n)' <=> Trace(x, u, n) \/ (x = c /\ u = v /\ n = n0)
      OBVIOUS
    <2>1. (Asks(x, n)' <=> Asks(x, n)) /\ (Answers(x, n)' <=> Answers(x, n)) /\ (Stopping(x, n)' <=> Stopping(x, n))
      BY <1>1 DEF Asks, Answers, Stopping
    <2>2. Rings(x, n)' <=> Rings(x, n)
      BY <1>1, <1>2, <1>4 DEF Rings, SeenAs
    <2>3. /\ Busy(x, n)' <=> Busy(x, n) \/ (x = c /\ n = n0)
          /\ Inviting(x, n)' <=> Inviting(x, n) \/ (x = c /\ n = n0)
          /\ (Talking(x, n)' <=> Talking(x, n)) /\ (Pending(x, n)' <=> Pending(x, n))
      BY <1>1, <1>2, <2>1, <2>2 DEF SeenAs, Busy, Inviting, Talking, Pending, In
    <2>4. (x # c => (Answered(x, n)' <=> Answered(x, n))) /\ ~Answered(c, n0)'
      <3>1. ~Answers(c, n0)'
        BY <1>1, <1>6 DEF Answers
      <3> QED
        BY <1>1, <1>2, <2>1, <3>1 DEF SeenAs, Answered
    <2>5. ASSUME NEW u \in Peers PROVE Trace(x, u, n)' <=> Trace(x, u, n) \/ (x = c /\ u = v /\ n = n0)
      BY <1>1, <1>2, <1>4, <2>3 DEF SeenAs, Trace, Busy
    <2> QED
      BY <2>1, <2>2, <2>3, <2>4, <2>5
  <1>8. Orderly'
    <2>1. \A n \in Numbers : n <= made => n <= made'
      BY <1>0, <1>1, <1>3 DEF Numbers
    <2>2. n0 <= made'
      BY <1>0, <1>1, <1>3
    <2> QED
      BY <1>1, <1>2, <1>3, <2>1, <2>2 DEF AgreeInv, Orderly, SeenAs
  <1>9. Paired'
    <2>1. \A x \in Clients, n \in Numbers, u \in Peers : Trace(x, u, n)' =>
            (Trace(x, u, n) /\ n # n0) \/ (x = c /\ u = v /\ n = n0)
      BY <1>5, <1>7
    <2>2. \A n \in Numbers : n <= made => n <= made'
      BY <1>0, <1>1, <1>3 DEF Numbers
    <2>3. n0 <= made'
      BY <1>0, <1>1, <1>3
    <2> QED
      BY <1>1, <1>3, <2>1, <2>2, <2>3 DEF AgreeInv, Paired
  <1>10. Unoffered'
    <2>1. \A x \in Clients : cl[x].call # n0
      BY <1>0, <1>3
    <2> QED
      BY <1>1, <1>2, <1>3, <1>6, <1>7, <2>1 DEF AgreeInv, Unoffered, SeenAs
  <1>11. InvitedOnce'
    BY <1>1, <1>2, <1>3, <1>6, <1>7 DEF AgreeInv, InvitedOnce, SeenAs
  <1>12. Gone'
    BY <1>6, <1>7 DEF AgreeInv, Gone
  <1>13. Asked' /\ Heard' /\ Mutual'
    <2>1. \A n \in Numbers : ~Inviting(c, n) /\ ~Talking(c, n)
      BY <1>1 DEF Inviting, Talking, In
    <2>2. Asked'
      BY <1>7 DEF AgreeInv, Asked
    <2>3. Heard'
      <3>1. \A x \in Clients, n \in Numbers : Inviting(x, n)' /\ Answered(x, n)' => Inviting(x, n) /\ Answered(x, n)
        BY <1>7, <2>1
      <3> QED
        BY <1>7, <3>1 DEF AgreeInv, Heard
    <2>4. Mutual'
      BY <1>7, <2>1 DEF AgreeInv, Mutual
    <2> QED
      BY <2>2, <2>3, <2>4
  <1> QED
    BY <1>8, <1>9, <1>10, <1>11, <1>12, <1>13 DEF AgreeInv

LEMMA RingKept ==
  ASSUME Quiet, AgreeInv, NEW c \in Clients, NEW i \in Slots, Ring(c, i)
  PROVE  AgreeInv'
  <1> DEFINE n0 == cl'[c].call
             v == cl'[c].peer
  <1>1. /\ Moves(c, cl'[c]) /\ NoneWaits(cl'[c]) /\ cl[c].phase = "idle" /\ cl'[c].phase = "incoming"
        /\ Rung(cl[c], n0, v) /\ v \in Peers /\ inbox' = inbox /\ made' = made /\ user' = user
    BY RingView DEF Mailless, Quiet
  <1>2. \A x \in Clients : x # c => SeenAs(x)
    BY <1>1, CalmSeen
  <1>3. n0 \in Numbers /\ \A x \in Clients : cl[x].call \in Numbers
    BY <1>1, Numbered, StateFields DEF Quiet, Moves, Numbers
  <1>4. /\ \A k \in Numbers, w \in Peers : ~Rung(cl'[c], k, w)
        /\ ~Does(cl'[c], "start") /\ ~Does(cl'[c], "join") /\ Tied(cl'[c])
    BY <1>1, NoTask DEF Numbers
  <1>5. ~Does(cl[c], "start") /\ ~Does(cl[c], "join")
    BY <1>1, QuietFacts, TaskPhase
  <1>6. cl'[c].call = n0 /\ cl'[c].peer = v
    OBVIOUS
  <1> HIDE DEF n0, v
  <1>7. \A x \in Clients, n \in Numbers :
          /\ (Asks(x, n)' <=> Asks(x, n)) /\ (Answers(x, n)' <=> Answers(x, n)) /\ (Stopping(x, n)' <=> Stopping(x, n))
          /\ (Talking(x, n)' <=> Talking(x, n)) /\ (Inviting(x, n)' <=> Inviting(x, n))
          /\ Pending(x, n)' => Pending(x, n)
          /\ Rings(x, n)' => Rings(x, n)
          /\ ~Rings(c, n)'
          /\ Busy(x, n)' => Busy(x, n) \/ (x = c /\ n = n0)
          /\ Answered(x, n)' <=> Answered(x, n)
          /\ \A u \in Peers : Trace(x, u, n)' => Trace(x, u, n)
    BY <1>1, <1>2, <1>4, <1>5, <1>6 DEF SeenAs, Asks, Answers, Stopping, Rings, Busy, Inviting, Talking, Pending, Answered, Trace, In
  <1>8. Rings(c, n0) /\ Trace(c, v, n0)
    BY <1>1 DEF Rings, Trace
  <1>9. n0 <= made
    BY <1>1, <1>3, <1>8 DEF AgreeInv, Paired
  <1>10. Orderly'
    BY <1>1, <1>2, <1>4, <1>6, <1>9 DEF AgreeInv, Orderly, SeenAs
  <1>11. Paired'
    BY <1>1, <1>7, PairedKept DEF AgreeInv
  <1>12. Unoffered'
    <2>1. \A a \in Clients : Does(cl[a], "start") => n0 # cl[a].call
      BY <1>8 DEF AgreeInv, Unoffered
    <2> QED
      BY <1>1, <1>2, <1>3, <1>4, <1>6, <1>7, <2>1 DEF AgreeInv, Unoffered, SeenAs
  <1>13. InvitedOnce'
    BY <1>2, <1>3, <1>6, <1>7, <1>8 DEF AgreeInv, InvitedOnce, SeenAs
  <1>14. Gone'
    BY <1>7, <1>8 DEF AgreeInv, Gone
  <1>15. Asked' /\ Heard' /\ Mutual'
    BY <1>7 DEF AgreeInv, Asked, Heard, Mutual
  <1> QED
    BY <1>10, <1>11, <1>12, <1>13, <1>14, <1>15 DEF AgreeInv

LEMMA JoinKept ==
  ASSUME Quiet, AgreeInv, NEW c \in Clients, NEW i \in Slots, Joined(c, i)
  PROVE  AgreeInv'
  <1>0. PICK n0 \in Numbers : n0 = cl[c].call
    BY Numbered DEF Quiet
  <1>1. /\ Moves(c, cl'[c]) /\ NoneWaits(cl'[c]) /\ Does(cl[c], "join") /\ ~Does(cl[c], "start")
        /\ cl[c].phase = "inviting" /\ cl'[c].phase = "connected"
        /\ cl'[c].peer = cl[c].peer /\ cl'[c].call = n0 /\ inbox' = inbox /\ made' = made /\ user' = user
    BY <1>0, JoinView, TaskPhase, QuietFacts DEF Mailless, Quiet
  <1>2. \A x \in Clients : x # c => SeenAs(x)
    BY <1>1, CalmSeen
  <1>3. \A x \in Clients : cl[x].call \in Numbers
    BY Numbered DEF Quiet
  <1>4. /\ \A k \in Numbers, w \in Peers : ~Rung(cl'[c], k, w) /\ ~Rung(cl[c], k, w)
        /\ ~Does(cl'[c], "start") /\ ~Does(cl'[c], "join") /\ Tied(cl'[c])
    BY <1>1, NoTask, TaskPhase, QuietFacts DEF Numbers
  <1>5. Inviting(c, n0) /\ Answered(c, n0) /\ Busy(c, n0)
    BY <1>0, <1>1 DEF Inviting, Answered, Busy, In
  <1>6. \A x \in Clients, n \in Numbers :
          /\ (Asks(x, n)' <=> Asks(x, n)) /\ (Answers(x, n)' <=> Answers(x, n)) /\ (Stopping(x, n)' <=> Stopping(x, n))
          /\ (Rings(x, n)' <=> Rings(x, n)) /\ (Pending(x, n)' <=> Pending(x, n)) /\ (Busy(x, n)' <=> Busy(x, n))
    BY <1>0, <1>1, <1>2, <1>4 DEF SeenAs, Asks, Answers, Stopping, Rings, Busy, Pending, In
  <1>7. \A x \in Clients, n \in Numbers :
          /\ Talking(x, n)' <=> Talking(x, n) \/ (x = c /\ n = n0)
          /\ Inviting(x, n)' <=> Inviting(x, n) /\ x # c
          /\ x # c => (Answered(x, n)' <=> Answered(x, n))
    BY <1>0, <1>1, <1>2, <1>6 DEF SeenAs, Inviting, Talking, Answered
  <1>8. \A x \in Clients, n \in Numbers, u \in Peers : Trace(x, u, n)' => Trace(x, u, n)
    BY <1>1, <1>2, <1>4, <1>6 DEF SeenAs, Trace, Busy
  <1>9. \A n \in Numbers : Inviting(c, n) => n = n0
    BY <1>0 DEF Inviting
  <1>10. Orderly'
    BY <1>0, <1>1, <1>2, <1>4 DEF AgreeInv, Orderly, SeenAs
  <1>11. Paired'
    BY <1>1, <1>8, PairedKept DEF AgreeInv
  <1>12. Unoffered'
    BY <1>0, <1>1, <1>2, <1>3, <1>4, <1>6 DEF AgreeInv, Unoffered, SeenAs
  <1>13. InvitedOnce'
    BY <1>0, <1>1, <1>2, <1>3, <1>6 DEF AgreeInv, InvitedOnce, SeenAs
  <1>14. Gone'
    BY <1>6 DEF AgreeInv, Gone
  <1>15. Asked'
    <2>1. ASSUME NEW x \in Clients, x # c, Pending(x, n0) PROVE FALSE
      <3>1. CASE Stopping(c, n0)
        BY <2>1, <3>1 DEF AgreeInv, Gone, Pending, Busy, In
      <3>2. CASE \E d \in Clients : d # c /\ Talking(d, n0)
        <4>1. PICK d \in Clients : d # c /\ Talking(d, n0)
          BY <3>2
        <4>2. Busy(d, n0)
          BY <4>1 DEF Talking, Busy, In
        <4>3. Knows(x, n0) /\ Knows(d, n0) /\ Knows(c, n0)
          BY <1>5, <2>1, <4>2, Known DEF Quiet, Pending, Busy, In
        <4>4. x = d
          BY <2>1, <4>1, <4>3, OnlyTwo DEF Quiet, Undisturbed, AgreeInv
        <4> QED
          BY <2>1, <4>1, <4>4 DEF AgreeInv, InvitedOnce, Pending, Talking
      <3> QED
        BY <1>5, <3>1, <3>2 DEF AgreeInv, Heard
    <2>2. ASSUME NEW x \in Clients, NEW n \in Numbers, Pending(x, n)'
          PROVE  Stopping(x, n)' \/ \E d \in Clients : d # x /\ Inviting(d, n)'
      <3>1. Stopping(x, n) \/ \E d \in Clients : d # x /\ Inviting(d, n)
        BY <1>6, <2>2 DEF AgreeInv, Asked
      <3>2. ASSUME NEW d \in Clients, d # x, Inviting(d, n) PROVE Inviting(d, n)'
        BY <1>6, <1>7, <1>9, <2>1, <2>2, <3>2
      <3> QED
        BY <1>6, <3>1, <3>2
    <2> QED
      BY <2>2 DEF Asked
  <1>16. Heard'
    BY <1>6, <1>7 DEF AgreeInv, Heard
  <1>17. Mutual'
    <2>1. ASSUME NEW x \in Clients, NEW n \in Numbers, Talking(x, n)'
          PROVE  Stopping(x, n)' \/ \E d \in Clients : d # x /\ (Talking(d, n)' \/ (Inviting(d, n)' /\ Answered(d, n)'))
      <3>1. CASE x = c /\ n = n0
        BY <1>5, <1>6, <1>7, <3>1 DEF AgreeInv, Heard
      <3>2. CASE ~(x = c /\ n = n0)
        <4>1. Stopping(x, n) \/ \E d \in Clients : d # x /\ (Talking(d, n) \/ (Inviting(d, n) /\ Answered(d, n)))
          BY <1>7, <2>1, <3>2 DEF AgreeInv, Mutual
        <4> QED
          BY <1>6, <1>7, <1>9, <4>1
      <3> QED
        BY <3>1, <3>2
    <2> QED
      BY <2>1 DEF Mutual
  <1> QED
    BY <1>10, <1>11, <1>12, <1>13, <1>14, <1>15, <1>16, <1>17 DEF AgreeInv

LEMMA OfferKept ==
  ASSUME Quiet, AgreeInv, NEW c \in Clients, NEW i \in Slots, OfferSet(c, i)
  PROVE  AgreeInv'
  <1>0. PICK n0 \in Numbers, v \in Peers : n0 = cl[c].call /\ v = cl[c].peer
    BY Numbered, OfferView, QuietFacts, StateFields DEF Quiet, Wired
  <1>1. /\ Moves(c, cl'[c]) /\ NoneWaits(cl'[c]) /\ Does(cl[c], "start") /\ ~Does(cl[c], "join")
        /\ cl[c].phase = "inviting" /\ cl'[c].phase = "inviting"
        /\ cl'[c].peer = v /\ cl'[c].call = n0 /\ made' = made /\ user' = user
        /\ Post(v, "invite", c, n0)
    BY <1>0, OfferView, TaskPhase, QuietFacts DEF Quiet, AgreeInv, Orderly
  <1>2. \A x \in Clients : x # c => SeenAs(x)
    BY <1>1, CalmSeen
  <1>3. \A x \in Clients : cl[x].call \in Numbers
    BY Numbered DEF Quiet
  <1>4. /\ \A k \in Numbers, w \in Peers : ~Rung(cl'[c], k, w) /\ ~Rung(cl[c], k, w)
        /\ ~Does(cl'[c], "start") /\ ~Does(cl'[c], "join") /\ Tied(cl'[c])
    BY <1>1, NoTask, TaskPhase, QuietFacts DEF Numbers
  <1>5. \A x \in Clients :
          /\ \A k \in Numbers :
               /\ (Asks(x, k) => Asks(x, k)') /\ (Answers(x, k) <=> Answers(x, k)') /\ (Stopping(x, k) <=> Stopping(x, k)')
               /\ Asks(x, k)' /\ ~Asks(x, k) => user[x] = v /\ k = n0
          /\ \A w \in Peers, k \in Numbers :
               Sender(inbox'[x], w, k) /\ ~Sender(inbox[x], w, k) => user[x] = v /\ w = user[c] /\ k = n0
          /\ InvitesDiffer(inbox[x]) /\ ~Asks(x, n0) => InvitesDiffer(inbox'[x])
    BY <1>1, PostView DEF Quiet
  <1>6. \A x \in Clients : /\ ~Asks(x, n0) /\ ~Answers(x, n0) /\ ~Stopping(x, n0) /\ ~Rings(x, n0)
                           /\ \A u \in Peers : ~Sender(inbox[x], u, n0)
    <2>1. \A x \in Clients : ~Rings(x, n0) /\ \A u \in Peers : ~Sender(inbox[x], u, n0)
      BY <1>0, <1>1 DEF AgreeInv, Unoffered
    <2>2. \A x \in Clients : inbox[x] \in Seq(Messages)
      BY DEF Quiet, CallsInv, Relayed
    <2> QED
      BY <2>1, <2>2, FromSomebody DEF Asks, Answers, Stopping
  <1>7. Inviting(c, n0) /\ Trace(c, v, n0)
    BY <1>0, <1>1 DEF Inviting, Trace, Busy, In
  <1>8. user[c] # v
    BY <1>7 DEF AgreeInv, Paired
  <1>9. \A x \in Clients, n \in Numbers :
          /\ (Rings(x, n)' <=> Rings(x, n)) /\ (Busy(x, n)' <=> Busy(x, n))
          /\ (Talking(x, n)' <=> Talking(x, n)) /\ (Inviting(x, n)' <=> Inviting(x, n))
          /\ Pending(x, n)' => Pending(x, n) \/ (x # c /\ n = n0)
    BY <1>0, <1>1, <1>2, <1>4, <1>5, <1>8 DEF SeenAs, Rings, Busy, Inviting, Talking, Pending, In
  <1>10. \A x \in Clients, n \in Numbers :
           x # c \/ n = n0 => (Answered(x, n)' <=> Answered(x, n))
    BY <1>1, <1>2, <1>4, <1>5 DEF SeenAs, Answered
  <1>11. \A x \in Clients, n \in Numbers, u \in Peers : Trace(x, u, n)' =>
           Trace(x, u, n) \/ (user[x] = v /\ u = user[c] /\ n = n0)
    BY <1>0, <1>1, <1>2, <1>4, <1>5, <1>9 DEF SeenAs, Trace, Busy
  <1>12. \A n \in Numbers : Inviting(c, n) => n = n0
    BY <1>0 DEF Inviting
  <1>13. Orderly'
    BY <1>0, <1>1, <1>2, <1>4, <1>5, <1>6 DEF AgreeInv, Orderly, SeenAs
  <1>14. Paired'
    BY <1>1, <1>7, <1>11, PairedKept DEF AgreeInv
  <1>15. Unoffered'
    <2>1. \A a \in Clients : Does(cl[a], "start") /\ a # c => cl[a].call # n0
      BY <1>0 DEF AgreeInv, Unoffered
    <2> QED
      BY <1>0, <1>1, <1>2, <1>3, <1>4, <1>5, <1>9, <2>1 DEF AgreeInv, Unoffered, SeenAs
  <1>16. InvitedOnce'
    <2>1. \A x \in Clients : x # c => cl[x].call # n0
      BY <1>0, <1>1 DEF AgreeInv, Unoffered
    <2> QED
      BY <1>0, <1>1, <1>2, <1>3, <1>5, <1>6, <1>8, <1>9, <2>1 DEF AgreeInv, InvitedOnce, SeenAs
  <1>17. Gone'
    BY <1>5, <1>6, <1>9 DEF AgreeInv, Gone
  <1>18. Asked'
    BY <1>5, <1>7, <1>9 DEF AgreeInv, Asked
  <1>19. Heard'
    BY <1>5, <1>9, <1>10, <1>12 DEF AgreeInv, Heard
  <1>20. Mutual'
    BY <1>5, <1>9, <1>10, <1>12 DEF AgreeInv, Mutual
  <1> QED
    BY <1>13, <1>14, <1>15, <1>16, <1>17, <1>18, <1>19, <1>20 DEF AgreeInv

LEMMA AnswerKept ==
  ASSUME Quiet, AgreeInv, NEW c \in Clients, NEW i \in Slots, AnswerSet(c, i)
  PROVE  AgreeInv'
  <1>0. PICK n0 \in Numbers, v \in Peers : n0 = cl[c].call /\ v = cl[c].peer
    BY Numbered, AnswerView, QuietFacts, StateFields DEF Quiet, Wired
  <1>1. /\ Moves(c, cl'[c]) /\ NoneWaits(cl'[c])
        /\ cl[c].phase = "incoming" /\ cl'[c].phase = "connected"
        /\ cl'[c].peer = v /\ cl'[c].call = n0 /\ made' = made /\ user' = user
        /\ Post(v, "accept", c, n0)
    BY <1>0, AnswerView DEF Quiet, AgreeInv, Orderly
  <1>2. \A x \in Clients : x # c => SeenAs(x)
    BY <1>1, CalmSeen
  <1>3. \A x \in Clients : cl[x].call \in Numbers
    BY Numbered DEF Quiet
  <1>4. /\ \A k \in Numbers, w \in Peers : ~Rung(cl'[c], k, w) /\ ~Rung(cl[c], k, w)
        /\ ~Does(cl'[c], "start") /\ ~Does(cl'[c], "join") /\ Tied(cl'[c])
    BY <1>1, NoTask, TaskPhase, QuietFacts DEF Numbers
  <1>5. \A x \in Clients :
          /\ \A k \in Numbers :
               /\ (Asks(x, k) <=> Asks(x, k)') /\ (Answers(x, k) => Answers(x, k)') /\ (Stopping(x, k) <=> Stopping(x, k)')
               /\ Answers(x, k)' /\ ~Answers(x, k) => user[x] = v /\ k = n0
          /\ \A w \in Peers, k \in Numbers :
               Sender(inbox'[x], w, k) /\ ~Sender(inbox[x], w, k) => user[x] = v /\ w = user[c] /\ k = n0
          /\ InvitesDiffer(inbox[x]) => InvitesDiffer(inbox'[x])
          /\ user[x] = v => Answers(x, n0)'
    BY <1>1, PostView DEF Quiet
  <1>6. Busy(c, n0) /\ Trace(c, v, n0) /\ Pending(c, n0)
    BY <1>0, <1>1 DEF Trace, Busy, In, Pending
  <1>7. user[c] # v
    BY <1>6 DEF AgreeInv, Paired
  <1>8. \A x \in Clients, n \in Numbers :
          /\ (Rings(x, n)' <=> Rings(x, n)) /\ (Busy(x, n)' <=> Busy(x, n))
          /\ Talking(x, n)' <=> Talking(x, n) \/ (x = c /\ n = n0)
          /\ Inviting(x, n)' <=> Inviting(x, n)
          /\ Pending(x, n)' => Pending(x, n)
          /\ Answered(x, n) /\ x # c => Answered(x, n)'
          /\ Answered(x, n)' /\ x # c => Answered(x, n) \/ n = n0
          /\ ~Inviting(c, n)
    BY <1>0, <1>1, <1>2, <1>4, <1>5 DEF SeenAs, Rings, Busy, Inviting, Talking, Pending, In, Answered
  <1>9. \A x \in Clients, n \in Numbers, u \in Peers : Trace(x, u, n)' =>
           Trace(x, u, n) \/ (user[x] = v /\ u = user[c] /\ n = n0)
    BY <1>0, <1>1, <1>2, <1>4, <1>5, <1>8 DEF SeenAs, Trace, Busy
  <1>10. Orderly'
    BY <1>0, <1>1, <1>2, <1>4, <1>5 DEF AgreeInv, Orderly, SeenAs
  <1>11. Paired'
    BY <1>1, <1>6, <1>9, PairedKept DEF AgreeInv
  <1>12. Unoffered'
    <2>1. \A a \in Clients : Does(cl[a], "start") /\ a # c => cl[a].call # n0
      BY <1>0 DEF AgreeInv, Unoffered
    <2> QED
      BY <1>0, <1>1, <1>2, <1>3, <1>4, <1>5, <1>8, <2>1 DEF AgreeInv, Unoffered, SeenAs
  <1>13. InvitedOnce'
    BY <1>0, <1>1, <1>2, <1>3, <1>5, <1>8 DEF AgreeInv, InvitedOnce, SeenAs
  <1>14. Gone'
    BY <1>5, <1>8 DEF AgreeInv, Gone
  <1>15. Asked'
    BY <1>5, <1>8 DEF AgreeInv, Asked
  <1>16. Heard'
    <2>1. Talking(c, n0)'
      BY <1>8
    <2> QED
      BY <1>5, <1>8, <2>1 DEF AgreeInv, Heard
  <1>17. Mutual'
    <2>1. ASSUME NEW x \in Clients, NEW n \in Numbers, Talking(x, n)'
          PROVE  Stopping(x, n)' \/ \E d \in Clients : d # x /\ (Talking(d, n)' \/ (Inviting(d, n)' /\ Answered(d, n)'))
      <3>1. CASE x = c /\ n = n0
        <4>1. Stopping(c, n0) \/ \E d \in Clients : d # c /\ Inviting(d, n0)
          BY <1>6 DEF AgreeInv, Asked
        <4>2. ASSUME NEW d \in Clients, d # c, Inviting(d, n0) PROVE Inviting(d, n0)' /\ Answered(d, n0)'
          <5>1. Knows(d, n0)
            BY <4>2, Known DEF Quiet, Inviting, Busy, In
          <5>2. user[d] = v
            BY <1>6, <4>2, <5>1, Other DEF Quiet, Undisturbed, AgreeInv
          <5> QED
            BY <1>5, <1>8, <4>2, <5>2 DEF Answered
        <4> QED
          BY <1>5, <3>1, <4>1, <4>2
      <3>2. CASE ~(x = c /\ n = n0)
        <4>1. Stopping(x, n) \/ \E d \in Clients : d # x /\ (Talking(d, n) \/ (Inviting(d, n) /\ Answered(d, n)))
          BY <1>8, <2>1, <3>2 DEF AgreeInv, Mutual
        <4> QED
          BY <1>5, <1>8, <4>1
      <3> QED
        BY <3>1, <3>2
    <2> QED
      BY <2>1 DEF Mutual
  <1> QED
    BY <1>10, <1>11, <1>12, <1>13, <1>14, <1>15, <1>16, <1>17 DEF AgreeInv

LEMMA AcceptedKept ==
  ASSUME Quiet, AgreeInv, NEW c \in Clients, Accepted(c)
  PROVE  AgreeInv'
  <1>0. PICK n0 \in Numbers : n0 = cl[c].call
    BY Numbered DEF Quiet
  <1>1. /\ Moves(c, cl'[c]) /\ cl'[c].call = cl[c].call /\ cl'[c].phase = cl[c].phase /\ cl'[c].peer = cl[c].peer
        /\ made' = made /\ user' = user
        /\ Head1(c, "accept") /\ Next1(c) /\ Head(inbox[c]).call = n0
        /\ (Tied(cl[c]) => Tied(cl'[c]))
        /\ (Does(cl'[c], "start") <=> Does(cl[c], "start")) /\ (Does(cl[c], "join") => Does(cl'[c], "join"))
        /\ \A n \in Numbers, u \in Peers : Rung(cl'[c], n, u) <=> Rung(cl[c], n, u)
        /\ cl[c].phase = "inviting" => Does(cl[c], "start") \/ Does(cl'[c], "join")
        /\ Does(cl'[c], "join") => cl[c].phase = "inviting"
    BY <1>0, AcceptedView DEF Quiet, Numbers
  <1>2. \A x \in Clients : x # c => SeenAs(x)
    BY <1>1, CalmSeen
  <1>3. \A x \in Clients : cl[x].call \in Numbers
    BY Numbered DEF Quiet
  <1>4. \E u \in Peers : Sender(inbox[c], u, n0)
    BY <1>1, TakenView DEF Quiet, Head1
  <1>5. Answers(c, n0)
    BY <1>1, TakenView DEF Quiet, Head1, Answers
  <1>6. \A x \in Clients :
          /\ x # c => inbox'[x] = inbox[x]
          /\ \A k \in Numbers :
               /\ (Asks(x, k) <=> Asks(x, k)') /\ (Answers(x, k)' => Answers(x, k)) /\ (Stopping(x, k) <=> Stopping(x, k)')
               /\ Answers(x, k) /\ ~Answers(x, k)' => x = c /\ k = n0
          /\ \A w \in Peers, k \in Numbers : Sender(inbox'[x], w, k) => Sender(inbox[x], w, k)
          /\ InvitesDiffer(inbox[x]) => InvitesDiffer(inbox'[x])
    BY <1>1, TakenView DEF Quiet, Head1
  <1>7. cl[c].phase = "inviting" => Does(cl'[c], "join")
    BY <1>0, <1>1, <1>4 DEF AgreeInv, Unoffered
  <1>8. \A x \in Clients, n \in Numbers :
          /\ (Rings(x, n)' <=> Rings(x, n)) /\ (Busy(x, n)' <=> Busy(x, n)) /\ (Talking(x, n)' <=> Talking(x, n))
          /\ (Inviting(x, n)' <=> Inviting(x, n)) /\ (Pending(x, n)' <=> Pending(x, n))
    BY <1>1, <1>2, <1>6 DEF SeenAs, Rings, Busy, Inviting, Talking, Pending, In
  <1>9. \A x \in Clients, n \in Numbers : Inviting(x, n) => (Answered(x, n)' <=> Answered(x, n))
    BY <1>0, <1>1, <1>2, <1>5, <1>6, <1>7 DEF SeenAs, Answered, Inviting
  <1>10. \A x \in Clients, n \in Numbers, u \in Peers : Trace(x, u, n)' => Trace(x, u, n)
    BY <1>1, <1>2, <1>6, <1>8 DEF SeenAs, Trace, Busy, In
  <1>11. Orderly'
    BY <1>1, <1>2, <1>6 DEF AgreeInv, Orderly, SeenAs
  <1>12. Paired'
    BY <1>1, <1>10, PairedKept DEF AgreeInv
  <1>13. Unoffered'
    BY <1>1, <1>2, <1>3, <1>6, <1>8 DEF AgreeInv, Unoffered, SeenAs
  <1>14. InvitedOnce'
    BY <1>1, <1>2, <1>3, <1>6, <1>8 DEF AgreeInv, InvitedOnce, SeenAs
  <1>15. Gone'
    BY <1>6, <1>8 DEF AgreeInv, Gone
  <1>16. Asked'
    BY <1>6, <1>8 DEF AgreeInv, Asked
  <1>17. Heard'
    BY <1>6, <1>8, <1>9 DEF AgreeInv, Heard
  <1>18. Mutual'
    BY <1>6, <1>8, <1>9 DEF AgreeInv, Mutual
  <1> QED
    BY <1>11, <1>12, <1>13, <1>14, <1>15, <1>16, <1>17, <1>18 DEF AgreeInv

LEMMA EndKept ==
  ASSUME Quiet, AgreeInv, NEW c \in Clients, RejectCall(c) \/ EndCall(c)
  PROVE  AgreeInv'
  <1>0. PICK n0 \in Numbers, v \in Peers : n0 = cl[c].call /\ v = cl[c].peer
    <2>1. cl[c].peer \in Peers
      BY EndView, QuietFacts, StateFields DEF Wired, In
    <2> QED
      BY <2>1, Numbered DEF Quiet
  <1>1. /\ Moves(c, cl'[c]) /\ NoneWaits(cl'[c]) /\ ~In(cl'[c]) /\ In(cl[c])
        /\ cl'[c].call = n0 /\ made' = made /\ user' = user
        /\ Post(v, "reject", c, n0) \/ Post(v, "end", c, n0)
    BY <1>0, EndView DEF Quiet
  <1>2. \A x \in Clients : x # c => SeenAs(x)
    BY <1>1, CalmSeen
  <1>3. \A x \in Clients : cl[x].call \in Numbers
    BY Numbered DEF Quiet
  <1>4. /\ \A k \in Numbers, w \in Peers : ~Rung(cl'[c], k, w)
        /\ ~Does(cl'[c], "start") /\ ~Does(cl'[c], "join") /\ Tied(cl'[c])
    BY <1>1, NoTask DEF Numbers
  <1>5. \A x \in Clients :
          /\ \A k \in Numbers :
               /\ (Asks(x, k) <=> Asks(x, k)') /\ (Answers(x, k) <=> Answers(x, k)') /\ (Stopping(x, k) => Stopping(x, k)')
               /\ Stopping(x, k)' /\ ~Stopping(x, k) => user[x] = v /\ k = n0
          /\ \A w \in Peers, k \in Numbers :
               Sender(inbox'[x], w, k) /\ ~Sender(inbox[x], w, k) => user[x] = v /\ w = user[c] /\ k = n0
          /\ InvitesDiffer(inbox[x]) => InvitesDiffer(inbox'[x])
          /\ user[x] = v => Stopping(x, n0)'
    <2>1. CASE Post(v, "reject", c, n0)
      BY <1>1, <2>1, PostView DEF Quiet
    <2>2. CASE Post(v, "end", c, n0)
      BY <1>1, <2>2, PostView DEF Quiet
    <2> QED
      BY <1>1, <2>1, <2>2
  <1>6. Busy(c, n0) /\ Trace(c, v, n0)
    BY <1>0, <1>1 DEF Trace, Busy
  <1>7. user[c] # v
    BY <1>6 DEF AgreeInv, Paired
  <1>8. \A x \in Clients, n \in Numbers :
          /\ (Rings(x, n)' => Rings(x, n)) /\ (Busy(x, n)' <=> Busy(x, n) /\ x # c)
          /\ (Talking(x, n)' <=> Talking(x, n) /\ x # c) /\ (Inviting(x, n)' <=> Inviting(x, n) /\ x # c)
          /\ Pending(x, n)' => Pending(x, n)
          /\ Answered(x, n) /\ x # c => Answered(x, n)'
          /\ Answered(x, n)' => Answered(x, n)
          /\ ~Rings(c, n)'
    BY <1>0, <1>1, <1>2, <1>4, <1>5 DEF SeenAs, Rings, Busy, Inviting, Talking, Pending, In, Answered
  <1>9. \A x \in Clients, n \in Numbers, u \in Peers : Trace(x, u, n)' =>
           Trace(x, u, n) \/ (user[x] = v /\ u = user[c] /\ n = n0)
    BY <1>0, <1>1, <1>2, <1>4, <1>5, <1>8 DEF SeenAs, Trace, Busy
  (* The other side of the call hears that it is over.                     *)
  <1>10. \A x \in Clients, n \in Numbers : x # c /\ (Busy(x, n) \/ Asks(x, n) \/ Rings(x, n)) /\ n = n0 => Stopping(x, n)'
    <2> SUFFICES ASSUME NEW x \in Clients, x # c, Busy(x, n0) \/ Asks(x, n0) \/ Rings(x, n0) PROVE user[x] = v
      BY <1>5
    <2>1. Knows(x, n0)
      BY Known DEF Quiet
    <2> QED
      BY <1>6, <2>1, Other DEF Quiet, Undisturbed, AgreeInv
  <1>11. \A n \in Numbers : Busy(c, n) \/ Inviting(c, n) \/ Talking(c, n) => n = n0
    BY <1>0 DEF Busy, Inviting, Talking
  <1>12. \A x \in Clients, n \in Numbers :
           /\ Inviting(x, n) \/ Talking(x, n) => Busy(x, n)
           /\ Pending(x, n) => Busy(x, n) \/ Asks(x, n) \/ Rings(x, n)
    BY DEF Inviting, Talking, Pending, Busy, In
  <1>13. Orderly'
    BY <1>0, <1>1, <1>2, <1>4, <1>5 DEF AgreeInv, Orderly, SeenAs
  <1>14. Paired'
    BY <1>1, <1>6, <1>9, PairedKept DEF AgreeInv
  <1>15. Unoffered'
    <2>1. \A a \in Clients : Does(cl[a], "start") /\ a # c => cl[a].call # n0
      BY <1>0 DEF AgreeInv, Unoffered
    <2> QED
      BY <1>0, <1>1, <1>2, <1>3, <1>4, <1>5, <1>8, <2>1 DEF AgreeInv, Unoffered, SeenAs
  <1>16. InvitedOnce'
    BY <1>0, <1>1, <1>2, <1>3, <1>5, <1>8 DEF AgreeInv, InvitedOnce, SeenAs
  <1>17. Gone'
    <2>1. ASSUME NEW x \in Clients, NEW y \in Clients, NEW n \in Numbers, x # y, Stopping(x, n)', ~Stopping(x, n)
          PROVE  ~Busy(y, n)' /\ ~Rings(y, n)' /\ ~Asks(y, n)'
      <3>1. user[x] = v /\ n = n0
        BY <1>5, <2>1
      <3>2. CASE y = c
        <4>1. ~Asks(c, n0)
          BY <1>0 DEF AgreeInv, InvitedOnce
        <4> QED
          BY <1>5, <1>8, <3>1, <3>2, <4>1
      <3>3. CASE y # c
        <4>1. ASSUME Busy(y, n0) \/ Asks(y, n0) \/ Rings(y, n0) PROVE FALSE
          <5>1. Knows(y, n0)
            BY <4>1, Known DEF Quiet
          <5>2. user[y] = v
            BY <1>6, <3>3, <5>1, Other DEF Quiet, Undisturbed, AgreeInv
          <5> QED
            BY <2>1, <3>1, <5>2 DEF Quiet, Undisturbed, OneEach
        <4> QED
          BY <1>5, <1>8, <3>1, <4>1
      <3> QED
        BY <3>2, <3>3
    <2> QED
      BY <1>5, <1>8, <2>1 DEF AgreeInv, Gone
  <1>18. Asked'
    BY <1>5, <1>8, <1>10, <1>11, <1>12 DEF AgreeInv, Asked
  <1>19. Heard'
    BY <1>5, <1>8, <1>10, <1>11, <1>12 DEF AgreeInv, Heard
  <1>20. Mutual'
    BY <1>5, <1>8, <1>10, <1>11, <1>12 DEF AgreeInv, Mutual
  <1> QED
    BY <1>13, <1>14, <1>15, <1>16, <1>17, <1>18, <1>19, <1>20 DEF AgreeInv

LEMMA StoppedKept ==
  ASSUME Quiet, AgreeInv, NEW c \in Clients, Stopped(c)
  PROVE  AgreeInv'
  <1>0. PICK n0 \in Numbers : n0 = cl[c].call
    BY Numbered DEF Quiet
  <1>1. /\ Moves(c, cl'[c]) /\ NoneWaits(cl'[c]) /\ ~In(cl'[c]) /\ cl'[c].call = n0 /\ made' = made /\ user' = user
        /\ inbox[c] # <<>> /\ Head(inbox[c]).type \in {"reject", "end"} /\ Next1(c) /\ Head(inbox[c]).call = n0
    BY <1>0, StoppedView DEF Quiet, Head1
  <1>2. \A x \in Clients : x # c => SeenAs(x)
    BY <1>1, CalmSeen
  <1>3. \A x \in Clients : cl[x].call \in Numbers
    BY Numbered DEF Quiet
  <1>4. /\ \A k \in Numbers, w \in Peers : ~Rung(cl'[c], k, w)
        /\ ~Does(cl'[c], "start") /\ ~Does(cl'[c], "join") /\ Tied(cl'[c])
    BY <1>1, NoTask DEF Numbers
  <1>5. \A x \in Clients :
          /\ x # c => inbox'[x] = inbox[x]
          /\ \A k \in Numbers :
               /\ (Asks(x, k) <=> Asks(x, k)') /\ (Answers(x, k) <=> Answers(x, k)') /\ (Stopping(x, k)' => Stopping(x, k))
               /\ Stopping(x, k) /\ ~Stopping(x, k)' => x = c /\ k = n0
          /\ \A w \in Peers, k \in Numbers : Sender(inbox'[x], w, k) => Sender(inbox[x], w, k)
          /\ InvitesDiffer(inbox[x]) => InvitesDiffer(inbox'[x])
    BY <1>1, TakenView DEF Quiet
  <1>6. Stopping(c, n0)
    BY <1>1, TakenView DEF Quiet, Stopping
  <1>7. ~Asks(c, n0) /\ \A x \in Clients : x # c => ~Busy(x, n0) /\ ~Rings(x, n0) /\ ~Asks(x, n0)
    BY <1>0, <1>6 DEF AgreeInv, InvitedOnce, Gone
  <1>8. \A x \in Clients, n \in Numbers :
          /\ (Rings(x, n)' => Rings(x, n)) /\ (Busy(x, n)' <=> Busy(x, n) /\ x # c)
          /\ (Talking(x, n)' <=> Talking(x, n) /\ x # c) /\ (Inviting(x, n)' <=> Inviting(x, n) /\ x # c)
          /\ Pending(x, n)' => Pending(x, n)
          /\ Pending(c, n)' => Asks(c, n)
          /\ x # c => (Answered(x, n)' <=> Answered(x, n))
    BY <1>0, <1>1, <1>2, <1>4, <1>5 DEF SeenAs, Rings, Busy, Inviting, Talking, Pending, In, Answered
  <1>9. \A x \in Clients, n \in Numbers, u \in Peers : Trace(x, u, n)' => Trace(x, u, n)
    BY <1>1, <1>2, <1>4, <1>5, <1>8 DEF SeenAs, Trace, Busy
  <1>10. \A n \in Numbers : Inviting(c, n) \/ Talking(c, n) => n = n0
    BY <1>0 DEF Inviting, Talking
  <1>11. \A x \in Clients, n \in Numbers :
           /\ Inviting(x, n) \/ Talking(x, n) => Busy(x, n)
           /\ Pending(x, n) => Busy(x, n) \/ Asks(x, n) \/ Rings(x, n)
    BY DEF Inviting, Talking, Pending, Busy, In
  <1>12. Orderly'
    BY <1>0, <1>1, <1>2, <1>4, <1>5 DEF AgreeInv, Orderly, SeenAs
  <1>13. Paired'
    BY <1>1, <1>9, PairedKept DEF AgreeInv
  <1>14. Unoffered'
    BY <1>0, <1>1, <1>2, <1>3, <1>4, <1>5, <1>8 DEF AgreeInv, Unoffered, SeenAs
  <1>15. InvitedOnce'
    BY <1>0, <1>1, <1>2, <1>3, <1>5, <1>8 DEF AgreeInv, InvitedOnce, SeenAs
  <1>16. Gone'
    BY <1>5, <1>8 DEF AgreeInv, Gone
  <1>17. Asked'
    BY <1>5, <1>7, <1>8, <1>10, <1>11 DEF AgreeInv, Asked
  <1>18. Heard'
    BY <1>5, <1>7, <1>8, <1>10, <1>11 DEF AgreeInv, Heard
  <1>19. Mutual'
    BY <1>5, <1>7, <1>8, <1>10, <1>11 DEF AgreeInv, Mutual
  <1> QED
    BY <1>12, <1>13, <1>14, <1>15, <1>16, <1>17, <1>18, <1>19 DEF AgreeInv

LEMMA InvitedKept ==
  ASSUME Quiet, AgreeInv, NEW c \in Clients, Invited(c)
  PROVE  AgreeInv'
  <1>0. PICK n0 \in Numbers, v \in Peers : n0 = Head(inbox[c]).call /\ v = Head(inbox[c]).from
    BY InvitedView, TakenView DEF Quiet, Head1
  <1>1. /\ Moves(c, cl'[c]) /\ NoneWaits(cl[c]) /\ cl[c].phase = "idle" /\ cl'[c].phase = "idle"
        /\ cl'[c].call = cl[c].call /\ made' = made /\ user' = user
        /\ \A n \in Numbers, u \in Peers : Rung(cl'[c], n, u) <=> n = n0 /\ u = v
        /\ ~Does(cl'[c], "start") /\ ~Does(cl'[c], "join") /\ Tied(cl'[c])
        /\ inbox[c] # <<>> /\ Head(inbox[c]).type = "invite" /\ Next1(c)
    BY <1>0, InvitedView DEF Quiet, Numbers, Head1
  <1>2. \A x \in Clients : x # c => SeenAs(x)
    BY <1>1, CalmSeen
  <1>3. \A x \in Clients : cl[x].call \in Numbers
    BY Numbered DEF Quiet
  <1>4. /\ \A k \in Numbers, w \in Peers : ~Rung(cl[c], k, w)
        /\ ~Does(cl[c], "start") /\ ~Does(cl[c], "join")
    BY <1>1, NoTask DEF Numbers
  <1>5. \A x \in Clients :
          /\ \A k \in Numbers :
               /\ (Asks(x, k)' => Asks(x, k)) /\ (Answers(x, k) <=> Answers(x, k)') /\ (Stopping(x, k) <=> Stopping(x, k)')
               /\ Asks(x, k) /\ ~Asks(x, k)' => x = c /\ k = n0
          /\ \A w \in Peers, k \in Numbers : Sender(inbox'[x], w, k) => Sender(inbox[x], w, k)
          /\ InvitesDiffer(inbox[x]) => InvitesDiffer(inbox'[x])
    BY <1>0, <1>1, TakenView DEF Quiet
  <1>6. Asks(c, n0) /\ Sender(inbox[c], v, n0)
    BY <1>0, <1>1, TakenView DEF Quiet, Asks
  <1>7. ~Asks(c, n0)'
    <2>1. ~Letter(inbox'[c], "invite", n0)
      BY <1>0, <1>1, TakenView DEF Quiet, AgreeInv, Orderly
    <2> QED
      BY <2>1 DEF Asks
  <1>8. \A x \in Clients, n \in Numbers :
          /\ Rings(x, n)' <=> Rings(x, n) \/ (x = c /\ n = n0)
          /\ Rings(c, n)' => n = n0
          /\ (Busy(x, n)' <=> Busy(x, n)) /\ (Talking(x, n)' <=> Talking(x, n)) /\ (Inviting(x, n)' <=> Inviting(x, n))
          /\ (Answered(x, n)' <=> Answered(x, n))
    BY <1>1, <1>2, <1>4, <1>5 DEF SeenAs, Rings, Busy, Inviting, Talking, In, Answered
  <1>9. \A x \in Clients, n \in Numbers : Pending(x, n)' => Pending(x, n)
    BY <1>1, <1>2, <1>5, <1>6, <1>8 DEF SeenAs, Pending
  <1>10. \A x \in Clients, n \in Numbers, u \in Peers : Trace(x, u, n)' => Trace(x, u, n)
    BY <1>1, <1>2, <1>5, <1>6, <1>8 DEF SeenAs, Trace, Busy, In
  <1>11. Orderly'
    BY <1>1, <1>2, <1>5 DEF AgreeInv, Orderly, SeenAs
  <1>12. Paired'
    BY <1>1, <1>10, PairedKept DEF AgreeInv
  <1>13. Unoffered'
    <2>1. \A a \in Clients : Does(cl[a], "start") => cl[a].call # n0
      BY <1>6 DEF AgreeInv, Unoffered
    <2> QED
      BY <1>1, <1>2, <1>3, <1>4, <1>5, <1>8, <2>1 DEF AgreeInv, Unoffered, SeenAs
  <1>14. InvitedOnce'
    <2>1. cl[c].call # n0
      BY <1>6 DEF AgreeInv, InvitedOnce
    <2> QED
      BY <1>1, <1>2, <1>3, <1>5, <1>7, <1>8, <2>1 DEF AgreeInv, InvitedOnce, SeenAs
  <1>15. Gone'
    BY <1>5, <1>6, <1>8 DEF AgreeInv, Gone
  <1>16. Asked'
    BY <1>5, <1>8, <1>9 DEF AgreeInv, Asked
  <1>17. Heard'
    BY <1>5, <1>8 DEF AgreeInv, Heard
  <1>18. Mutual'
    BY <1>5, <1>8 DEF AgreeInv, Mutual
  <1> QED
    BY <1>11, <1>12, <1>13, <1>14, <1>15, <1>16, <1>17, <1>18 DEF AgreeInv

LEMMA BusyKept ==
  ASSUME Quiet, AgreeInv, NEW c \in Clients, InviteBusy(c)
  PROVE  AgreeInv'
  <1>0. PICK m \in Messages : m = Head(inbox[c]) /\ m.type = "invite"
    BY DEF InviteBusy, Head1, Quiet, CallsInv, Relayed
  <1>1. PICK n0 \in Numbers, v \in Peers : n0 = m.call /\ v = m.from
    BY DEF Messages, Numbers
  <1> DEFINE r == [type |-> "reject", from |-> user[c], call |-> n0]
  <1>2. /\ cl' = cl /\ made' = made /\ user' = user /\ inbox[c] # <<>> /\ cl[c].phase # "idle"
        /\ inbox' = [d \in Clients |->
             LET q == IF d = c THEN Tail(inbox[d]) ELSE inbox[d] IN IF user[d] = v THEN Append(q, r) ELSE q]
    BY <1>0, <1>1 DEF InviteBusy, Head1
  <1>3. r \in Messages /\ r.type = "reject" /\ r.from = user[c] /\ r.call = n0 /\ \A x \in Clients : inbox[x] \in Seq(Messages)
    BY DEF Messages, Quiet, CallsInv, Relayed, Numbers
  <1> HIDE DEF r
  <1>4. /\ Letter(inbox[c], "invite", n0) /\ Sender(inbox[c], v, n0)
        /\ \A type \in {"invite", "accept", "reject", "end"}, n \in 0..MaxCalls :
             /\ Letter(Tail(inbox[c]), type, n) => Letter(inbox[c], type, n)
             /\ Letter(inbox[c], type, n) /\ ~Letter(Tail(inbox[c]), type, n) => type = "invite" /\ n = n0
        /\ \A u \in Peers, n \in 0..MaxCalls : Sender(Tail(inbox[c]), u, n) => Sender(inbox[c], u, n)
        /\ InvitesDiffer(inbox[c]) => InvitesDiffer(Tail(inbox[c])) /\ ~Letter(Tail(inbox[c]), "invite", n0)
    <2>1. inbox[c] \in Seq(Messages) /\ inbox[c] # <<>> /\ Head(inbox[c]) = m
      BY <1>0, <1>2, <1>3
    <2>2. /\ Letter(inbox[c], m.type, m.call) /\ Sender(inbox[c], m.from, m.call)
          /\ \A type \in {"invite", "accept", "reject", "end"}, n \in 0..MaxCalls :
               /\ Letter(Tail(inbox[c]), type, n) => Letter(inbox[c], type, n)
               /\ Letter(inbox[c], type, n) /\ ~Letter(Tail(inbox[c]), type, n) => m.type = type /\ m.call = n
          /\ \A u \in Peers, n \in 0..MaxCalls : Sender(Tail(inbox[c]), u, n) => Sender(inbox[c], u, n)
          /\ InvitesDiffer(inbox[c]) =>
               InvitesDiffer(Tail(inbox[c])) /\ (m.type = "invite" => ~Letter(Tail(inbox[c]), "invite", m.call))
      BY <2>1, LetterTaken
    <2> QED
      BY <1>0, <1>1, <2>2
  <1>5. Asks(c, n0) /\ Trace(c, v, n0)
    BY <1>4 DEF Asks, Trace
  <1>6. user[c] # v
    BY <1>5 DEF AgreeInv, Paired
  <1>7. /\ inbox'[c] = Tail(inbox[c])
        /\ \A x \in Clients : x # c /\ user[x] = v => inbox'[x] = Append(inbox[x], r)
        /\ \A x \in Clients : x # c /\ user[x] # v => inbox'[x] = inbox[x]
    BY <1>2, <1>6
  <1>8. ASSUME NEW x \in Clients
        PROVE  /\ \A k \in Numbers :
                    /\ (Asks(x, k)' => Asks(x, k)) /\ (Answers(x, k) <=> Answers(x, k)') /\ (Stopping(x, k) => Stopping(x, k)')
                    /\ Asks(x, k) /\ ~Asks(x, k)' => x = c /\ k = n0
                    /\ Stopping(x, k)' /\ ~Stopping(x, k) => x # c /\ user[x] = v /\ k = n0
               /\ \A w \in Peers, k \in Numbers :
                    Sender(inbox'[x], w, k) /\ ~Sender(inbox[x], w, k) => user[x] = v /\ w = user[c] /\ k = n0
               /\ InvitesDiffer(inbox[x]) => InvitesDiffer(inbox'[x])
    <2>1. CASE x = c
      BY <1>4, <1>7, <2>1 DEF Asks, Answers, Stopping, Numbers
    <2>2. CASE x # c /\ user[x] = v
      <3>1. /\ \A type \in {"invite", "accept", "reject", "end"}, n \in 0..MaxCalls :
                 /\ Letter(inbox[x], type, n) => Letter(inbox'[x], type, n)
                 /\ Letter(inbox'[x], type, n) /\ ~Letter(inbox[x], type, n) => type = "reject" /\ n = n0
            /\ \A u \in Peers, n \in 0..MaxCalls :
                 Sender(inbox'[x], u, n) /\ ~Sender(inbox[x], u, n) => u = user[c] /\ n = n0
            /\ InvitesDiffer(inbox[x]) => InvitesDiffer(inbox'[x])
        <4>1. inbox[x] \in Seq(Messages) /\ inbox'[x] = Append(inbox[x], r)
          BY <1>3, <1>7, <2>2
        <4>2. /\ \A type \in {"invite", "accept", "reject", "end"}, n \in 0..MaxCalls :
                   /\ Letter(inbox[x], type, n) => Letter(inbox'[x], type, n)
                   /\ Letter(inbox'[x], type, n) /\ ~Letter(inbox[x], type, n) => r.type = type /\ r.call = n
              /\ \A u \in Peers, n \in 0..MaxCalls :
                   Sender(inbox'[x], u, n) /\ ~Sender(inbox[x], u, n) => r.from = u /\ r.call = n
              /\ InvitesDiffer(inbox[x]) /\ (r.type = "invite" => ~Letter(inbox[x], "invite", r.call)) => InvitesDiffer(inbox'[x])
          BY <1>3, <4>1, LetterAppended
        <4> QED
          BY <1>3, <4>2
      <3> QED
        BY <2>2, <3>1 DEF Asks, Answers, Stopping, Numbers
    <2>3. CASE x # c /\ user[x] # v
      BY <1>7, <2>3 DEF Asks, Answers, Stopping
    <2> QED
      BY <2>1, <2>2, <2>3
  <1>9. ~Asks(c, n0)'
    BY <1>4, <1>7 DEF Asks, AgreeInv, Orderly
  <1>10. \A x \in Clients : cl[x].call \in Numbers
    BY Numbered DEF Quiet
  <1>11. \A x \in Clients, n \in Numbers :
          /\ (Rings(x, n)' <=> Rings(x, n)) /\ (Busy(x, n)' <=> Busy(x, n)) /\ (Talking(x, n)' <=> Talking(x, n))
          /\ (Inviting(x, n)' <=> Inviting(x, n)) /\ (Answered(x, n)' <=> Answered(x, n))
          /\ Pending(x, n)' => Pending(x, n)
    BY <1>2, <1>8 DEF Rings, Busy, Inviting, Talking, Answered, Pending
  <1>12. \A x \in Clients, n \in Numbers, u \in Peers : Trace(x, u, n)' =>
           Trace(x, u, n) \/ (user[x] = v /\ u = user[c] /\ n = n0)
    BY <1>2, <1>8, <1>11 DEF Trace
  <1>13. Orderly'
    BY <1>2, <1>8 DEF AgreeInv, Orderly
  <1>14. Paired'
    BY <1>2, <1>5, <1>12, PairedKept DEF AgreeInv
  <1>15. Unoffered'
    <2>1. \A a \in Clients : Does(cl[a], "start") => cl[a].call # n0
      BY <1>4 DEF AgreeInv, Unoffered
    <2> QED
      BY <1>2, <1>8, <1>10, <1>11, <2>1 DEF AgreeInv, Unoffered
  <1>16. InvitedOnce'
    BY <1>2, <1>8, <1>10, <1>11 DEF AgreeInv, InvitedOnce
  <1>17. Gone'
    <2>1. ASSUME NEW x \in Clients, NEW y \in Clients, NEW n \in Numbers, x # y, Stopping(x, n)', ~Stopping(x, n)
          PROVE  ~Busy(y, n)' /\ ~Rings(y, n)' /\ ~Asks(y, n)'
      <3>1. user[x] = v /\ n = n0
        BY <1>8, <2>1
      <3>2. CASE y = c
        <4>1. cl[c].call # n0 /\ ~Rings(c, n0)
          BY <1>5 DEF AgreeInv, InvitedOnce
        <4> QED
          BY <1>9, <1>11, <3>1, <3>2, <4>1 DEF Busy
      <3>3. CASE y # c
        <4>1. ASSUME Busy(y, n0) \/ Asks(y, n0) \/ Rings(y, n0) PROVE FALSE
          <5>1. Knows(y, n0)
            BY <4>1, Known DEF Quiet
          <5>2. user[y] = v
            BY <1>5, <3>3, <5>1, Other DEF Quiet, Undisturbed, AgreeInv
          <5> QED
            BY <2>1, <3>1, <5>2 DEF Quiet, Undisturbed, OneEach
        <4> QED
          BY <1>8, <1>11, <3>1, <4>1
      <3> QED
        BY <3>2, <3>3
    <2> QED
      BY <1>8, <1>11, <2>1 DEF AgreeInv, Gone
  <1>18. Asked'
    BY <1>8, <1>11 DEF AgreeInv, Asked
  <1>19. Heard'
    BY <1>8, <1>11 DEF AgreeInv, Heard
  <1>20. Mutual'
    BY <1>8, <1>11 DEF AgreeInv, Mutual
  <1> QED
    BY <1>13, <1>14, <1>15, <1>16, <1>17, <1>18, <1>19, <1>20 DEF AgreeInv

LEMMA AgreeStep ==
  ASSUME CallsInv, Undisturbed => AgreeInv, Next, Undisturbed'
  PROVE  AgreeInv'
  <1>1. user' = user /\ overlapped \subseteq overlapped' /\ (untold => untold')
    <2> USE DEF Continue, NoteSetup, NoteTeardown, NoteStray, history
    <2>1. ASSUME NEW c \in Clients, NEW i \in Slots, Resume(c, i)
          PROVE  user' = user /\ overlapped \subseteq overlapped' /\ (untold => untold')
      <3>1. CASE OfferSet(c, i) \/ Ring(c, i) \/ AnswerSet(c, i) \/ Joined(c, i)
        BY <3>1 DEF OfferSet, Ring, AnswerSet, Joined
      <3>2. CASE IceKnown(c, i) \/ MediaGranted(c, i) \/ ScreenPicked(c, i) \/ ShareSet(c, i)
        BY <3>2 DEF IceKnown, MediaGranted, ScreenPicked, ShareSet
      <3>3. CASE Fails(c, i)
        BY <3>3 DEF Fails
      <3> QED
        BY <2>1, <3>1, <3>2, <3>3 DEF Resume
    <2>2. ASSUME NEW c \in Clients, Handle(c) \/ Lose(c) \/ ConnectionLost(c) \/ LeaveHome(c) \/ CardGone(c)
          PROVE  user' = user /\ overlapped \subseteq overlapped' /\ (untold => untold')
      <3>1. CASE InviteBusy(c) \/ Invited(c)
        BY <3>1 DEF InviteBusy, Invited
      <3>2. CASE Accepted(c)
        BY <3>2 DEF Accepted
      <3>3. CASE Stopped(c)
        BY <3>3 DEF Stopped
      <3>4. CASE Lose(c) \/ ConnectionLost(c) \/ LeaveHome(c) \/ CardGone(c)
        BY <3>4 DEF Lose, ConnectionLost, LeaveHome, CardGone
      <3> QED
        BY <2>2, <3>1, <3>2, <3>3, <3>4 DEF Handle
    <2>3. ASSUME NEW c \in Clients,
                 \/ \E u \in Peers : StartCall(c, u)
                 \/ AcceptCall(c) \/ RejectCall(c) \/ EndCall(c) \/ ToggleMute(c) \/ ToggleShare(c)
          PROVE  user' = user /\ overlapped \subseteq overlapped' /\ (untold => untold')
      <3>1. CASE \E u \in Peers : StartCall(c, u)
        BY <3>1 DEF StartCall
      <3>2. CASE AcceptCall(c) \/ ToggleMute(c) \/ ToggleShare(c)
        BY <3>2 DEF AcceptCall, ToggleMute, ToggleShare
      <3>3. CASE RejectCall(c) \/ EndCall(c)
        BY <3>3 DEF RejectCall, EndCall
      <3> QED
        BY <2>3, <3>1, <3>2, <3>3
    <2> QED
      BY <2>1, <2>2, <2>3 DEF Next
  <1>2. Quiet /\ AgreeInv /\ ~untold'
    BY <1>1 DEF Quiet, Undisturbed, OneEach
  <1>3. PICK c \in Clients :
          \/ \E u \in Peers : StartCall(c, u)
          \/ AcceptCall(c) \/ RejectCall(c) \/ EndCall(c) \/ ToggleMute(c) \/ ToggleShare(c)
          \/ CardGone(c) \/ LeaveHome(c) \/ Handle(c) \/ Lose(c) \/ ConnectionLost(c)
          \/ \E i \in Slots : Resume(c, i)
    BY DEF Next
  <1>4. ~LeaveHome(c) /\ ~Lose(c) /\ ~ConnectionLost(c) /\ \A i \in Slots : ~Fails(c, i)
    BY <1>2 DEF LeaveHome, Lose, ConnectionLost, Fails
  <1>5. CASE AcceptCall(c) \/ ToggleMute(c) \/ ToggleShare(c) \/ CardGone(c)
    BY <1>2, <1>5, AcceptView, MuteView, ShareView, CardView, CalmKept
  <1>6. ASSUME NEW i \in Slots, IceKnown(c, i) \/ MediaGranted(c, i) \/ ScreenPicked(c, i) \/ ShareSet(c, i) PROVE AgreeInv'
    BY <1>2, <1>6, IceView, MediaView, PickView, SharedView, CalmKept
  <1>7. ASSUME NEW i \in Slots, OfferSet(c, i) \/ Ring(c, i) \/ AnswerSet(c, i) \/ Joined(c, i) PROVE AgreeInv'
    BY <1>2, <1>7, OfferKept, RingKept, AnswerKept, JoinKept
  <1>8. CASE Handle(c)
    BY <1>2, <1>8, BusyKept, InvitedKept, AcceptedKept, StoppedKept DEF Handle
  <1>9. CASE \E u \in Peers : StartCall(c, u)
    BY <1>2, <1>9, StartKept
  <1>10. CASE RejectCall(c) \/ EndCall(c)
    BY <1>2, <1>10, EndKept
  <1> QED
    BY <1>3, <1>4, <1>5, <1>6, <1>7, <1>8, <1>9, <1>10 DEF Resume

LEMMA AgreeInductive == Spec => [](Undisturbed => AgreeInv)
  <1>1. ASSUME Init PROVE AgreeInv
    <2>1. \A x \in Clients : /\ cl[x].phase = "idle" /\ cl[x].call = 0 /\ NoneWaits(cl[x])
                             /\ inbox[x] = <<>> /\ made = 0
      BY <1>1 DEF Init, Fresh, NoneWaits
    <2>2. \A x \in Clients : /\ \A n \in Numbers, u \in Peers : ~Rung(cl[x], n, u)
                             /\ ~Does(cl[x], "start") /\ ~Does(cl[x], "join") /\ Tied(cl[x])
      BY <2>1, NoTask DEF Numbers
    <2>3. \A x \in Clients : DOMAIN inbox[x] = {} /\ InvitesDiffer(inbox[x]) /\ cl[x].call <= made
      BY <2>1 DEF InvitesDiffer
    <2>4. \A x \in Clients, n \in Numbers :
            /\ ~Asks(x, n) /\ ~Answers(x, n) /\ ~Stopping(x, n) /\ ~Rings(x, n) /\ ~Busy(x, n) /\ ~Inviting(x, n)
            /\ ~Talking(x, n) /\ ~Pending(x, n) /\ \A u \in Peers : ~Trace(x, u, n)
      BY <2>1, <2>2, <2>3 DEF Asks, Answers, Stopping, Rings, Busy, Inviting, Talking, Pending, Trace, Letter, Sender, In
    <2>5. Orderly /\ Paired /\ Unoffered /\ Gone /\ Asked /\ Heard /\ Mutual
      BY <2>2, <2>3, <2>4 DEF Orderly, Paired, Unoffered, Gone, Asked, Heard, Mutual
    <2>6. InvitedOnce
      BY <2>1, <2>4, CallsAssumption DEF InvitedOnce, Numbers
    <2> QED
      BY <2>5, <2>6 DEF AgreeInv
  <1>2. ASSUME Undisturbed => AgreeInv, UNCHANGED vars PROVE (Undisturbed => AgreeInv)'
    <2>1. /\ cl' = cl /\ inbox' = inbox /\ made' = made /\ user' = user
          /\ overlapped' = overlapped /\ untold' = untold
      BY <1>2 DEF vars, history
    <2>2. Undisturbed' => AgreeInv
      BY <1>2, <2>1 DEF Undisturbed, OneEach
    <2> QED
      BY <2>1, <2>2 DEF AgreeInv, Orderly, Paired, Unoffered, InvitedOnce, Gone, Asked, Heard, Mutual, Trace, Knows, Pending,
           Answered, Asks, Answers, Stopping, Rings, Busy, Inviting, Talking
  <1>3. ASSUME CallsInv, Undisturbed => AgreeInv, [Next]_vars PROVE (Undisturbed => AgreeInv)'
    BY <1>2, <1>3, AgreeStep
  <1> QED
    BY <1>1, <1>3, CallsInductive, PTL DEF Spec

(* CallsAgree: with one client for each user, nothing lost and no handlers *)
(* that overlap, whoever is in a call when all has come to rest is in it   *)
(* with the user it shows, who shows the same call (callStore.ts, the      *)
(* handlers of the call messages and the awaits of the connection).        *)
THEOREM CallsAlwaysAgree == Spec => []CallsAgree
  <1>1. ASSUME CallsInv, Undisturbed => AgreeInv PROVE CallsAgree
    <2> SUFFICES ASSUME Undisturbed, \A x \in Clients : inbox[x] = <<>> /\ Waiting(cl[x]) = {},
                        NEW c \in Clients, cl[c].phase = "connected"
        PROVE  \E d \in Clients : user[d] = cl[c].peer /\ cl[d].phase = "connected" /\ cl[d].peer = user[c]
      BY DEF CallsAgree, Undisturbed, OneEach
    <2>1. AgreeInv
      BY <1>1
    <2>2. PICK n \in Numbers : n = cl[c].call
      BY <1>1, Numbered
    <2>3. \A x \in Clients : NoneWaits(cl[x])
      BY DEF Waiting, NoneWaits
    <2>4. \A x \in Clients : ~Stopping(x, n) /\ ~Answers(x, n)
      BY DEF Stopping, Answers, Letter
    <2>5. \A x \in Clients : ~Does(cl[x], "join")
      BY <2>3, NoTask
    <2>6. Talking(c, n)
      BY <2>2 DEF Talking
    <2>7. PICK d \in Clients : d # c /\ Talking(d, n)
      BY <2>1, <2>4, <2>5, <2>6 DEF AgreeInv, Mutual, Answered
    <2>8. Busy(c, n) /\ Busy(d, n)
      BY <2>6, <2>7 DEF Talking, Busy, In
    <2>9. Knows(c, n) /\ Knows(d, n) /\ cl[c].peer \in Peers /\ cl[d].peer \in Peers
      <3>1. Knows(c, n) /\ Knows(d, n)
        BY <1>1, <2>8, Known
      <3>2. \A x \in Clients : cl[x] \in States /\ Wired(cl[x])
        BY <1>1, Sounds DEF CallsInv
      <3>3. \A x \in Clients : Talking(x, n) => cl[x].peer \in Peers
        BY <3>2, StateFields DEF Wired, Talking
      <3> QED
        BY <2>6, <2>7, <3>1, <3>3
    <2>10. Trace(c, cl[c].peer, n) /\ Trace(d, cl[d].peer, n)
      BY <2>8 DEF Trace
    <2>11. user[d] = cl[c].peer /\ user[c] = cl[d].peer
      BY <1>1, <2>1, <2>7, <2>9, <2>10, Other DEF AgreeInv, Undisturbed
    <2> QED
      BY <2>7, <2>11 DEF Talking
  <1> QED
    BY <1>1, CallsInductive, AgreeInductive, PTL
=============================================================================
