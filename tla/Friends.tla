------------------------------ MODULE Friends ------------------------------
(* Friendships: the rows of the server, one for each ordered pair, and the *)
(* sidebar of one client with its list of friends, the badge of incoming   *)
(* requests and the window that answers them.                              *)
(*                                                                         *)
(* Sending a request reads several rows and then writes; every other       *)
(* operation of the server is one transaction whose statements lock what   *)
(* they write.  A call of the client is served, its answer comes, and what *)
(* the handler reads next is served then.  The events that make a client   *)
(* read again at once, and may be lost, are covered by its timers, which   *)
(* may read at any moment.                                                 *)
EXTENDS Naturals, FiniteSets

CONSTANTS Me, Others,
          MaxAsked,  \* calls of the user under way at once
          MaxPolls,  \* reads of one kind under way at once
          Nobody

ASSUME FriendsAssumption ==
  /\ Me \notin Others /\ Nobody \notin Others /\ IsFiniteSet(Others) /\ MaxAsked \in Nat /\ MaxPolls \in Nat

People == Others \union {Me}
Pairs == {p \in People \X People : p[1] # p[2]}
\* friendships.status; "lapsed" is a rejection of more than seven days ago.
Relations == {"none", "pending", "accepted", "blocked", "rejected", "lapsed"}

VARIABLES
  row,      \* friendships
  sends,    \* requests being sent, between their reads and their writes
  crossed,  \* history: pairs one of whose rows was written beside such a request
  side,     \* the sidebar: friends, badge, the window and what it lists
  asked     \* calls of the client, as far as they are

friendsVars == <<row, sends, crossed, side, asked>>

Sides == [friends : SUBSET Others, badge : 0..Cardinality(Others), open : BOOLEAN,
          incoming : SUBSET Others, outgoing : SUBSET Others, busy : Others \union {Nobody}]
\* "count", "friends": that answer is on its way, with what it read.
Asked == [op : {"add", "accept", "drop", "block", "poll"}, with : People,
          at : {"sent", "ok", "failed", "count", "friends"}, read : SUBSET Others]

FriendsInit ==
  /\ row = [p \in Pairs |-> "none"] /\ sends = [p \in Pairs |-> Nobody] /\ crossed = {}
  /\ side = [friends |-> {}, badge |-> 0, open |-> FALSE,
             incoming |-> {}, outgoing |-> {}, busy |-> Nobody]
  /\ asked = {}

-----------------------------------------------------------------------------
(* The server *)

FriendsOf == {o \in Others : row[<<Me, o>>] = "accepted"}
Incoming == {o \in Others : row[<<o, Me>>] = "pending"}
Outgoing == {o \in Others : row[<<Me, o>>] = "pending"}

BlockedEither(a, b) == row[<<a, b>>] = "blocked" \/ row[<<b, a>>] = "blocked"

\* The rows of a pair become r and s.
Write(a, b, r, s) == row' = [row EXCEPT ![<<a, b>>] = r, ![<<b, a>>] = s]
NoteCrossing(a, b) ==
  crossed' = IF sends[<<b, a>>] # Nobody \/ sends[<<a, b>>] # Nobody THEN crossed \union {{a, b}} ELSE crossed
WriteAtOnce(a, b, r, s) == Write(a, b, r, s) /\ NoteCrossing(a, b) /\ UNCHANGED sends

\* sendRequest: who is blocked, a friend, waiting or rejected is refused.
CanSend(a, b) ==
  /\ ~BlockedEither(a, b) /\ "accepted" \notin {row[<<a, b>>], row[<<b, a>>]}
  /\ row[<<a, b>>] \notin {"pending", "rejected"}

SendReads(a, b) ==
  /\ sends[<<a, b>>] = Nobody /\ CanSend(a, b)
  /\ sends' = [sends EXCEPT ![<<a, b>>] = IF row[<<b, a>>] = "pending" THEN "mutual" ELSE "plain"]
  /\ UNCHANGED <<row, crossed>>

\* The UPDATE of the other's request has no condition on its status; a
\* request that meets a row leaves it, unless it is the lapsed rejection.
SendWrites(a, b) ==
  LET mine == row[<<a, b>>]  theirs == row[<<b, a>>]
  IN /\ sends[<<a, b>>] # Nobody
     /\ IF sends[<<a, b>>] = "mutual"
        THEN Write(a, b, "accepted", IF theirs = "none" THEN "none" ELSE "accepted")
        ELSE Write(a, b, IF mine \in {"none", "lapsed"} THEN "pending" ELSE mine, theirs)
     /\ sends' = [sends EXCEPT ![<<a, b>>] = Nobody]
     /\ crossed' = IF sends[<<b, a>>] # Nobody THEN crossed \union {{a, b}} ELSE crossed

Accept(a, b) == row[<<b, a>>] = "pending" /\ WriteAtOnce(a, b, "accepted", "accepted")

\* rejectOrCancel: a request of the other is rejected before one's own is dropped.
CanDrop(a, b) == "pending" \in {row[<<a, b>>], row[<<b, a>>]}
Drop(a, b) ==
  /\ CanDrop(a, b)
  /\ IF row[<<b, a>>] = "pending"
     THEN WriteAtOnce(a, b, row[<<a, b>>], "rejected")
     ELSE WriteAtOnce(a, b, "none", row[<<b, a>>])

\* Mutant: the row of the other stays.
Block_OneSide(a, b) == WriteAtOnce(a, b, "blocked", row[<<b, a>>])

\* The row of the other goes, even if he has blocked too.
Block(a, b) == WriteAtOnce(a, b, "blocked", "none")

Unblock(a, b) == row[<<a, b>>] = "blocked" /\ WriteAtOnce(a, b, "none", row[<<b, a>>])
Unfriend(a, b) == {row[<<a, b>>], row[<<b, a>>]} # {"none"} /\ WriteAtOnce(a, b, "none", "none")
Lapse7(a, b) == row[<<a, b>>] = "rejected" /\ WriteAtOnce(a, b, "lapsed", row[<<b, a>>])

\* What the others do, and what time does.
Elsewhere ==
  /\ UNCHANGED <<side, asked>>
  /\ \E p \in Pairs :
       LET a == p[1]  b == p[2]
       IN \/ a # Me /\ (SendReads(a, b) \/ SendWrites(a, b) \/ Accept(a, b) \/ Drop(a, b) \/ Block(a, b))
          \/ Unblock(a, b) \/ Unfriend(a, b) \/ Lapse7(a, b)

-----------------------------------------------------------------------------
(* The client *)

Call0(op, o) == [op |-> op, with |-> o, at |-> "sent", read |-> {}]
AskFor(k) ==
  /\ IF k.op = "poll" THEN Cardinality({j \in asked : j.op = "poll" /\ j.at = k.at}) < MaxPolls
     ELSE Cardinality({j \in asked : j.op # "poll"}) < MaxAsked
  /\ asked' = asked \union {k}
Becomes(k, stage, value) == asked' = (asked \ {k}) \union {[k EXCEPT !.at = stage, !.read = value]}
NoWrite == UNCHANGED <<row, sends, crossed>>
Quiet == NoWrite /\ UNCHANGED asked
\* load: a list that is late only offers what the server refuses, so it comes
\* at once; lists that nobody sees are read again when the window opens.
ListsLoaded(s) ==
  [s EXCEPT !.incoming = IF s.open THEN Incoming ELSE {}, !.outgoing = IF s.open THEN Outgoing ELSE {}]

\* The dialog of the sidebar that names somebody.
AddFriend(o) == AskFor(Call0("add", o)) /\ NoWrite /\ UNCHANGED side

\* An entry of the window whose buttons are not busy; only one is, the last.
PressEntry(op, o) ==
  /\ side.open /\ side.busy # o
  /\ o \in side.incoming \/ (op = "drop" /\ o \in side.outgoing)
  /\ AskFor(Call0(op, o)) /\ side' = [side EXCEPT !.busy = o] /\ NoWrite

\* The menu of the conversation with a friend.
BlockFriend(o) == o \in side.friends /\ AskFor(Call0("block", o)) /\ NoWrite /\ UNCHANGED side

\* refresh of the badge and the timer of the friends; the window, when it
\* opens, reads its lists, and the badge is read when it closes.
Poll(stage, value) == AskFor([op |-> "poll", with |-> Me, at |-> stage, read |-> value])

\* Mutant: the badge is read once, and again only when something is sent.
PollCount_Once ==
  asked = {} /\ side.badge = 0 /\ Poll("count", Incoming) /\ NoWrite /\ UNCHANGED side

PollCount == Poll("count", Incoming) /\ NoWrite /\ UNCHANGED side
PollFriends == Poll("friends", FriendsOf) /\ NoWrite /\ UNCHANGED side
OpenWindow == ~side.open /\ side' = ListsLoaded([side EXCEPT !.open = TRUE]) /\ Quiet
CloseWindow ==
  /\ side.open /\ Poll("count", Incoming)
  /\ side' = ListsLoaded([side EXCEPT !.open = FALSE]) /\ NoWrite

\* The server serves a call of the client, or refuses it.
Served1(k) ==
  LET o == k.with
  IN /\ k.at = "sent" /\ UNCHANGED side
     /\ \/ k.op = "add" /\ SendReads(Me, o) /\ UNCHANGED asked
        \/ k.op = "add" /\ SendWrites(Me, o) /\ Becomes(k, "ok", {})
        \/ k.op = "accept" /\ Accept(Me, o) /\ Becomes(k, "ok", {})
        \/ k.op = "drop" /\ Drop(Me, o) /\ Becomes(k, "ok", {})
        \/ k.op = "block" /\ Block(Me, o) /\ Becomes(k, "ok", {})
        \/ /\ \/ k.op = "add" /\ sends[<<Me, o>>] = Nobody /\ ~CanSend(Me, o)
              \/ k.op = "accept" /\ row[<<o, Me>>] # "pending"
              \/ k.op = "drop" /\ ~CanDrop(Me, o)
           /\ Becomes(k, "failed", {}) /\ NoWrite

\* The end of a handler of the window gives its buttons back, all of them.
Freed(k) == IF k.op \in {"accept", "drop"} THEN [side EXCEPT !.busy = Nobody] ELSE side
EndOf(k) == asked' = asked \ {k} /\ NoWrite

\* The answer has come; the handler reads the friends, or the lists, next.
Goes1(k) ==
  /\ k.at = "ok"
  /\ IF k.op = "drop" THEN side' = ListsLoaded(Freed(k)) /\ EndOf(k)
     ELSE Becomes(k, "friends", FriendsOf) /\ NoWrite /\ UNCHANGED side

CountCame(k) == k.at = "count" /\ side' = [side EXCEPT !.badge = Cardinality(k.read)] /\ EndOf(k)
FriendsCame(k) ==
  LET s == [Freed(k) EXCEPT !.friends = k.read]
  IN /\ k.at = "friends" /\ side' = IF k.op = "accept" THEN ListsLoaded(s) ELSE s
     /\ EndOf(k)
\* A refusal, or an answer that is lost.
NoAnswer(k) == k.at # "sent" /\ side' = Freed(k) /\ EndOf(k)

Answered1(k) == CountCame(k) \/ FriendsCame(k) \/ NoAnswer(k)

Sidebar ==
  \/ \E o \in Others : AddFriend(o) \/ PressEntry("accept", o) \/ PressEntry("drop", o) \/ BlockFriend(o)
  \/ PollCount \/ PollFriends \/ OpenWindow \/ CloseWindow
  \/ \E k \in asked : Served1(k) \/ Goes1(k) \/ Answered1(k)

FriendsNext == Elsewhere \/ Sidebar

-----------------------------------------------------------------------------
FriendsTypeOK ==
  /\ row \in [Pairs -> Relations] /\ sends \in [Pairs -> {Nobody, "plain", "mutual"}]
  /\ crossed \subseteq SUBSET People /\ side \in Sides /\ asked \subseteq Asked

\* A friendship is one on both sides, and no request waits beside it, unless
\* something was written while a request between the two was being sent.
FriendsBothWays ==
  \A p \in Pairs : row[p] = "accepted" /\ {p[1], p[2]} \notin crossed => row[<<p[2], p[1]>>] = "accepted"

\* Nothing of a user gets through to one who has blocked him, unless a
\* request was being sent when the block was placed.
BlockSilences ==
  \A p \in Pairs : row[p] = "blocked" /\ {p[1], p[2]} \notin crossed => row[<<p[2], p[1]>>] = "none"

\* The two rows of a pair agree, as far as requests were not crossed.
RelationsAgree == FriendsBothWays /\ BlockSilences

\* Once the server's rows rest, the sidebar comes to show the friends there
\* are and the number of requests that wait: whatever events were lost and in
\* whatever order the answers came.
SidebarSettles ==
  <>[][FALSE]_row =>
    <>[](side.friends = FriendsOf /\ side.badge = Cardinality(Incoming))
=============================================================================
