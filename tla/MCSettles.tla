----------------------------- MODULE MCSettles -----------------------------
(* The places of the client that are to come to rest by themselves: the    *)
(* list of the live rooms with the follow button, the player, and the      *)
(* sidebar of friends.  They share no state that more than one of them     *)
(* writes: a behaviour is one of them while the others rest.               *)
EXTENDS LiveRooms, LivePlayer, Friends

VARIABLE part  \* the one that moves

vars == <<part, roomsVars, playerVars, friendsVars>>

Init ==
  /\ part \in {"rooms", "player", "friends"} /\ RoomsInit /\ PlayerInit /\ FriendsInit
  /\ part # "player" => stream

OfRooms(A) == part = "rooms" /\ A /\ UNCHANGED <<part, playerVars, friendsVars>>
OfPlayer(A) == part = "player" /\ A /\ UNCHANGED <<part, roomsVars, friendsVars>>
OfFriends(A) == part = "friends" /\ A /\ UNCHANGED <<part, roomsVars, playerVars>>

Next == OfRooms(RoomsNext) \/ OfPlayer(PlayerNext) \/ OfFriends(FriendsNext)

\* Requests are answered or fail, timers fire, and a player that loads with an
\* address that is refused learns of it.
PlayerFairness ==
  /\ WF_vars(OfPlayer(DetailCame)) /\ WF_vars(OfPlayer(RefreshDone)) /\ WF_vars(OfPlayer(StartLoad))
  /\ WF_vars(OfPlayer(player.engine = "loading" /\ Outcome))

\* The timers of the sidebar keep running, and their reads come back sooner or
\* later; what other reads bring is owed by nobody.
FriendsFairness ==
  /\ SF_vars(OfFriends(PollCount)) /\ SF_vars(OfFriends(PollFriends))
  /\ SF_vars(OfFriends(\E k \in asked : CountCame(k)))
  /\ SF_vars(OfFriends(\E k \in asked : k.op = "poll" /\ FriendsCame(k)))

Spec == Init /\ [][Next]_vars /\ PlayerFairness /\ FriendsFairness
=============================================================================
