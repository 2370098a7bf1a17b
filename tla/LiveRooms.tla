----------------------------- MODULE LiveRooms -----------------------------
(* What the live page asks of the server by requests: the list of the      *)
(* rooms with its filter (Discover), and the follow button of a room that  *)
(* is watched (Watch).  The state of a page goes when the page goes, and   *)
(* the answers to its requests go unheard; what the requests do at the     *)
(* server is done.                                                         *)
CONSTANTS Rooms, Filters, Nil

ASSUME RoomsAssumption == Nil \notin Rooms \union Filters /\ Filters # {}

VARIABLES
  active,      \* the room that is watched, or Nil: the list is shown
  disc,        \* the list: its filter, the filter of what it shows, its requests
  follows,     \* the rooms that the user follows
  heart,       \* the follow button: what it shows, its status request
  presses,     \* requests to follow or unfollow
  raced        \* history: a press beside the status request, or another press

roomsVars == <<active, disc, follows, heart, presses, raced>>

\* The list keeps its first request and those of its interval apart from those
\* of its filter: only the latter are dropped when the filter changes.
Lists == [filter : Filters, shows : Filters \union {Nil}, asked : Filters \union {Nil},
          first : BOOLEAN, refresh : SUBSET Filters, failed : BOOLEAN, slow : BOOLEAN]
Hearts == [shows : BOOLEAN, status : {"none", "asked", "yes", "no"}]
\* A press that is not "mine" is of a page that is gone.
Presses == [op : {"follow", "unfollow"}, room : Rooms, done : BOOLEAN, mine : BOOLEAN]

AnyFilter == CHOOSE f \in Filters : TRUE
Opened == [filter |-> AnyFilter, shows |-> Nil, asked |-> Nil,
           first |-> TRUE, refresh |-> {}, failed |-> FALSE, slow |-> FALSE]
\* Before the first answer there is a spinner, after an error nothing but it.
Usable == active = Nil /\ disc.shows # Nil /\ ~disc.failed

RoomsInit ==
  /\ active = Nil /\ disc = Opened
  /\ follows = {} /\ heart = [shows |-> FALSE, status |-> "none"] /\ presses = {}
  /\ raced = FALSE

-----------------------------------------------------------------------------
(* From page to page *)

\* Watch mounts and asks for the follow status.
Open(r) ==
  /\ Usable
  /\ active' = r /\ disc' = Nil
  /\ heart' = [heart EXCEPT !.status = "asked"]
  /\ raced' = (presses # {})
  /\ UNCHANGED <<follows, presses>>

Leave ==
  /\ active # Nil
  /\ active' = Nil /\ disc' = Opened
  /\ heart' = [shows |-> FALSE, status |-> "none"]
  /\ presses' = {[p EXCEPT !.mine = FALSE] : p \in {q \in presses : ~q.done}}
  /\ raced' = FALSE /\ UNCHANGED follows

-----------------------------------------------------------------------------
(* Discover *)

InList(d) ==
  /\ active = Nil /\ disc' = d
  /\ UNCHANGED <<active, follows, heart, presses, raced>>

\* Typing (debounced) or a category.
ChangeFilter(f) ==
  /\ Usable /\ f # disc.filter
  /\ InList([disc EXCEPT !.filter = f, !.asked = f,
                         !.slow = @ \/ disc.first \/ disc.refresh # {}])

\* The other tab and back: the list starts again.
Reopen == active = Nil /\ InList(Opened)

\* The unfiltered list, whatever the filter is by then; or its error.
FirstCame ==
  /\ active = Nil /\ disc.first
  /\ \/ InList([disc EXCEPT !.first = FALSE, !.shows = AnyFilter])
     \/ InList([disc EXCEPT !.first = FALSE, !.failed = TRUE])

\* Every 30 s, and when the window is looked at again.
RefreshList ==
  /\ active = Nil
  /\ InList([disc EXCEPT !.refresh = @ \union {disc.filter}])

\* The answer to the last change of the filter, or its error.
FilterAnswered ==
  /\ active = Nil /\ disc.asked # Nil
  /\ \/ InList([disc EXCEPT !.shows = disc.asked, !.asked = Nil])
     \/ InList([disc EXCEPT !.asked = Nil, !.failed = TRUE])

\* A refresh is answered, for the filter it was asked with; an error is silent.
RefreshAnswered(f) ==
  /\ active = Nil /\ f \in disc.refresh
  /\ \/ InList([disc EXCEPT !.shows = f, !.refresh = @ \ {f}])
     \/ InList([disc EXCEPT !.refresh = @ \ {f}])

-----------------------------------------------------------------------------
(* The follow button *)

Follows(h, ps, race) ==
  /\ heart' = h /\ presses' = ps /\ raced' = (raced \/ race)
  /\ UNCHANGED <<active, disc>>

StatusRead ==
  /\ heart.status = "asked"
  /\ Follows([heart EXCEPT !.status = IF active \in follows THEN "yes" ELSE "no"], presses, FALSE)
  /\ UNCHANGED follows

StatusShown ==
  /\ heart.status \in {"yes", "no"}
  /\ Follows([shows |-> heart.status = "yes", status |-> "none"], presses, presses # {})
  /\ UNCHANGED follows

\* toggleFollow, by what the button shows; nothing disables it.
Press ==
  /\ active # Nil
  /\ Follows(heart, presses \union {[op |-> IF heart.shows THEN "unfollow" ELSE "follow",
                                     room |-> active, done |-> FALSE, mine |-> TRUE]},
             heart.status # "none" \/ presses # {})
  /\ UNCHANGED follows

PressServed(p) ==
  /\ p \in presses /\ ~p.done
  /\ follows' = IF p.op = "follow" THEN follows \union {p.room} ELSE follows \ {p.room}
  /\ Follows(heart, (presses \ {p}) \union (IF p.mine THEN {[p EXCEPT !.done = TRUE]} ELSE {}), FALSE)

\* Mutant: the button is changed however the request ends.
PressFails_Shown(p) ==
  /\ p \in presses /\ ~p.done
  /\ Follows([heart EXCEPT !.shows = IF p.mine THEN p.op = "follow" ELSE @], presses \ {p}, FALSE)
  /\ UNCHANGED follows

\* The request fails, which is only told.
PressFails(p) ==
  /\ p \in presses /\ ~p.done
  /\ Follows(heart, presses \ {p}, FALSE)
  /\ UNCHANGED follows

PressShown(p) ==
  /\ p \in presses /\ p.done
  /\ Follows([heart EXCEPT !.shows = (p.op = "follow")], presses \ {p}, FALSE)
  /\ UNCHANGED follows

-----------------------------------------------------------------------------
List == Reopen \/ FirstCame \/ RefreshList \/ FilterAnswered \/ \E f \in Filters : ChangeFilter(f) \/ RefreshAnswered(f)
Follow == StatusRead \/ StatusShown \/ Press
            \/ \E p \in presses : PressServed(p) \/ PressFails(p) \/ PressShown(p)
RoomsNext == (\E r \in Rooms : Open(r)) \/ Leave \/ List \/ Follow

-----------------------------------------------------------------------------
RoomsTypeOK ==
  /\ active \in Rooms \union {Nil}
  /\ IF active = Nil THEN disc \in Lists ELSE disc = Nil
  /\ follows \subseteq Rooms /\ heart \in Hearts /\ presses \subseteq Presses /\ raced \in BOOLEAN

\* At rest the button shows whether the room is followed, unless it was
\* pressed beside another request.
FollowShown ==
  active # Nil /\ heart.status = "none" /\ presses = {} /\ ~raced
    => (heart.shows <=> active \in follows)

\* The list shows what its filter asks for, once nothing is on its way and
\* nothing failed, unless another request was under way when it changed.
ListFitsFilter ==
  active = Nil /\ ~disc.first /\ disc.asked = Nil /\ disc.refresh = {} /\ ~disc.slow /\ ~disc.failed
    => disc.shows = disc.filter

\* What the page shows of the server's answers fits what it asked for.
RoomsAgree == FollowShown /\ ListFitsFilter
=============================================================================
