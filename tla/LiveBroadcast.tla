--------------------------- MODULE LiveBroadcast ---------------------------
(* A live room as its owner, the media server and the administrators see   *)
(* it: the row of the room, the hooks of the media server (SRS), the loops *)
(* that end abandoned broadcasts and rotate stale keys, the owner's studio *)
(* with the encoder (OBS), and the administration's rooms and reports.     *)
(*                                                                         *)
(* One room: rooms do not touch each other.  A step is one SQL statement,  *)
(* or one that only reads together with the statement it follows.  A task  *)
(* is a handler in progress, for a report with what the page does next.  A *)
(* list that an administrator looks at may be as old as can be: it offers  *)
(* what some state of the room offered.  A stream key is drawn at random   *)
(* and never drawn twice, so that whoever holds one holds the room's (the  *)
(* new) or an old one.                                                     *)
EXTENDS Naturals, FiniteSets

CONSTANTS MaxTasks,    \* tasks at once
          Nil

ASSUME LiveAssumption == MaxTasks \in Nat \ {0} /\ Nil \notin {"new", "old"}

VARIABLES
  row,         \* the room: status, and whether its key was drawn since the end
  srs,         \* the key under which the encoder publishes, or Nil (external)
  tasks,       \* handlers in progress
  card,        \* the room as the studio shows it, live or not, and its key, or Nil
  obs,         \* the key that was copied into the encoder
  report,      \* the report against the room
  seen,        \* what lists may show of the room: it was live, or banned, once
  acted,       \* history: the room was ended or banned for the report
  banned,      \* history: the last decision of an administrator
  crossed      \* history: what was disturbed by handlers beside each other

history == <<seen, acted, banned, crossed>>
vars == <<row, srs, tasks, card, obs, report, history>>

Keys == {"new", "old"}
Statuses == {"idle", "live", "ended", "banned", "gone"}
Ops == {"publish", "unpublish", "stop", "ban", "reconcile", "sweep"}
Tasks == [op : Ops, at : {"find", "live", "end", "read", "force", "release", "rotate", "resolve"},
          key : Keys \union {Nil}, for : {"nobody", "report"}]
Reports == {"none", "pending", "handled", "dismissed"}

Exists == row.status # "gone"
Running(op) == \E t \in tasks : t.op = op
\* What a crossing disturbs: the ban, the publisher, or the report.
Crossings(op) ==
  LET with == {{op, t.op} : t \in tasks}
  IN {x \in {"ban", "publisher"} :
        with \intersect (IF x = "ban" THEN {{"ban", "publish"}, {"ban", "reconcile"}}
                         ELSE {{"ban", "publish"}, {"publish", "unpublish"}, {"publish", "reconcile"}}) # {}}
Started(op, stage, key, for) ==
  /\ Cardinality(tasks) < MaxTasks
  /\ tasks' = tasks \union {[op |-> op, at |-> stage, key |-> key, for |-> for]}
Begin(op, stage, key) ==
  /\ Started(op, stage, key, "nobody")
  /\ crossed' = crossed \union Crossings(op)
  /\ UNCHANGED <<seen, acted, banned>>

At(t, op, stage) == t.op \in op /\ t.at = stage
Move(t, stage) == tasks' = (tasks \ {t}) \union {[t EXCEPT !.at = stage]}
End(t) == tasks' = tasks \ {t}

\* genStreamKey: every key that anybody holds is an old one from now on.
Stale(k) == IF k = Nil THEN Nil ELSE "old"
Redrawn(others) ==
  /\ row' = IF Exists THEN [row EXCEPT !.drawn = TRUE] ELSE row
  /\ srs' = Stale(srs) /\ obs' = Stale(obs)
  /\ tasks' = {[t EXCEPT !.key = Stale(t.key)] : t \in others}
CardKept == card' = IF card = Nil THEN Nil ELSE [card EXCEPT !.key = "old"]

Init ==
  /\ row = [status |-> "idle", drawn |-> FALSE]
  /\ srs = Nil /\ card = Nil /\ obs = Nil
  /\ tasks = {}
  /\ report = "none"
  /\ seen = {} /\ acted = FALSE /\ banned = FALSE /\ crossed = {}

-----------------------------------------------------------------------------
(* The media server *)

\* on_publish up to its first look at the room: a ban refuses.
Publish ==
  /\ srs = Nil /\ obs # Nil /\ ~Running("publish")
  /\ ~(obs = "new" /\ row.status = "banned")
  /\ Begin("publish", "find", obs)
  /\ UNCHANGED <<row, srs, card, obs, report>>

\* TryClaimPublisher finds the room by its key, without its status.
Claim(t) ==
  /\ At(t, {"publish"}, "find")
  /\ IF Exists /\ t.key = "new" THEN Move(t, "live") ELSE End(t)
  /\ UNCHANGED <<row, srs, card, obs, report, history>>

\* SetLive by the id of the room, whatever its status is by now.
SetLive(t) ==
  /\ At(t, {"publish"}, "live")
  /\ row' = IF Exists THEN [row EXCEPT !.status = "live"] ELSE row
  /\ srs' = t.key /\ End(t)
  /\ seen' = seen \union {"live"}
  /\ UNCHANGED <<card, obs, report, acted, banned, crossed>>

\* The encoder stops or is lost; the hook may be lost with it.
Unpublish ==
  /\ srs # Nil
  /\ srs' = Nil
  /\ \/ Begin("unpublish", "find", srs)
     \/ UNCHANGED <<tasks, history>>
  /\ UNCHANGED <<row, card, obs, report>>

UnpublishFound(t) ==
  /\ At(t, {"unpublish"}, "find")
  /\ IF Exists /\ t.key = "new" THEN Move(t, "end") ELSE End(t)
  /\ UNCHANGED <<row, srs, card, obs, report, history>>

-----------------------------------------------------------------------------
(* Ending a broadcast *)

\* Mutant: without the condition that the room is live.
SetEnded_Always(t) ==
  /\ At(t, {"unpublish", "stop", "ban"}, "end")
  /\ row' = IF Exists THEN [status |-> "ended", drawn |-> FALSE] ELSE row
  /\ IF t.op = "unpublish" THEN End(t) ELSE Move(t, "release")
  /\ UNCHANGED <<srs, card, obs, report, history>>

\* SetEnded, from on_unpublish and from endRoom, which goes on to the key.
SetEnded(t) ==
  /\ At(t, {"unpublish", "stop", "ban"}, "end")
  /\ row' = IF row.status = "live" THEN [status |-> "ended", drawn |-> FALSE] ELSE row
  /\ IF t.op = "unpublish" THEN End(t) ELSE Move(t, "release")
  /\ UNCHANGED <<srs, card, obs, report, history>>

\* ReleasePublisher; the publisher itself stays connected.  A page that acts
\* for a report goes on to resolve it.
Release(t) ==
  /\ At(t, {"stop", "ban", "reconcile"}, "release")
  /\ Redrawn((tasks \ {t}) \union (IF t.for = "report" THEN {[t EXCEPT !.at = "resolve"]} ELSE {}))
  /\ CardKept
  /\ acted' = (acted \/ t.for = "report")
  /\ UNCHANGED <<report, seen, banned, crossed>>

\* Every minute the loop asks SRS which streams it has; when it answers, the
\* rooms that are live are read, and those without a stream are ended.
Reconcile ==
  /\ ~Running("reconcile")
  /\ Begin("reconcile", "read", srs)
  /\ UNCHANGED <<row, srs, card, obs, report>>

\* Mutant: a room is taken for alive when it is not.
ReadLive_Spares(t) ==
  /\ At(t, {"reconcile"}, "read")
  /\ IF row.status = "live" /\ t.key = "old" THEN Move(t, "force") ELSE End(t)
  /\ UNCHANGED <<row, srs, card, obs, report, history>>

ReadLive(t) ==
  /\ At(t, {"reconcile"}, "read")
  /\ IF row.status = "live" /\ t.key # "new" THEN Move(t, "force") ELSE End(t)
  /\ UNCHANGED <<row, srs, card, obs, report, history>>

\* ForceEnd has no condition on the status; an end that is known is kept.
ForceEnd(t) ==
  /\ At(t, {"reconcile"}, "force")
  /\ row' = IF row.status \in {"ended", "gone"} THEN row ELSE [status |-> "ended", drawn |-> FALSE]
  /\ Move(t, "release")
  /\ UNCHANGED <<srs, card, obs, report, history>>

\* RotateAbandonedStreamKeys: selected, then updated if it still matches.
Sweep ==
  /\ row.status = "ended" /\ ~row.drawn /\ ~Running("sweep")
  /\ Begin("sweep", "rotate", Nil)
  /\ UNCHANGED <<row, srs, card, obs, report>>

Rotate(t) ==
  /\ At(t, {"sweep"}, "rotate")
  /\ IF row.status = "ended" /\ ~row.drawn THEN Redrawn(tasks \ {t}) /\ CardKept
     ELSE End(t) /\ UNCHANGED <<row, srs, obs, card>>
  /\ UNCHANGED <<report, history>>

-----------------------------------------------------------------------------
(* The owner's studio *)

Shown(key) == IF Exists THEN [live |-> row.status = "live", key |-> key] ELSE Nil

\* The studio opens: the list, then the key of the room, which is only read then.
OpenStudio ==
  /\ card' = Shown("new")
  /\ UNCHANGED <<row, srs, tasks, obs, report, history>>

\* refresh(): after a change, and when a ban is announced.
RefreshStudio ==
  /\ card # Nil
  /\ card' = Shown(card.key)
  /\ UNCHANGED <<row, srs, tasks, obs, report, history>>

\* The card's key goes into the encoder, which is not publishing.
CopyKey ==
  /\ card # Nil /\ srs = Nil /\ ~Running("publish")
  /\ obs' = card.key
  /\ UNCHANGED <<row, srs, tasks, card, report, history>>

\* rotate(): the new key is loaded, the list is not.
RotateKey ==
  /\ card # Nil /\ Exists
  /\ Redrawn(tasks) /\ card' = [card EXCEPT !.key = "new"]
  /\ UNCHANGED <<report, history>>

\* The preview's button to end the broadcast, of a room that was shown live.
Stop ==
  /\ card # Nil /\ card.live /\ Exists
  /\ Begin("stop", "end", Nil)
  /\ UNCHANGED <<row, srs, card, obs, report>>

Remove ==
  /\ card # Nil /\ Exists
  /\ row' = [row EXCEPT !.status = "gone"] /\ card' = Nil
  /\ UNCHANGED <<srs, tasks, obs, report, history>>

-----------------------------------------------------------------------------
(* Viewers and administrators *)

\* One pending report for a viewer and a reason.
ReportRoom ==
  /\ Exists /\ report = "none"
  /\ report' = "pending"
  /\ UNCHANGED <<row, srs, tasks, card, obs, history>>

\* What the lists of the administration offer: of the rooms, and of a report.
RoomOffers ==
  {"ban", "delete"} \union (IF "live" \in seen THEN {"stop"} ELSE {})
                   \union (IF "banned" \in seen THEN {"unban"} ELSE {})
ReportOffers ==
  IF report = "none" THEN {}
  ELSE {"ban", "dismiss"} \union (IF "live" \in seen THEN {"stop"} ELSE {})
Offers(for) == IF for = "report" THEN ReportOffers ELSE RoomOffers

\* An administrator acts for a report that another one has closed meanwhile.
Late(for) == IF for = "report" /\ report # "pending" THEN {"report"} ELSE {}

ForceEndLive(for) ==
  /\ "stop" \in Offers(for) /\ Exists
  /\ Started("stop", "end", Nil, for)
  /\ crossed' = crossed \union Crossings("stop") \union Late(for)
  /\ UNCHANGED <<row, srs, card, obs, report, seen, acted, banned>>

Ban(for) ==
  /\ "ban" \in Offers(for) /\ Exists
  /\ row' = [row EXCEPT !.status = "banned"]
  /\ banned' = TRUE /\ seen' = seen \union {"banned"}
  /\ Started("ban", "end", Nil, for)
  /\ crossed' = crossed \union Crossings("ban") \union Late(for)
  /\ UNCHANGED <<srs, card, obs, report, acted>>

\* Lifting a ban ends the room, banned or not.
Unban ==
  /\ "unban" \in RoomOffers /\ Exists
  /\ row' = [row EXCEPT !.status = "ended"]
  /\ banned' = FALSE
  /\ crossed' = crossed \union
       (IF row.status # "banned" \/ Running("publish") THEN {"publisher"} ELSE {})
  /\ UNCHANGED <<srs, tasks, card, obs, report, seen, acted>>

DeleteRoom ==
  /\ "delete" \in RoomOffers /\ Exists
  /\ row' = [row EXCEPT !.status = "gone"]
  /\ UNCHANGED <<srs, tasks, card, obs, report, history>>

\* Mutant: the report is closed whether or not it is still open.
Resolve_Again(t) ==
  /\ At(t, {"stop", "ban"}, "resolve")
  /\ report' = "dismissed" /\ End(t)
  /\ UNCHANGED <<row, srs, card, obs, history>>

\* ResolveReport closes a pending report only.
Resolve(t) ==
  /\ At(t, {"stop", "ban"}, "resolve")
  /\ report' = IF report = "pending" THEN "handled" ELSE report
  /\ End(t)
  /\ UNCHANGED <<row, srs, card, obs, history>>

Dismiss ==
  /\ "dismiss" \in ReportOffers /\ report = "pending"
  /\ report' = "dismissed"
  /\ crossed' = crossed \union (IF \E t \in tasks : t.for = "report" THEN {"report"} ELSE {})
  /\ UNCHANGED <<row, srs, tasks, card, obs, seen, acted, banned>>

-----------------------------------------------------------------------------
Owner == OpenStudio \/ RefreshStudio \/ CopyKey \/ RotateKey \/ Stop \/ Remove
Admin == (\E for \in {"nobody", "report"} : ForceEndLive(for) \/ Ban(for))
           \/ Unban \/ DeleteRoom \/ Dismiss
Step(t) == Claim(t) \/ SetLive(t) \/ UnpublishFound(t) \/ SetEnded(t) \/ Release(t)
             \/ ReadLive(t) \/ ForceEnd(t) \/ Rotate(t) \/ Resolve(t)
Proceed(op) == \E t \in tasks : t.op = op /\ Step(t)

Next ==
  \/ Publish \/ Unpublish \/ Reconcile \/ Sweep \/ Owner \/ ReportRoom \/ Admin
  \/ \E op \in Ops : Proceed(op)

\* Handlers go on, and the loop runs again and again.
Spec == Init /\ [][Next]_vars /\ (\A op \in Ops : WF_vars(Proceed(op))) /\ SF_vars(Reconcile)

-----------------------------------------------------------------------------
TypeOK ==
  /\ row \in [status : Statuses, drawn : BOOLEAN]
  /\ srs \in Keys \union {Nil} /\ obs \in Keys \union {Nil}
  /\ tasks \subseteq Tasks /\ Cardinality(tasks) <= MaxTasks
  /\ card \in [live : BOOLEAN, key : Keys] \union {Nil}
  /\ report \in Reports /\ seen \subseteq {"live", "banned"}
  /\ acted \in BOOLEAN /\ banned \in BOOLEAN
  /\ crossed \subseteq {"ban", "publisher", "report"}

\* A room that was banned last stays banned, unless a publication or the
\* reconciliation was under way when it was banned.
BanHolds ==
  banned /\ "ban" \notin crossed => row.status \in {"banned", "gone"}

\* An encoder that publishes under the room's key is seen: the room is live,
\* unless handlers crossed or a ban was lifted that was not there.
PublisherIsLive ==
  tasks = {} /\ srs = "new" /\ Exists /\ "publisher" \notin crossed => row.status = "live"

\* The status of the room is what the last of ban and stream made it.
StatusFits == BanHolds /\ PublisherIsLive

\* What a report says of the room was done: handled means that somebody ended
\* or banned the room for it, dismissed that nobody did, unless another
\* administrator was at it.
ReportTellsAction ==
  /\ report = "handled" => acted
  /\ report = "dismissed" /\ "report" \notin crossed => ~acted

\* A room without its encoder does not stay live: the hook, or the loop, ends it.
ZombieEnds == []<>(row.status = "live" => srs = "new")
=============================================================================
