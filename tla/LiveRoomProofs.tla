--------------------------- MODULE LiveRoomProofs ---------------------------
(* Proofs about one live room, for any number of handlers at once: bans    *)
(* hold, publishers are shown live, and reports tell what was done.  And   *)
(* about one viewer, for any numbers of rooms, danmaku and frames on their *)
(* way: subscribed to what is watched, and the whole chat is shown.        *)
EXTENDS LiveBroadcast, LiveWatch, FiniteSetTheorems, TLAPS

-----------------------------------------------------------------------------
(* The room.                                                               *)

(* TypeOK without the bound on the tasks, which needs sets to be counted.  *)
Typed ==
  /\ row \in [status : Statuses, drawn : BOOLEAN]
  /\ srs \in Keys \union {Nil} /\ obs \in Keys \union {Nil}
  /\ tasks \subseteq Tasks
  /\ card \in [live : BOOLEAN, key : Keys] \union {Nil}
  /\ report \in Reports /\ seen \subseteq {"live", "banned"}
  /\ acted \in BOOLEAN /\ banned \in BOOLEAN
  /\ crossed \subseteq {"ban", "publisher", "report"}

(* Only bans and stops are for a report, and only after them is it resolved. *)
Stages ==
  \A t \in tasks : /\ t.for = "report" => t.op \in {"stop", "ban"} /\ report # "none"
                   /\ t.at = "resolve" => t.for = "report" /\ acted

(* A report that is dismissed under an administrator who acts for it is    *)
(* noted, and one that was acted for is about to be resolved.              *)
ReportKept ==
  /\ report = "dismissed" /\ "report" \notin crossed => \A t \in tasks : t.for # "report"
  /\ acted => report # "none"
  /\ acted /\ report = "pending" => \E t \in tasks : t.for = "report"

(* After a ban nobody is about to make the room live, or to end it.        *)
BanKept ==
  banned /\ "ban" \notin crossed /\ row.status = "banned"
    => \A t \in tasks : /\ t.op = "publish" => t.at # "live" /\ t.key # "new"
                        /\ t.op = "reconcile" => t.at # "force"

(* The encoder publishes once, and ends what it publishes before it does   *)
(* again, unless that is noted.                                            *)
OnePublisher ==
  /\ \A t, u \in tasks : t.op = "publish" /\ u.op = "publish" => t = u
  /\ srs # Nil => ~Running("publish")
  /\ "publisher" \notin crossed => ~(Running("unpublish") /\ (srs # Nil \/ Running("publish")))

(* A publisher of a room that is not live is about to lose its key.        *)
Releasing(t) ==
  \/ t.op \in {"stop", "ban"} /\ t.at \in {"end", "release"}
  \/ t.op = "reconcile" /\ t.at = "release"
LosesKey ==
  "publisher" \notin crossed /\ srs = "new" /\ Exists /\ row.status # "live"
    => \E t \in tasks : Releasing(t)

ReportInv == Stages /\ ReportKept /\ ReportTellsAction
BanInv == BanHolds /\ BanKept
StreamInv == OnePublisher /\ LosesKey

(* What a task may be at. *)
Ats == {"find", "live", "end", "read", "force", "release", "rotate", "resolve"}

USE LiveAssumption

-----------------------------------------------------------------------------
(* Tasks, and the keys that are drawn again.                               *)

LEMMA TaskFields ==
  ASSUME NEW t \in Tasks, NEW stage \in Ats
  PROVE  /\ [t EXCEPT !.at = stage] \in Tasks
         /\ [t EXCEPT !.at = stage].op = t.op
         /\ [t EXCEPT !.at = stage].at = stage
         /\ [t EXCEPT !.at = stage].key = t.key
         /\ [t EXCEPT !.at = stage].for = t.for
  BY DEF Tasks, Ats

LEMMA StaleKey ==
  ASSUME NEW k \in Keys \union {Nil}
  PROVE  /\ Stale(k) \in Keys \union {Nil} /\ Stale(k) # "new"
         /\ Stale(k) = Nil <=> k = Nil
  BY DEF Stale, Keys

LEMMA StaleTask ==
  ASSUME NEW t \in Tasks
  PROVE  LET u == [t EXCEPT !.key = Stale(t.key)]
         IN  u \in Tasks /\ u.op = t.op /\ u.at = t.at /\ u.for = t.for /\ u.key = Stale(t.key)
  <1>1. t.key \in Keys \union {Nil}
    BY DEF Tasks
  <1> QED
    BY <1>1, StaleKey DEF Tasks

\* What a new key leaves of everything.
LEMMA Redraws ==
  ASSUME Typed, NEW others \in SUBSET Tasks, Redrawn(others)
  PROVE  /\ row' \in [status : Statuses, drawn : BOOLEAN] /\ row'.status = row.status
         /\ srs' \in Keys \union {Nil} /\ srs' # "new" /\ (srs' = Nil <=> srs = Nil)
         /\ obs' \in Keys \union {Nil}
         /\ tasks' \subseteq Tasks
         /\ \A u \in tasks' : /\ u.key # "new"
                              /\ \E t \in others : u.op = t.op /\ u.at = t.at /\ u.for = t.for
         /\ \A t \in others : \E u \in tasks' : u.op = t.op /\ u.at = t.at /\ u.for = t.for
  <1>1. row' \in [status : Statuses, drawn : BOOLEAN] /\ row'.status = row.status
    BY DEF Redrawn, Typed
  <1>2. /\ srs' \in Keys \union {Nil} /\ srs' # "new" /\ (srs' = Nil <=> srs = Nil)
        /\ obs' \in Keys \union {Nil}
    BY StaleKey DEF Redrawn, Typed
  <1>3. tasks' = {[t EXCEPT !.key = Stale(t.key)] : t \in others}
    BY DEF Redrawn
  <1>4. ASSUME NEW t \in others
        PROVE  LET u == [t EXCEPT !.key = Stale(t.key)]
               IN  u \in Tasks /\ u.op = t.op /\ u.at = t.at /\ u.for = t.for /\ u.key # "new"
    <2>1. t \in Tasks /\ t.key \in Keys \union {Nil}
      BY DEF Tasks
    <2> QED
      BY <2>1, StaleTask, StaleKey
  <1>5. /\ tasks' \subseteq Tasks
        /\ \A u \in tasks' : /\ u.key # "new"
                             /\ \E t \in others : u.op = t.op /\ u.at = t.at /\ u.for = t.for
        /\ \A t \in others : \E u \in tasks' : u.op = t.op /\ u.at = t.at /\ u.for = t.for
    BY <1>3, <1>4
  <1> QED
    BY <1>1, <1>2, <1>5

-----------------------------------------------------------------------------
(* The steps, one by one.                                                  *)

LEMMA CrossingKinds ==
  ASSUME NEW op
  PROVE  Crossings(op) \subseteq {"ban", "publisher"}
  BY DEF Crossings

\* What the end of endRoom leaves of the tasks, but for their keys.
After(t) == (tasks \ {t}) \union (IF t.for = "report" THEN {[t EXCEPT !.at = "resolve"]} ELSE {})

LEMMA Releases ==
  ASSUME Typed, NEW t \in tasks, Release(t)
  PROVE  /\ After(t) \in SUBSET Tasks /\ Redrawn(After(t))
         /\ \A u \in After(t) : \/ u \in tasks /\ u # t
                                \/ u.op = t.op /\ u.at = "resolve" /\ u.for = "report" /\ t.for = "report"
         /\ t.for = "report" => \E u \in After(t) : u.for = "report"
  <1>1. t \in Tasks /\ tasks \subseteq Tasks
    BY DEF Typed
  <1>2. /\ [t EXCEPT !.at = "resolve"] \in Tasks
        /\ [t EXCEPT !.at = "resolve"].op = t.op
        /\ [t EXCEPT !.at = "resolve"].at = "resolve"
        /\ [t EXCEPT !.at = "resolve"].for = t.for
    BY <1>1, TaskFields DEF Ats
  <1> QED
    BY <1>1, <1>2 DEF Release, After

\* A handler that goes on.
LEMMA Moves ==
  ASSUME Typed, NEW t \in tasks, NEW stage \in Ats, Move(t, stage)
  PROVE  /\ tasks' \subseteq Tasks
         /\ \E u \in Tasks : /\ tasks' = (tasks \ {t}) \union {u}
                             /\ u.op = t.op /\ u.at = stage /\ u.key = t.key /\ u.for = t.for
  <1>1. t \in Tasks /\ tasks \subseteq Tasks
    BY DEF Typed
  <1> DEFINE u == [t EXCEPT !.at = stage]
  <1>2. u \in Tasks /\ u.op = t.op /\ u.at = stage /\ u.key = t.key /\ u.for = t.for
    BY <1>1, TaskFields
  <1>3. tasks' = (tasks \ {t}) \union {u}
    BY DEF Move
  <1> HIDE DEF u
  <1> QED
    BY <1>1, <1>2, <1>3

(* Types. *)
LEMMA TypedKept == Typed /\ [Next]_vars => Typed'
  <1> SUFFICES ASSUME Typed, [Next]_vars PROVE Typed'
    OBVIOUS
  <1>1. CASE Publish
    <2>1. tasks' = tasks \union {[op |-> "publish", at |-> "find", key |-> obs, for |-> "nobody"]}
      BY <1>1 DEF Publish, Begin, Started
    <2>2. UNCHANGED <<row, srs, card, obs, report, seen, acted, banned>>
      BY <1>1 DEF Publish, Begin
    <2>3. crossed' \subseteq crossed \union {"ban", "publisher"}
      BY <1>1, CrossingKinds DEF Publish, Begin
    <2> QED
      BY <2>1, <2>2, <2>3 DEF Typed, Tasks, Ops, Keys
  <1>2. CASE Unpublish
    <2>1. srs' = Nil /\ UNCHANGED <<row, card, obs, report, seen, acted, banned>>
      BY <1>2 DEF Unpublish, Begin, history
    <2>2. CASE Begin("unpublish", "find", srs)
      <3>1. tasks' = tasks \union {[op |-> "unpublish", at |-> "find", key |-> srs, for |-> "nobody"]}
        BY <2>2 DEF Begin, Started
      <3>2. crossed' = crossed \union Crossings("unpublish")
        BY <2>2 DEF Begin
      <3>3. crossed' \subseteq crossed \union {"ban", "publisher"}
        BY <3>2, CrossingKinds
      <3> QED
        BY <1>2, <2>1, <3>1, <3>3 DEF Unpublish, Typed, Tasks, Ops, Keys
    <2>3. CASE UNCHANGED <<tasks, history>>
      BY <1>2, <2>1, <2>3 DEF Unpublish, history, Typed, Tasks, Ops, Keys
    <2> QED
      BY <1>2, <2>2, <2>3 DEF Unpublish
  <1>3. ASSUME NEW t \in tasks, Claim(t) PROVE Typed'
    BY <1>3, Moves DEF Claim, Typed, At, End, Ats, Statuses, history
  <1>4. ASSUME NEW t \in tasks, SetLive(t) PROVE Typed'
    BY <1>4 DEF SetLive, At, End, Typed, history, Statuses, Tasks
  <1>5. ASSUME NEW t \in tasks, UnpublishFound(t) PROVE Typed'
    BY <1>5, Moves DEF UnpublishFound, Typed, At, End, Ats, Statuses, history
  <1>6. ASSUME NEW t \in tasks, SetEnded(t) PROVE Typed'
    BY <1>6, Moves DEF SetEnded, Typed, At, End, Ats, Statuses, history
  <1>7. ASSUME NEW t \in tasks, Release(t) PROVE Typed'
    <2>1. After(t) \in SUBSET Tasks /\ Redrawn(After(t))
      BY <1>7, Releases
    <2>2. card' \in [live : BOOLEAN, key : Keys] \union {Nil}
      BY <1>7 DEF Release, CardKept, Typed, Keys
    <2> QED
      BY <1>7, <2>1, <2>2, Redraws DEF Release, Typed
  <1>8. CASE Reconcile
    <2>1. tasks' = tasks \union {[op |-> "reconcile", at |-> "read", key |-> srs, for |-> "nobody"]}
      BY <1>8 DEF Reconcile, Begin, Started
    <2>2. UNCHANGED <<row, srs, card, obs, report, seen, acted, banned>>
      BY <1>8 DEF Reconcile, Begin
    <2>3. crossed' \subseteq crossed \union {"ban", "publisher"}
      BY <1>8, CrossingKinds DEF Reconcile, Begin
    <2> QED
      BY <2>1, <2>2, <2>3 DEF Typed, Tasks, Ops, Keys
  <1>9. ASSUME NEW t \in tasks, ReadLive(t) PROVE Typed'
    BY <1>9, Moves DEF ReadLive, Typed, At, End, Ats, Statuses, history
  <1>10. ASSUME NEW t \in tasks, ForceEnd(t) PROVE Typed'
    BY <1>10, Moves DEF ForceEnd, Typed, At, End, Ats, Statuses, history
  <1>11. CASE Sweep
    <2>1. tasks' = tasks \union {[op |-> "sweep", at |-> "rotate", key |-> Nil, for |-> "nobody"]}
      BY <1>11 DEF Sweep, Begin, Started
    <2>2. UNCHANGED <<row, srs, card, obs, report, seen, acted, banned>>
      BY <1>11 DEF Sweep, Begin
    <2>3. crossed' \subseteq crossed \union {"ban", "publisher"}
      BY <1>11, CrossingKinds DEF Sweep, Begin
    <2> QED
      BY <2>1, <2>2, <2>3 DEF Typed, Tasks, Ops, Keys
  <1>12. ASSUME NEW t \in tasks, Rotate(t) PROVE Typed'
    <2>1. CASE Redrawn(tasks \ {t}) /\ CardKept
      <3>1. card' \in [live : BOOLEAN, key : Keys] \union {Nil}
        BY <2>1 DEF CardKept, Typed, Keys
      <3> QED
        BY <1>12, <2>1, <3>1, Redraws DEF Rotate, Typed, history
    <2>2. CASE End(t) /\ UNCHANGED <<row, srs, obs, card>>
      BY <1>12, <2>2 DEF Rotate, Typed, End, history
    <2> QED
      BY <1>12, <2>1, <2>2 DEF Rotate
  <1>13. CASE OpenStudio
    BY <1>13 DEF OpenStudio, Shown, Typed, history, Keys
  <1>14. CASE RefreshStudio
    BY <1>14 DEF RefreshStudio, Shown, Typed, history
  <1>15. CASE CopyKey
    BY <1>15 DEF CopyKey, Typed, history
  <1>16. CASE RotateKey
    <2>1. Redrawn(tasks) /\ card' = [card EXCEPT !.key = "new"] /\ card # Nil
      BY <1>16 DEF RotateKey
    <2> QED
      BY <1>16, <2>1, Redraws DEF RotateKey, Typed, Keys, history
  <1>17. CASE Stop
    <2>1. tasks' = tasks \union {[op |-> "stop", at |-> "end", key |-> Nil, for |-> "nobody"]}
      BY <1>17 DEF Stop, Begin, Started
    <2>2. UNCHANGED <<row, srs, card, obs, report, seen, acted, banned>>
      BY <1>17 DEF Stop, Begin
    <2>3. crossed' \subseteq crossed \union {"ban", "publisher"}
      BY <1>17, CrossingKinds DEF Stop, Begin
    <2> QED
      BY <2>1, <2>2, <2>3 DEF Typed, Tasks, Ops, Keys
  <1>18. CASE Remove
    BY <1>18 DEF Remove, Typed, history, Statuses
  <1>19. CASE ReportRoom
    BY <1>19 DEF ReportRoom, Typed, history, Reports
  <1>20. ASSUME NEW for \in {"nobody", "report"}, ForceEndLive(for) PROVE Typed'
    <2>1. tasks' = tasks \union {[op |-> "stop", at |-> "end", key |-> Nil, for |-> for]}
      BY <1>20 DEF ForceEndLive, Started
    <2>2. tasks' \subseteq Tasks
      BY <2>1 DEF Typed, Tasks, Ops
    <2>3. crossed' \subseteq {"ban", "publisher", "report"}
      BY <1>20, CrossingKinds DEF ForceEndLive, Late, Typed
    <2> QED
      BY <1>20, <2>2, <2>3 DEF ForceEndLive, Typed, Statuses
  <1>21. ASSUME NEW for \in {"nobody", "report"}, Ban(for) PROVE Typed'
    <2>1. tasks' = tasks \union {[op |-> "ban", at |-> "end", key |-> Nil, for |-> for]}
      BY <1>21 DEF Ban, Started
    <2>2. tasks' \subseteq Tasks
      BY <2>1 DEF Typed, Tasks, Ops
    <2>3. crossed' \subseteq {"ban", "publisher", "report"}
      BY <1>21, CrossingKinds DEF Ban, Late, Typed
    <2> QED
      BY <1>21, <2>2, <2>3 DEF Ban, Typed, Statuses
  <1>22. CASE Unban
    BY <1>22 DEF Unban, Typed, history, Statuses
  <1>23. CASE DeleteRoom
    BY <1>23 DEF DeleteRoom, Typed, history, Statuses
  <1>24. ASSUME NEW t \in tasks, Resolve(t) PROVE Typed'
    BY <1>24 DEF Resolve, At, End, Typed, history, Reports
  <1>25. CASE Dismiss
    BY <1>25 DEF Dismiss, Typed, history, Reports
  <1>0. CASE UNCHANGED vars
    BY <1>0 DEF vars, history, Typed
  <1> QED
    BY <1>0, <1>1, <1>2, <1>3, <1>4, <1>5, <1>6, <1>7, <1>8, <1>9, <1>10, <1>11, <1>12,
       <1>13, <1>14, <1>15, <1>16, <1>17, <1>18, <1>19, <1>20, <1>21, <1>22, <1>23, <1>24, <1>25
    DEF Next, Owner, Admin, Proceed, Step

(* Reports. *)
LEMMA ReportKeeps == Typed /\ ReportInv /\ [Next]_vars => ReportInv'
  <1> SUFFICES ASSUME Typed /\ ReportInv, [Next]_vars PROVE ReportInv'
    OBVIOUS
  <1>1. CASE Publish
    <2>1. tasks' = tasks \union {[op |-> "publish", at |-> "find", key |-> obs, for |-> "nobody"]}
      BY <1>1 DEF Publish, Begin, Started
    <2>2. UNCHANGED <<row, srs, card, obs, report, seen, acted, banned>>
      BY <1>1 DEF Publish, Begin
    <2>3. crossed' = crossed \union Crossings("publish")
      BY <1>1 DEF Publish, Begin
    <2> QED
      BY <1>1, <2>1, <2>2, <2>3 DEF Publish, ReportInv, Stages, ReportKept, ReportTellsAction
  <1>2. CASE Unpublish
    <2>1. srs' = Nil /\ UNCHANGED <<row, card, obs, report, seen, acted, banned>>
      BY <1>2 DEF Unpublish, Begin, history
    <2>2. CASE Begin("unpublish", "find", srs)
      <3>1. tasks' = tasks \union {[op |-> "unpublish", at |-> "find", key |-> srs, for |-> "nobody"]}
        BY <2>2 DEF Begin, Started
      <3>2. crossed' = crossed \union Crossings("unpublish")
        BY <2>2 DEF Begin
      <3> QED
        BY <1>2, <2>1, <3>1, <3>2 DEF Unpublish, ReportInv, Stages, ReportKept, ReportTellsAction
    <2>3. CASE UNCHANGED <<tasks, history>>
      BY <1>2, <2>1, <2>3 DEF Unpublish, history, ReportInv, Stages, ReportKept, ReportTellsAction
    <2> QED
      BY <1>2, <2>2, <2>3 DEF Unpublish
  <1>3. ASSUME NEW t \in tasks, Claim(t) PROVE ReportInv'
    BY <1>3, Moves DEF Claim, At, End, Ats, history, ReportInv, Stages, ReportKept, ReportTellsAction
  <1>4. ASSUME NEW t \in tasks, SetLive(t) PROVE ReportInv'
    BY <1>4 DEF SetLive, At, End, history, ReportInv, Stages, ReportKept, ReportTellsAction
  <1>5. ASSUME NEW t \in tasks, UnpublishFound(t) PROVE ReportInv'
    BY <1>5, Moves DEF UnpublishFound, At, End, Ats, history, ReportInv, Stages, ReportKept, ReportTellsAction
  <1>6. ASSUME NEW t \in tasks, SetEnded(t) PROVE ReportInv'
    BY <1>6, Moves DEF SetEnded, At, End, Ats, history, ReportInv, Stages, ReportKept, ReportTellsAction
  <1>7. ASSUME NEW t \in tasks, Release(t) PROVE ReportInv'
    <2>1. After(t) \in SUBSET Tasks /\ Redrawn(After(t))
      BY <1>7, Releases
    <2>2. \A u \in tasks' : \E w \in After(t) : w.op = u.op /\ w.at = u.at /\ w.for = u.for
      BY <2>1, Redraws
    <2>3. \A w \in After(t) : \E u \in tasks' : w.for = u.for
      BY <2>1, Redraws
    <2>4. /\ t.op \in {"stop", "ban", "reconcile"} /\ (acted' <=> acted \/ t.for = "report")
          /\ UNCHANGED <<report, crossed>>
      BY <1>7 DEF Release, At, Typed
    <2>5. \A u \in tasks' :
             /\ \E w \in tasks : u.for = w.for /\ u.op = w.op
             /\ u.at = "resolve" => u.for = "report" /\ (acted \/ t.for = "report")
      BY <1>7, <2>2, Releases DEF ReportInv, Stages
    <2>6. \A w \in tasks : w.for = "report" => \E u \in tasks' : u.for = "report"
      <3>1. t.for = "report" => \E u \in After(t) : u.for = "report"
        BY <1>7, Releases
      <3> QED
        BY <2>3, <3>1 DEF After
    <2>7. t.for = "report" => /\ report # "none"
                              /\ report = "dismissed" => "report" \in crossed
      BY DEF ReportInv, Stages, ReportKept
    <2>8. Stages'
      <3>1. ASSUME NEW u \in tasks'
            PROVE  /\ u.for = "report" => u.op \in {"stop", "ban"} /\ report' # "none"
                   /\ u.at = "resolve" => u.for = "report" /\ acted'
        BY <2>4, <2>5 DEF ReportInv, Stages
      <3> QED
        BY <3>1 DEF Stages
    <2>9. ReportKept'
      <3>1. acted' => report' # "none"
        BY <2>4, <2>7 DEF ReportInv, ReportKept
      <3>2. acted' /\ report' = "pending" => \E u \in tasks' : u.for = "report"
        BY <2>4, <2>6 DEF ReportInv, ReportKept
      <3>3. report' = "dismissed" /\ "report" \notin crossed' => \A u \in tasks' : u.for # "report"
        BY <2>4, <2>5 DEF ReportInv, ReportKept
      <3> QED
        BY <3>1, <3>2, <3>3 DEF ReportKept
    <2>10. ReportTellsAction'
      BY <2>4, <2>7 DEF ReportInv, ReportTellsAction
    <2> QED
      BY <2>8, <2>9, <2>10 DEF ReportInv
  <1>8. CASE Reconcile
    <2>1. tasks' = tasks \union {[op |-> "reconcile", at |-> "read", key |-> srs, for |-> "nobody"]}
      BY <1>8 DEF Reconcile, Begin, Started
    <2>2. UNCHANGED <<row, srs, card, obs, report, seen, acted, banned>>
      BY <1>8 DEF Reconcile, Begin
    <2>3. crossed' = crossed \union Crossings("reconcile")
      BY <1>8 DEF Reconcile, Begin
    <2> QED
      BY <1>8, <2>1, <2>2, <2>3 DEF Reconcile, ReportInv, Stages, ReportKept, ReportTellsAction
  <1>9. ASSUME NEW t \in tasks, ReadLive(t) PROVE ReportInv'
    BY <1>9, Moves DEF ReadLive, At, End, Ats, history, ReportInv, Stages, ReportKept, ReportTellsAction
  <1>10. ASSUME NEW t \in tasks, ForceEnd(t) PROVE ReportInv'
    BY <1>10, Moves DEF ForceEnd, At, End, Ats, history, ReportInv, Stages, ReportKept, ReportTellsAction
  <1>11. CASE Sweep
    <2>1. tasks' = tasks \union {[op |-> "sweep", at |-> "rotate", key |-> Nil, for |-> "nobody"]}
      BY <1>11 DEF Sweep, Begin, Started
    <2>2. UNCHANGED <<row, srs, card, obs, report, seen, acted, banned>>
      BY <1>11 DEF Sweep, Begin
    <2>3. crossed' = crossed \union Crossings("sweep")
      BY <1>11 DEF Sweep, Begin
    <2> QED
      BY <1>11, <2>1, <2>2, <2>3 DEF Sweep, ReportInv, Stages, ReportKept, ReportTellsAction
  <1>12. ASSUME NEW t \in tasks, Rotate(t) PROVE ReportInv'
    <2>1. CASE Redrawn(tasks \ {t})
      BY <1>12, <2>1, Redraws DEF Rotate, At, Typed, history, ReportInv, Stages, ReportKept, ReportTellsAction
    <2>2. CASE End(t) /\ UNCHANGED <<row, srs, obs, card>>
      BY <1>12, <2>2 DEF Rotate, At, End, history, ReportInv, Stages, ReportKept, ReportTellsAction
    <2> QED
      BY <1>12, <2>1, <2>2 DEF Rotate
  <1>13. CASE OpenStudio
    BY <1>13 DEF OpenStudio, Shown, history, ReportInv, Stages, ReportKept, ReportTellsAction
  <1>14. CASE RefreshStudio
    BY <1>14 DEF RefreshStudio, Shown, history, ReportInv, Stages, ReportKept, ReportTellsAction
  <1>15. CASE CopyKey
    BY <1>15 DEF CopyKey, history, ReportInv, Stages, ReportKept, ReportTellsAction
  <1>16. CASE RotateKey
    <2>1. Redrawn(tasks)
      BY <1>16 DEF RotateKey
    <2> QED
      BY <1>16, <2>1, Redraws DEF RotateKey, Typed, history, ReportInv, Stages, ReportKept, ReportTellsAction
  <1>17. CASE Stop
    <2>1. tasks' = tasks \union {[op |-> "stop", at |-> "end", key |-> Nil, for |-> "nobody"]}
      BY <1>17 DEF Stop, Begin, Started
    <2>2. UNCHANGED <<row, srs, card, obs, report, seen, acted, banned>>
      BY <1>17 DEF Stop, Begin
    <2>3. crossed' = crossed \union Crossings("stop")
      BY <1>17 DEF Stop, Begin
    <2> QED
      BY <1>17, <2>1, <2>2, <2>3 DEF Stop, ReportInv, Stages, ReportKept, ReportTellsAction
  <1>18. CASE Remove
    BY <1>18 DEF Remove, history, ReportInv, Stages, ReportKept, ReportTellsAction
  <1>19. CASE ReportRoom
    BY <1>19 DEF ReportRoom, history, ReportInv, Stages, ReportKept, ReportTellsAction
  <1>20. ASSUME NEW for \in {"nobody", "report"}, ForceEndLive(for) PROVE ReportInv'
    <2>1. tasks' = tasks \union {[op |-> "stop", at |-> "end", key |-> Nil, for |-> for]}
      BY <1>20 DEF ForceEndLive, Started
    <2>2. UNCHANGED <<report, acted>> /\ crossed \union Late(for) \subseteq crossed'
      BY <1>20 DEF ForceEndLive
    <2>3. for = "report" => report # "none"
      BY <1>20 DEF ForceEndLive, Offers, ReportOffers
    <2> QED
      BY <2>1, <2>2, <2>3 DEF Late, ReportInv, Stages, ReportKept, ReportTellsAction
  <1>21. ASSUME NEW for \in {"nobody", "report"}, Ban(for) PROVE ReportInv'
    <2>1. tasks' = tasks \union {[op |-> "ban", at |-> "end", key |-> Nil, for |-> for]}
      BY <1>21 DEF Ban, Started
    <2>2. UNCHANGED <<report, acted>> /\ crossed \union Late(for) \subseteq crossed'
      BY <1>21 DEF Ban
    <2>3. for = "report" => report # "none"
      BY <1>21 DEF Ban, Offers, ReportOffers
    <2> QED
      BY <2>1, <2>2, <2>3 DEF Late, ReportInv, Stages, ReportKept, ReportTellsAction
  <1>22. CASE Unban
    BY <1>22 DEF Unban, history, ReportInv, Stages, ReportKept, ReportTellsAction
  <1>23. CASE DeleteRoom
    BY <1>23 DEF DeleteRoom, history, ReportInv, Stages, ReportKept, ReportTellsAction
  <1>24. ASSUME NEW t \in tasks, Resolve(t) PROVE ReportInv'
    BY <1>24 DEF Resolve, At, End, history, ReportInv, Stages, ReportKept, ReportTellsAction
  <1>25. CASE Dismiss
    BY <1>25 DEF Dismiss, history, ReportInv, Stages, ReportKept, ReportTellsAction
  <1>0. CASE UNCHANGED vars
    BY <1>0 DEF vars, history, ReportInv, Stages, ReportKept, ReportTellsAction
  <1> QED
    BY <1>0, <1>1, <1>2, <1>3, <1>4, <1>5, <1>6, <1>7, <1>8, <1>9, <1>10, <1>11, <1>12,
       <1>13, <1>14, <1>15, <1>16, <1>17, <1>18, <1>19, <1>20, <1>21, <1>22, <1>23, <1>24, <1>25
    DEF Next, Owner, Admin, Proceed, Step

(* Handlers that cross are noted. *)
LEMMA Crossed ==
  /\ Running("publish") \/ Running("reconcile") => "ban" \in Crossings("ban")
  /\ Running("unpublish") => "publisher" \in Crossings("publish")
  /\ Running("publish") => "publisher" \in Crossings("unpublish")
  <1>1. ASSUME Running("publish") PROVE "ban" \in Crossings("ban")
    <2>1. PICK t \in tasks : t.op = "publish"
      BY <1>1 DEF Running
    <2>2. {"ban", "publish"} \in {{"ban", u.op} : u \in tasks}
      BY <2>1
    <2> QED
      BY <2>2 DEF Crossings
  <1>2. ASSUME Running("reconcile") PROVE "ban" \in Crossings("ban")
    <2>1. PICK t \in tasks : t.op = "reconcile"
      BY <1>2 DEF Running
    <2>2. {"ban", "reconcile"} \in {{"ban", u.op} : u \in tasks}
      BY <2>1
    <2> QED
      BY <2>2 DEF Crossings
  <1>3. ASSUME Running("unpublish") PROVE "publisher" \in Crossings("publish")
    <2>1. PICK t \in tasks : t.op = "unpublish"
      BY <1>3 DEF Running
    <2>2. {"publish", "unpublish"} \in {{"publish", u.op} : u \in tasks}
      BY <2>1
    <2> QED
      BY <2>2 DEF Crossings
  <1>4. ASSUME Running("publish") PROVE "publisher" \in Crossings("unpublish")
    <2>1. PICK t \in tasks : t.op = "publish"
      BY <1>4 DEF Running
    <2>2. {"unpublish", "publish"} \in {{"unpublish", u.op} : u \in tasks}
      BY <2>1
    <2> QED
      BY <2>2 DEF Crossings
  <1> QED
    BY <1>1, <1>2, <1>3, <1>4

(* Bans. *)
LEMMA BanKeeps == Typed /\ BanInv /\ [Next]_vars => BanInv'
  <1> SUFFICES ASSUME Typed /\ BanInv, [Next]_vars PROVE BanInv'
    OBVIOUS
  <1>1. CASE Publish
    <2>1. tasks' = tasks \union {[op |-> "publish", at |-> "find", key |-> obs, for |-> "nobody"]}
      BY <1>1 DEF Publish, Begin, Started
    <2>2. UNCHANGED <<row, srs, card, obs, report, seen, acted, banned>>
      BY <1>1 DEF Publish, Begin
    <2>3. crossed' = crossed \union Crossings("publish")
      BY <1>1 DEF Publish, Begin
    <2> QED
      BY <1>1, <2>1, <2>2, <2>3 DEF Publish, BanInv, BanHolds, BanKept
  <1>2. CASE Unpublish
    <2>1. srs' = Nil /\ UNCHANGED <<row, card, obs, report, seen, acted, banned>>
      BY <1>2 DEF Unpublish, Begin, history
    <2>2. CASE Begin("unpublish", "find", srs)
      <3>1. tasks' = tasks \union {[op |-> "unpublish", at |-> "find", key |-> srs, for |-> "nobody"]}
        BY <2>2 DEF Begin, Started
      <3>2. crossed' = crossed \union Crossings("unpublish")
        BY <2>2 DEF Begin
      <3> QED
        BY <1>2, <2>1, <3>1, <3>2 DEF Unpublish, BanInv, BanHolds, BanKept
    <2>3. CASE UNCHANGED <<tasks, history>>
      BY <1>2, <2>1, <2>3 DEF Unpublish, history, BanInv, BanHolds, BanKept
    <2> QED
      BY <1>2, <2>2, <2>3 DEF Unpublish
  <1>3. ASSUME NEW t \in tasks, Claim(t) PROVE BanInv'
    BY <1>3, Moves DEF Claim, At, End, Ats, history, BanInv, BanHolds, BanKept
  <1>4. ASSUME NEW t \in tasks, SetLive(t) PROVE BanInv'
    <2>1. /\ t.op = "publish" /\ t.at = "live" /\ tasks' = tasks \ {t}
          /\ UNCHANGED <<banned, crossed>>
      BY <1>4 DEF SetLive, At, End
    <2>2. CASE ~Exists
      BY <1>4, <2>1, <2>2 DEF SetLive, Exists, BanInv, BanHolds, BanKept
    <2>3. CASE Exists
      <3>1. row.status # "gone"
        BY <2>3 DEF Exists
      <3>2. banned => "ban" \in crossed
        BY <2>1, <3>1 DEF BanInv, BanHolds, BanKept
      <3> QED
        BY <2>1, <3>2 DEF BanInv, BanHolds, BanKept
    <2> QED
      BY <2>2, <2>3
  <1>5. ASSUME NEW t \in tasks, UnpublishFound(t) PROVE BanInv'
    BY <1>5, Moves DEF UnpublishFound, At, End, Ats, history, BanInv, BanHolds, BanKept
  <1>6. ASSUME NEW t \in tasks, SetEnded(t) PROVE BanInv'
    BY <1>6, Moves DEF SetEnded, At, End, Ats, history, BanInv, BanHolds, BanKept
  <1>7. ASSUME NEW t \in tasks, Release(t) PROVE BanInv'
    <2>1. After(t) \in SUBSET Tasks /\ Redrawn(After(t))
      BY <1>7, Releases
    <2>2. /\ row'.status = row.status
          /\ \A u \in tasks' : /\ u.key # "new"
                              /\ \E w \in After(t) : w.op = u.op /\ w.at = u.at
      BY <2>1, Redraws
    <2>3. t.op \in {"stop", "ban", "reconcile"} /\ UNCHANGED <<banned, crossed>>
      BY <1>7 DEF Release, At
    <2>4. \A w \in After(t) : \/ w \in tasks
                              \/ w.op = t.op /\ w.at = "resolve"
      BY <1>7, Releases
    <2> QED
      BY <2>2, <2>3, <2>4 DEF BanInv, BanHolds, BanKept
  <1>8. CASE Reconcile
    <2>1. tasks' = tasks \union {[op |-> "reconcile", at |-> "read", key |-> srs, for |-> "nobody"]}
      BY <1>8 DEF Reconcile, Begin, Started
    <2>2. UNCHANGED <<row, srs, card, obs, report, seen, acted, banned>>
      BY <1>8 DEF Reconcile, Begin
    <2>3. crossed' = crossed \union Crossings("reconcile")
      BY <1>8 DEF Reconcile, Begin
    <2> QED
      BY <1>8, <2>1, <2>2, <2>3 DEF Reconcile, BanInv, BanHolds, BanKept
  <1>9. ASSUME NEW t \in tasks, ReadLive(t) PROVE BanInv'
    BY <1>9, Moves DEF ReadLive, At, End, Ats, history, BanInv, BanHolds, BanKept
  <1>10. ASSUME NEW t \in tasks, ForceEnd(t) PROVE BanInv'
    BY <1>10, Moves DEF ForceEnd, At, End, Ats, history, BanInv, BanHolds, BanKept
  <1>11. CASE Sweep
    <2>1. tasks' = tasks \union {[op |-> "sweep", at |-> "rotate", key |-> Nil, for |-> "nobody"]}
      BY <1>11 DEF Sweep, Begin, Started
    <2>2. UNCHANGED <<row, srs, card, obs, report, seen, acted, banned>>
      BY <1>11 DEF Sweep, Begin
    <2>3. crossed' = crossed \union Crossings("sweep")
      BY <1>11 DEF Sweep, Begin
    <2> QED
      BY <1>11, <2>1, <2>2, <2>3 DEF Sweep, BanInv, BanHolds, BanKept
  <1>12. ASSUME NEW t \in tasks, Rotate(t) PROVE BanInv'
    <2>1. CASE Redrawn(tasks \ {t})
      BY <1>12, <2>1, Redraws DEF Rotate, At, Typed, history, BanInv, BanHolds, BanKept
    <2>2. CASE End(t) /\ UNCHANGED <<row, srs, obs, card>>
      BY <1>12, <2>2 DEF Rotate, At, End, history, BanInv, BanHolds, BanKept
    <2> QED
      BY <1>12, <2>1, <2>2 DEF Rotate
  <1>13. CASE OpenStudio
    BY <1>13 DEF OpenStudio, Shown, history, BanInv, BanHolds, BanKept
  <1>14. CASE RefreshStudio
    BY <1>14 DEF RefreshStudio, Shown, history, BanInv, BanHolds, BanKept
  <1>15. CASE CopyKey
    BY <1>15 DEF CopyKey, history, BanInv, BanHolds, BanKept
  <1>16. CASE RotateKey
    <2>1. Redrawn(tasks)
      BY <1>16 DEF RotateKey
    <2> QED
      BY <1>16, <2>1, Redraws DEF RotateKey, Typed, history, BanInv, BanHolds, BanKept
  <1>17. CASE Stop
    <2>1. tasks' = tasks \union {[op |-> "stop", at |-> "end", key |-> Nil, for |-> "nobody"]}
      BY <1>17 DEF Stop, Begin, Started
    <2>2. UNCHANGED <<row, srs, card, obs, report, seen, acted, banned>>
      BY <1>17 DEF Stop, Begin
    <2>3. crossed' = crossed \union Crossings("stop")
      BY <1>17 DEF Stop, Begin
    <2> QED
      BY <1>17, <2>1, <2>2, <2>3 DEF Stop, BanInv, BanHolds, BanKept
  <1>18. CASE Remove
    BY <1>18 DEF Remove, history, BanInv, BanHolds, BanKept
  <1>19. CASE ReportRoom
    BY <1>19 DEF ReportRoom, history, BanInv, BanHolds, BanKept
  <1>20. ASSUME NEW for \in {"nobody", "report"}, ForceEndLive(for) PROVE BanInv'
    <2>1. tasks' = tasks \union {[op |-> "stop", at |-> "end", key |-> Nil, for |-> for]}
      BY <1>20 DEF ForceEndLive, Started
    <2> QED
      BY <1>20, <2>1 DEF ForceEndLive, Late, BanInv, BanHolds, BanKept
  <1>21. ASSUME NEW for \in {"nobody", "report"}, Ban(for) PROVE BanInv'
    <2>1. tasks' = tasks \union {[op |-> "ban", at |-> "end", key |-> Nil, for |-> for]}
      BY <1>21 DEF Ban, Started
    <2>2. /\ row'.status = "banned" /\ banned' = TRUE
          /\ crossed' = crossed \union Crossings("ban") \union Late(for)
      BY <1>21 DEF Ban, Typed
    <2>3. "ban" \notin crossed' => \A t \in tasks : t.op \notin {"publish", "reconcile"}
      BY <2>2, Crossed DEF Running
    <2>4. BanKept'
      BY <2>1, <2>3 DEF BanKept
    <2> QED
      BY <2>2, <2>4 DEF BanInv, BanHolds
  <1>22. CASE Unban
    BY <1>22 DEF Unban, history, BanInv, BanHolds, BanKept
  <1>23. CASE DeleteRoom
    BY <1>23 DEF DeleteRoom, history, BanInv, BanHolds, BanKept
  <1>24. ASSUME NEW t \in tasks, Resolve(t) PROVE BanInv'
    BY <1>24 DEF Resolve, At, End, history, BanInv, BanHolds, BanKept
  <1>25. CASE Dismiss
    BY <1>25 DEF Dismiss, history, BanInv, BanHolds, BanKept
  <1>0. CASE UNCHANGED vars
    BY <1>0 DEF vars, history, BanInv, BanHolds, BanKept
  <1> QED
    BY <1>0, <1>1, <1>2, <1>3, <1>4, <1>5, <1>6, <1>7, <1>8, <1>9, <1>10, <1>11, <1>12,
       <1>13, <1>14, <1>15, <1>16, <1>17, <1>18, <1>19, <1>20, <1>21, <1>22, <1>23, <1>24, <1>25
    DEF Next, Owner, Admin, Proceed, Step

(* Publishers. *)
LEMMA RedrawnStream ==
  ASSUME Typed, OnePublisher, NEW others \in SUBSET Tasks, Redrawn(others), UNCHANGED crossed,
         \A t \in others : t \in tasks \/ t.op \notin {"publish", "unpublish"}
  PROVE  StreamInv'
  <1>1. tasks' = {[t EXCEPT !.key = Stale(t.key)] : t \in others}
    BY DEF Redrawn
  <1>2. \A u \in tasks' : \E t \in others : u = [t EXCEPT !.key = Stale(t.key)] /\ u.op = t.op
    <2>1. ASSUME NEW t \in others PROVE [t EXCEPT !.key = Stale(t.key)].op = t.op
      <3>1. t \in Tasks
        OBVIOUS
      <3> QED
        BY <3>1, StaleTask
    <2> QED
      BY <1>1, <2>1
  <1>3. srs' # "new" /\ (srs' = Nil <=> srs = Nil)
    BY Redraws
  <1>4. ASSUME NEW u \in tasks', NEW w \in tasks', u.op = "publish", w.op = "publish" PROVE u = w
    <2>1. PICK t \in others : u = [t EXCEPT !.key = Stale(t.key)] /\ u.op = t.op
      BY <1>2
    <2>2. PICK v \in others : w = [v EXCEPT !.key = Stale(v.key)] /\ w.op = v.op
      BY <1>2
    <2>3. t \in tasks /\ v \in tasks /\ t.op = "publish" /\ v.op = "publish"
      BY <1>4, <2>1, <2>2
    <2>4. t = v
      BY <2>3 DEF OnePublisher
    <2> QED
      BY <2>1, <2>2, <2>4
  <1>5. \A op \in {"publish", "unpublish"} : Running(op)' => Running(op)
    BY <1>2 DEF Running
  <1>6. OnePublisher'
    BY <1>3, <1>4, <1>5 DEF OnePublisher
  <1> QED
    BY <1>3, <1>6 DEF StreamInv, LosesKey

LEMMA StreamKeeps == Typed /\ StreamInv /\ [Next]_vars => StreamInv'
  <1> SUFFICES ASSUME Typed /\ StreamInv, [Next]_vars PROVE StreamInv'
    OBVIOUS
  <1>1. CASE Publish
    <2>1. tasks' = tasks \union {[op |-> "publish", at |-> "find", key |-> obs, for |-> "nobody"]}
      BY <1>1 DEF Publish, Begin, Started
    <2>2. srs = Nil /\ ~Running("publish") /\ UNCHANGED <<row, srs>>
      BY <1>1 DEF Publish, Begin
    <2>3. crossed' = crossed \union Crossings("publish")
      BY <1>1 DEF Publish, Begin
    <2>4. "publisher" \notin crossed' => ~Running("unpublish")
      BY <2>3, Crossed
    <2>5. OnePublisher'
      BY <2>1, <2>2, <2>4 DEF OnePublisher, Running
    <2>6. srs' # "new"
      BY <2>2
    <2> QED
      BY <2>5, <2>6 DEF StreamInv, LosesKey
  <1>2. CASE Unpublish
    <2>1. srs' = Nil /\ UNCHANGED <<row, card, obs, report, seen, acted, banned>>
      BY <1>2 DEF Unpublish, Begin, history
    <2>2. CASE Begin("unpublish", "find", srs)
      <3>1. tasks' = tasks \union {[op |-> "unpublish", at |-> "find", key |-> srs, for |-> "nobody"]}
        BY <2>2 DEF Begin, Started
      <3>2. crossed' = crossed \union Crossings("unpublish")
        BY <2>2 DEF Begin
      <3> QED
        BY <1>2, <2>1, <3>1, <3>2 DEF Unpublish, StreamInv, OnePublisher, LosesKey, Releasing, Running, Exists
    <2>3. CASE UNCHANGED <<tasks, history>>
      BY <1>2, <2>1, <2>3 DEF Unpublish, history, StreamInv, OnePublisher, LosesKey, Releasing, Running, Exists
    <2> QED
      BY <1>2, <2>2, <2>3 DEF Unpublish
  <1>3. ASSUME NEW t \in tasks, Claim(t) PROVE StreamInv'
    BY <1>3, Moves DEF Claim, At, End, Ats, history, StreamInv, OnePublisher, LosesKey, Releasing, Running, Exists
  <1>4. ASSUME NEW t \in tasks, SetLive(t) PROVE StreamInv'
    BY <1>4 DEF SetLive, At, End, history, StreamInv, OnePublisher, LosesKey, Releasing, Running, Exists
  <1>5. ASSUME NEW t \in tasks, UnpublishFound(t) PROVE StreamInv'
    BY <1>5, Moves DEF UnpublishFound, At, End, Ats, history, StreamInv, OnePublisher, LosesKey, Releasing, Running, Exists
  <1>6. ASSUME NEW t \in tasks, SetEnded(t) PROVE StreamInv'
    BY <1>6, Moves DEF SetEnded, At, End, Ats, history, StreamInv, OnePublisher, LosesKey, Releasing, Running, Exists
  <1>7. ASSUME NEW t \in tasks, Release(t) PROVE StreamInv'
    <2>1. After(t) \in SUBSET Tasks /\ Redrawn(After(t))
      BY <1>7, Releases
    <2>2. UNCHANGED crossed /\ t.op \notin {"publish", "unpublish"}
      BY <1>7 DEF Release, At
    <2>3. \A u \in After(t) : u \in tasks \/ u.op \notin {"publish", "unpublish"}
      BY <1>7, <2>2, Releases
    <2> QED
      BY <2>1, <2>2, <2>3, RedrawnStream DEF StreamInv
  <1>8. CASE Reconcile
    <2>1. tasks' = tasks \union {[op |-> "reconcile", at |-> "read", key |-> srs, for |-> "nobody"]}
      BY <1>8 DEF Reconcile, Begin, Started
    <2>2. UNCHANGED <<row, srs, card, obs, report, seen, acted, banned>>
      BY <1>8 DEF Reconcile, Begin
    <2>3. crossed' = crossed \union Crossings("reconcile")
      BY <1>8 DEF Reconcile, Begin
    <2> QED
      BY <1>8, <2>1, <2>2, <2>3 DEF Reconcile, StreamInv, OnePublisher, LosesKey, Releasing, Running, Exists
  <1>9. ASSUME NEW t \in tasks, ReadLive(t) PROVE StreamInv'
    BY <1>9, Moves DEF ReadLive, At, End, Ats, history, StreamInv, OnePublisher, LosesKey, Releasing, Running, Exists
  <1>10. ASSUME NEW t \in tasks, ForceEnd(t) PROVE StreamInv'
    BY <1>10, Moves DEF ForceEnd, At, End, Ats, history, StreamInv, OnePublisher, LosesKey, Releasing, Running, Exists
  <1>11. CASE Sweep
    <2>1. tasks' = tasks \union {[op |-> "sweep", at |-> "rotate", key |-> Nil, for |-> "nobody"]}
      BY <1>11 DEF Sweep, Begin, Started
    <2>2. UNCHANGED <<row, srs, card, obs, report, seen, acted, banned>>
      BY <1>11 DEF Sweep, Begin
    <2>3. crossed' = crossed \union Crossings("sweep")
      BY <1>11 DEF Sweep, Begin
    <2> QED
      BY <1>11, <2>1, <2>2, <2>3 DEF Sweep, StreamInv, OnePublisher, LosesKey, Releasing, Running, Exists
  <1>12. ASSUME NEW t \in tasks, Rotate(t) PROVE StreamInv'
    <2>1. CASE Redrawn(tasks \ {t})
      <3>1. UNCHANGED crossed /\ tasks \ {t} \in SUBSET Tasks
        BY <1>12 DEF Rotate, history, Typed
      <3> QED
        BY <2>1, <3>1, RedrawnStream DEF StreamInv
    <2>2. CASE End(t) /\ UNCHANGED <<row, srs, obs, card>>
      BY <1>12, <2>2 DEF Rotate, At, End, history, StreamInv, OnePublisher, LosesKey, Releasing, Running, Exists
    <2> QED
      BY <1>12, <2>1, <2>2 DEF Rotate
  <1>13. CASE OpenStudio
    BY <1>13 DEF OpenStudio, Shown, history, StreamInv, OnePublisher, LosesKey, Releasing, Running, Exists
  <1>14. CASE RefreshStudio
    BY <1>14 DEF RefreshStudio, Shown, history, StreamInv, OnePublisher, LosesKey, Releasing, Running, Exists
  <1>15. CASE CopyKey
    BY <1>15 DEF CopyKey, history, StreamInv, OnePublisher, LosesKey, Releasing, Running, Exists
  <1>16. CASE RotateKey
    <2>1. Redrawn(tasks) /\ UNCHANGED crossed
      BY <1>16 DEF RotateKey, history
    <2> QED
      BY <2>1, RedrawnStream DEF Typed, StreamInv
  <1>17. CASE Stop
    <2>1. tasks' = tasks \union {[op |-> "stop", at |-> "end", key |-> Nil, for |-> "nobody"]}
      BY <1>17 DEF Stop, Begin, Started
    <2>2. UNCHANGED <<row, srs, card, obs, report, seen, acted, banned>>
      BY <1>17 DEF Stop, Begin
    <2>3. crossed' = crossed \union Crossings("stop")
      BY <1>17 DEF Stop, Begin
    <2> QED
      BY <1>17, <2>1, <2>2, <2>3 DEF Stop, StreamInv, OnePublisher, LosesKey, Releasing, Running, Exists
  <1>18. CASE Remove
    BY <1>18 DEF Remove, history, StreamInv, OnePublisher, LosesKey, Releasing, Running, Exists
  <1>19. CASE ReportRoom
    BY <1>19 DEF ReportRoom, history, StreamInv, OnePublisher, LosesKey, Releasing, Running, Exists
  <1>20. ASSUME NEW for \in {"nobody", "report"}, ForceEndLive(for) PROVE StreamInv'
    <2>1. tasks' = tasks \union {[op |-> "stop", at |-> "end", key |-> Nil, for |-> for]}
      BY <1>20 DEF ForceEndLive, Started
    <2> QED
      BY <1>20, <2>1 DEF ForceEndLive, Late, StreamInv, OnePublisher, LosesKey, Releasing, Running, Exists
  <1>21. ASSUME NEW for \in {"nobody", "report"}, Ban(for) PROVE StreamInv'
    <2>1. tasks' = tasks \union {[op |-> "ban", at |-> "end", key |-> Nil, for |-> for]}
      BY <1>21 DEF Ban, Started
    <2>2. UNCHANGED srs /\ crossed \subseteq crossed'
      BY <1>21 DEF Ban
    <2>3. OnePublisher'
      BY <2>1, <2>2 DEF StreamInv, OnePublisher, Running
    <2>4. \E t \in tasks' : t.op = "ban" /\ t.at = "end"
      <3> DEFINE u == [op |-> "ban", at |-> "end", key |-> Nil, for |-> for]
      <3>1. u \in tasks' /\ u.op = "ban" /\ u.at = "end"
        BY <2>1
      <3> QED
        BY <3>1
    <2> QED
      BY <2>3, <2>4 DEF StreamInv, LosesKey, Releasing
  <1>22. CASE Unban
    BY <1>22 DEF Unban, history, StreamInv, OnePublisher, LosesKey, Releasing, Running, Exists
  <1>23. CASE DeleteRoom
    BY <1>23 DEF DeleteRoom, history, StreamInv, OnePublisher, LosesKey, Releasing, Running, Exists
  <1>24. ASSUME NEW t \in tasks, Resolve(t) PROVE StreamInv'
    BY <1>24 DEF Resolve, At, End, history, StreamInv, OnePublisher, LosesKey, Releasing, Running, Exists
  <1>25. CASE Dismiss
    BY <1>25 DEF Dismiss, history, StreamInv, OnePublisher, LosesKey, Releasing, Running, Exists
  <1>0. CASE UNCHANGED vars
    BY <1>0 DEF vars, history, StreamInv, OnePublisher, LosesKey, Releasing, Running, Exists
  <1> QED
    BY <1>0, <1>1, <1>2, <1>3, <1>4, <1>5, <1>6, <1>7, <1>8, <1>9, <1>10, <1>11, <1>12,
       <1>13, <1>14, <1>15, <1>16, <1>17, <1>18, <1>19, <1>20, <1>21, <1>22, <1>23, <1>24, <1>25
    DEF Next, Owner, Admin, Proceed, Step

-----------------------------------------------------------------------------
(* The number of the tasks.                                                *)

Counted(s) == IsFiniteSet(s) /\ Cardinality(s) \in Nat /\ Cardinality(s) <= MaxTasks

LEMMA CountMoves ==
  ASSUME NEW s, Counted(s), NEW t \in s, NEW u
  PROVE  Counted(s \ {t}) /\ Counted((s \ {t}) \union {u})
  <1>1. IsFiniteSet(s \ {t}) /\ Cardinality(s \ {t}) = Cardinality(s) - 1
    BY FS_RemoveElement DEF Counted
  <1>2. Cardinality(s \ {t}) \in Nat
    BY <1>1, FS_CardinalityType
  <1>3. /\ IsFiniteSet((s \ {t}) \union {u})
        /\ Cardinality((s \ {t}) \union {u}) \in {Cardinality(s \ {t}), Cardinality(s \ {t}) + 1}
    BY <1>1, FS_AddElement
  <1> QED
    BY <1>1, <1>2, <1>3 DEF Counted

LEMMA CountGoesOn ==
  ASSUME Counted(tasks), NEW t \in tasks, NEW stage, Move(t, stage) \/ End(t)
  PROVE  Counted(tasks)'
  <1> DEFINE u == [t EXCEPT !.at = stage]
  <1>1. tasks' = tasks \ {t} \/ tasks' = (tasks \ {t}) \union {u}
    BY DEF Move, End
  <1> HIDE DEF u
  <1>2. Counted(tasks \ {t}) /\ Counted((tasks \ {t}) \union {u})
    BY CountMoves
  <1> QED
    BY <1>1, <1>2 DEF Counted

LEMMA CountStarts ==
  ASSUME Counted(tasks), NEW op, NEW stage, NEW key, NEW for, Started(op, stage, key, for)
  PROVE  Counted(tasks)'
  <1> DEFINE u == [op |-> op, at |-> stage, key |-> key, for |-> for]
  <1>1. Cardinality(tasks) < MaxTasks /\ tasks' = tasks \union {u}
    BY DEF Started
  <1>2. /\ IsFiniteSet(tasks \union {u})
        /\ Cardinality(tasks \union {u}) \in {Cardinality(tasks), Cardinality(tasks) + 1}
    BY FS_AddElement DEF Counted
  <1> HIDE DEF u
  <1> QED
    BY <1>1, <1>2 DEF Counted

LEMMA CountRedrawn ==
  ASSUME NEW others, Counted(others), Redrawn(others)
  PROVE  Counted(tasks)'
  <1> DEFINE f == [t \in others |-> [t EXCEPT !.key = Stale(t.key)]]
  <1>1. tasks' = {f[t] : t \in others}
    BY DEF Redrawn
  <1> HIDE DEF f
  <1>2. f \in Surjection(others, tasks')
    <2>1. f \in [others -> tasks']
      <3>1. f = [t \in others |-> f[t]]
        BY DEF f
      <3> QED
        BY <1>1, <3>1
    <2> QED
      BY <1>1, <2>1 DEF Surjection
  <1>3. IsFiniteSet(tasks') /\ Cardinality(tasks') <= Cardinality(others)
    BY <1>2, FS_Surjection DEF Counted
  <1>4. Cardinality(tasks') \in Nat
    BY <1>3, FS_CardinalityType
  <1> QED
    BY <1>3, <1>4 DEF Counted

LEMMA CountedKept == Counted(tasks) /\ [Next]_vars => Counted(tasks)'
  <1> SUFFICES ASSUME Counted(tasks), [Next]_vars PROVE Counted(tasks)'
    OBVIOUS
  <1>1. CASE Publish
    BY <1>1, CountStarts DEF Publish, Begin
  <1>2. CASE Unpublish
    BY <1>2, CountStarts DEF Unpublish, Begin, Counted
  <1>3. ASSUME NEW t \in tasks, Claim(t) PROVE Counted(tasks)'
    BY <1>3, CountGoesOn DEF Claim
  <1>4. ASSUME NEW t \in tasks, SetLive(t) PROVE Counted(tasks)'
    BY <1>4, CountGoesOn DEF SetLive
  <1>5. ASSUME NEW t \in tasks, UnpublishFound(t) PROVE Counted(tasks)'
    BY <1>5, CountGoesOn DEF UnpublishFound
  <1>6. ASSUME NEW t \in tasks, SetEnded(t) PROVE Counted(tasks)'
    BY <1>6, CountGoesOn DEF SetEnded
  <1>7. ASSUME NEW t \in tasks, Release(t) PROVE Counted(tasks)'
    <2>1. Counted(After(t))
      <3> DEFINE u == [t EXCEPT !.at = "resolve"]
      <3>1. After(t) = tasks \ {t} \/ After(t) = (tasks \ {t}) \union {u}
        BY DEF After
      <3> HIDE DEF u
      <3>2. Counted(tasks \ {t}) /\ Counted((tasks \ {t}) \union {u})
        BY CountMoves
      <3> QED
        BY <3>1, <3>2
    <2> QED
      BY <1>7, <2>1, CountRedrawn DEF Release, After
  <1>8. CASE Reconcile
    BY <1>8, CountStarts DEF Reconcile, Begin
  <1>9. ASSUME NEW t \in tasks, ReadLive(t) PROVE Counted(tasks)'
    BY <1>9, CountGoesOn DEF ReadLive
  <1>10. ASSUME NEW t \in tasks, ForceEnd(t) PROVE Counted(tasks)'
    BY <1>10, CountGoesOn DEF ForceEnd
  <1>11. CASE Sweep
    BY <1>11, CountStarts DEF Sweep, Begin
  <1>12. ASSUME NEW t \in tasks, Rotate(t) PROVE Counted(tasks)'
    BY <1>12, CountMoves, CountRedrawn DEF Rotate, End
  <1>13. CASE OpenStudio
    BY <1>13 DEF OpenStudio, Counted
  <1>14. CASE RefreshStudio
    BY <1>14 DEF RefreshStudio, Counted
  <1>15. CASE CopyKey
    BY <1>15 DEF CopyKey, Counted
  <1>16. CASE RotateKey
    BY <1>16, CountRedrawn DEF RotateKey
  <1>17. CASE Stop
    BY <1>17, CountStarts DEF Stop, Begin
  <1>18. CASE Remove
    BY <1>18 DEF Remove, Counted
  <1>19. CASE ReportRoom
    BY <1>19 DEF ReportRoom, Counted
  <1>20. ASSUME NEW for \in {"nobody", "report"}, ForceEndLive(for) PROVE Counted(tasks)'
    BY <1>20, CountStarts DEF ForceEndLive
  <1>21. ASSUME NEW for \in {"nobody", "report"}, Ban(for) PROVE Counted(tasks)'
    BY <1>21, CountStarts DEF Ban
  <1>22. CASE Unban
    BY <1>22 DEF Unban, Counted
  <1>23. CASE DeleteRoom
    BY <1>23 DEF DeleteRoom, Counted
  <1>24. ASSUME NEW t \in tasks, Resolve(t) PROVE Counted(tasks)'
    BY <1>24, CountGoesOn DEF Resolve
  <1>25. CASE Dismiss
    BY <1>25 DEF Dismiss, Counted
  <1>0. CASE UNCHANGED vars
    BY <1>0 DEF vars, Counted
  <1> QED
    BY <1>0, <1>1, <1>2, <1>3, <1>4, <1>5, <1>6, <1>7, <1>8, <1>9, <1>10, <1>11, <1>12,
       <1>13, <1>14, <1>15, <1>16, <1>17, <1>18, <1>19, <1>20, <1>21, <1>22, <1>23, <1>24, <1>25
    DEF Next, Owner, Admin, Proceed, Step

-----------------------------------------------------------------------------
(* The room at first, and always.                                          *)

LEMMA Initially == Init => Typed /\ ReportInv /\ BanInv /\ StreamInv
  <1> SUFFICES ASSUME Init PROVE Typed /\ ReportInv /\ BanInv /\ StreamInv
    OBVIOUS
  <1>1. Typed
    BY DEF Init, Typed, Statuses, Reports
  <1>2. ReportInv
    BY DEF Init, ReportInv, Stages, ReportKept, ReportTellsAction
  <1>3. BanInv
    BY DEF Init, BanInv, BanHolds, BanKept
  <1>4. StreamInv
    <2>1. tasks = {} /\ srs = Nil /\ Nil # "new"
      BY DEF Init
    <2>2. OnePublisher
      BY <2>1 DEF OnePublisher, Running
    <2>3. LosesKey
      BY <2>1 DEF LosesKey
    <2> QED
      BY <2>2, <2>3 DEF StreamInv
  <1> QED
    BY <1>1, <1>2, <1>3, <1>4

\* With nobody at work, a publisher of the room's key is shown.
LEMMA ShownWhenQuiet == StreamInv => PublisherIsLive
  BY DEF StreamInv, LosesKey, PublisherIsLive

\* The row, the keys, the handlers, the studio and the reports stay what
\* they are declared to be, and no more handlers run than are let in.
THEOREM LiveTypes == Spec => []TypeOK
  <1>1. Init => Typed /\ Counted(tasks)
    BY Initially, FS_EmptySet DEF Init, Counted
  <1>2. Typed /\ Counted(tasks) /\ [Next]_vars => (Typed /\ Counted(tasks))'
    BY TypedKept, CountedKept
  <1>3. Typed /\ Counted(tasks) => TypeOK
    BY DEF Typed, Counted, TypeOK
  <1> QED
    BY <1>1, <1>2, <1>3, PTL DEF Spec

\* However many administrators, hooks and loops are at work at once, a report
\* that is handled was acted for, and one that is dismissed was not, unless
\* an administrator was at it when another one dismissed it.
THEOREM ReportsTell == Spec => []ReportTellsAction
  <1>1. Init => Typed /\ ReportInv
    BY Initially
  <1>2. Typed /\ ReportInv /\ [Next]_vars => (Typed /\ ReportInv)'
    BY TypedKept, ReportKeeps
  <1>3. ReportInv => ReportTellsAction
    BY DEF ReportInv
  <1> QED
    BY <1>1, <1>2, <1>3, PTL DEF Spec

\* However many handlers are at work at once, a ban stands unless a hook or
\* the reconciliation was under way with it, and when they are done an
\* encoder that publishes under the room's key publishes into a live room.
THEOREM StatusFitsAlways == Spec => []StatusFits
  <1>1. Init => Typed /\ BanInv /\ StreamInv
    BY Initially
  <1>2. Typed /\ BanInv /\ StreamInv /\ [Next]_vars => (Typed /\ BanInv /\ StreamInv)'
    BY TypedKept, BanKeeps, StreamKeeps
  <1>3. BanInv /\ StreamInv => StatusFits
    BY ShownWhenQuiet DEF BanInv, StatusFits
  <1> QED
    BY <1>1, <1>2, <1>3, PTL DEF Spec

-----------------------------------------------------------------------------
(* The viewer.                                                             *)

WatchSpec == WatchInit /\ [][WatchNext]_watchVars

(* What frames and events say, and whether the last word of q on room r is *)
(* a subscription, if the connection is subscribed to s before it.         *)
Says(f, type, r) == f.type = type /\ f.room = r
Ends(q, s, r) ==
  \/ \E i \in 1..Len(q) : /\ Says(q[i], "subscribe", r)
                          /\ \A j \in i + 1..Len(q) : ~Says(q[j], "unsubscribe", r)
  \/ r \in s /\ \A j \in 1..Len(q) : ~Says(q[j], "unsubscribe", r)

(* The connection will be subscribed to the room that is watched.          *)
Told ==
  IF sock THEN \A r \in Rooms : Ends(up, subs, r) <=> r = active /\ ~deaf
          ELSE up = <<>> /\ down = <<>> /\ subs = {} /\ (active # Nothing => deaf)

(* Where in q there is something for room r, and which danmaku that are.   *)
Of(q, type, r) == {i \in 1..Len(q) : Says(q[i], type, r)}
Carried(q, type, r) == {q[i].n : i \in Of(q, type, r)}

(* The history is that of the room that is watched, and nothing is on its  *)
(* way beside it; once it is shown, the list and what comes are the chat   *)
(* and what goes.                                                          *)
HistTold == hist # Nothing => active # Nothing /\ hist.room = active
Whole(a) ==
  IF hist # Nothing
  THEN /\ Of(down, "recv", a) = {} /\ Of(up, "send", a) = {}
       /\ hist.got # Nothing => hist.got = chat[a]
  ELSE /\ Danmaku(list) \union Carried(down, "recv", a) = Danmaku(chat[a]) \union Carried(up, "send", a)
       /\ Len(list) + Cardinality(Of(down, "recv", a)) = Len(chat[a]) + Cardinality(Of(up, "send", a))
ChatTold == active # Nothing /\ ~deaf /\ ~spoilt => Whole(active)

WatchInv == WatchTypeOK /\ Told /\ HistTold /\ ChatTold

LEMMA Joined ==
  ASSUME NEW S, NEW q \in Seq(S), NEW f \in S, NEW g \in S
  PROVE  /\ q \o <<f>> = Append(q, f) /\ q \o (<<>> \o <<f>>) = Append(q, f)
         /\ q \o (<<f>> \o <<g>>) = Append(Append(q, f), g)
  OBVIOUS

LEMMA Added ==
  ASSUME NEW S, NEW q \in Seq(S), NEW f \in S
  PROVE  /\ Append(q, f) \in Seq(S) /\ Len(Append(q, f)) = Len(q) + 1 /\ Len(q) \in Nat
         /\ Append(q, f)[Len(q) + 1] = f /\ \A i \in 1..Len(q) : Append(q, f)[i] = q[i]
  OBVIOUS

LEMMA Shifted ==
  ASSUME NEW S, NEW q \in Seq(S), q # <<>>
  PROVE  /\ Tail(q) \in Seq(S) /\ Len(q) \in Nat \ {0} /\ Len(Tail(q)) = Len(q) - 1
         /\ Head(q) \in S /\ Head(q) = q[1]
         /\ \A i \in 1..Len(Tail(q)) : Tail(q)[i] = q[i + 1]
  OBVIOUS

(* A word more at the end of q, and the first word taken.                  *)
LEMMA EndsAdded ==
  ASSUME NEW S, NEW q \in Seq(S), NEW f \in S, NEW s, NEW r
  PROVE  Ends(Append(q, f), s, r) <=>
           Says(f, "subscribe", r) \/ (~Says(f, "unsubscribe", r) /\ Ends(q, s, r))
  <1> DEFINE p == Append(q, f)
  <1>1. Len(p) = Len(q) + 1 /\ Len(q) \in Nat /\ p[Len(q) + 1] = f /\ \A i \in 1..Len(q) : p[i] = q[i]
    BY Added
  <1> HIDE DEF p
  <1>2. CASE Says(f, "subscribe", r)
    <2>1. \A j \in Len(q) + 1 + 1..Len(p) : ~Says(p[j], "unsubscribe", r)
      BY <1>1
    <2> QED
      BY <1>1, <1>2, <2>1 DEF Ends, p
  <1>3. CASE Says(f, "unsubscribe", r)
    <2>1. ~Says(f, "subscribe", r)
      BY <1>3 DEF Says
    <2>2. \A i \in 1..Len(p) : Says(p[i], "subscribe", r) => Len(p) \in i + 1..Len(p)
      BY <1>1, <2>1
    <2>3. ~Ends(p, s, r)
      BY <1>1, <1>3, <2>2 DEF Ends
    <2> QED
      BY <1>3, <2>1, <2>3 DEF p
  <1>4. CASE ~Says(f, "subscribe", r) /\ ~Says(f, "unsubscribe", r)
    <2>1. ASSUME NEW i \in 0..Len(q)
          PROVE  (\A j \in i + 1..Len(p) : ~Says(p[j], "unsubscribe", r))
                   <=> \A j \in i + 1..Len(q) : ~Says(q[j], "unsubscribe", r)
      BY <1>1, <1>4
    <2>2. \A i \in 1..Len(p) : Says(p[i], "subscribe", r) => i \in 1..Len(q) /\ Says(q[i], "subscribe", r)
      BY <1>1, <1>4
    <2>3. Ends(p, s, r) <=> Ends(q, s, r)
      <3>1. (\A j \in 1..Len(p) : ~Says(p[j], "unsubscribe", r)) <=> \A j \in 1..Len(q) : ~Says(q[j], "unsubscribe", r)
        BY <1>1, <1>4
      <3> QED
        BY <1>1, <2>1, <2>2, <3>1 DEF Ends
    <2> QED
      BY <1>4, <2>3 DEF p
  <1> QED
    BY <1>2, <1>3, <1>4

LEMMA EndsTaken ==
  ASSUME NEW S, NEW q \in Seq(S), q # <<>>, NEW s, NEW z, NEW r,
         r \in z <=> Says(Head(q), "subscribe", r) \/ (~Says(Head(q), "unsubscribe", r) /\ r \in s)
  PROVE  Ends(Tail(q), z, r) <=> Ends(q, s, r)
  <1> DEFINE t == Tail(q)
             f == Head(q)
  <1>1. /\ Len(q) \in Nat \ {0} /\ Len(t) = Len(q) - 1 /\ f = q[1]
        /\ \A i \in 1..Len(t) : t[i] = q[i + 1]
    BY Shifted
  <1>2. r \in z <=> Says(f, "subscribe", r) \/ (~Says(f, "unsubscribe", r) /\ r \in s)
    OBVIOUS
  <1> HIDE DEF t, f
  <1>3. ~(Says(f, "subscribe", r) /\ Says(f, "unsubscribe", r))
    BY DEF Says
  <1>4. ASSUME NEW i \in 0..Len(t)
        PROVE  (\A j \in i + 1..Len(t) : ~Says(t[j], "unsubscribe", r))
                 <=> \A j \in i + 2..Len(q) : ~Says(q[j], "unsubscribe", r)
    <2>1. \A j \in i + 1..Len(t) : j + 1 \in i + 2..Len(q) /\ t[j] = q[j + 1]
      BY <1>1
    <2>2. \A j \in i + 2..Len(q) : j - 1 \in i + 1..Len(t) /\ t[j - 1] = q[j]
      BY <1>1
    <2> QED
      BY <2>1, <2>2
  <1>5. ASSUME Ends(t, z, r) PROVE Ends(q, s, r)
    <2>1. ASSUME NEW i \in 1..Len(t), Says(t[i], "subscribe", r),
                 \A j \in i + 1..Len(t) : ~Says(t[j], "unsubscribe", r)
          PROVE  Ends(q, s, r)
      <3>1. i + 1 \in 1..Len(q) /\ Says(q[i + 1], "subscribe", r)
        BY <1>1, <2>1
      <3>2. \A j \in i + 1 + 1..Len(q) : ~Says(q[j], "unsubscribe", r)
        BY <1>4, <2>1
      <3> QED
        BY <3>1, <3>2 DEF Ends
    <2>2. ASSUME r \in z, \A j \in 0 + 1..Len(t) : ~Says(t[j], "unsubscribe", r)
          PROVE  Ends(q, s, r)
      <3>1. \A j \in 0 + 2..Len(q) : ~Says(q[j], "unsubscribe", r)
        <4>1. 0 \in 0..Len(t)
          BY <1>1
        <4> QED
          BY <1>4, <2>2, <4>1
      <3>2. CASE Says(f, "subscribe", r)
        <4>1. 1 \in 1..Len(q) /\ \A j \in 1 + 1..Len(q) : ~Says(q[j], "unsubscribe", r)
          BY <1>1, <3>1
        <4> QED
          BY <1>1, <3>2, <4>1 DEF Ends
      <3>3. CASE ~Says(f, "unsubscribe", r) /\ r \in s
        <4>1. \A j \in 1..Len(q) : ~Says(q[j], "unsubscribe", r)
          BY <1>1, <3>1, <3>3
        <4> QED
          BY <3>3, <4>1 DEF Ends
      <3> QED
        BY <1>2, <2>2, <3>2, <3>3
    <2> QED
      BY <1>5, <2>1, <2>2 DEF Ends
  <1>6. ASSUME Ends(q, s, r) PROVE Ends(t, z, r)
    <2>1. ASSUME NEW i \in 1..Len(q), i # 1, Says(q[i], "subscribe", r),
                 \A j \in i + 1..Len(q) : ~Says(q[j], "unsubscribe", r)
          PROVE  Ends(t, z, r)
      <3>1. i - 1 \in 1..Len(t) /\ Says(t[i - 1], "subscribe", r) /\ i - 1 + 1 = i
        BY <1>1, <2>1
      <3>2. \A j \in i - 1 + 1..Len(t) : ~Says(t[j], "unsubscribe", r)
        <4>1. i - 1 + 2 = i + 1 /\ i - 1 \in 0..Len(t)
          BY <3>1
        <4> QED
          BY <1>4, <2>1, <4>1
      <3> QED
        BY <3>1, <3>2 DEF Ends
    <2>2. ASSUME r \in z, \A j \in 2..Len(q) : ~Says(q[j], "unsubscribe", r)
          PROVE  Ends(t, z, r)
      <3>1. \A j \in 1..Len(t) : ~Says(t[j], "unsubscribe", r)
        BY <1>1, <2>2
      <3> QED
        BY <2>2, <3>1 DEF Ends
    <2>3. ASSUME Says(q[1], "subscribe", r), \A j \in 1 + 1..Len(q) : ~Says(q[j], "unsubscribe", r)
          PROVE  Ends(t, z, r)
      BY <1>1, <1>2, <2>2, <2>3
    <2>4. ASSUME r \in s, \A j \in 1..Len(q) : ~Says(q[j], "unsubscribe", r)
          PROVE  Ends(t, z, r)
      BY <1>1, <1>2, <2>2, <2>4
    <2> QED
      BY <1>6, <2>1, <2>3, <2>4 DEF Ends
  <1> QED
    BY <1>5, <1>6 DEF t

(* The danmaku for a room that are on their way, likewise.                 *)
LEMMA OfFinite ==
  ASSUME NEW S, NEW q \in Seq(S), NEW type, NEW r
  PROVE  IsFiniteSet(Of(q, type, r)) /\ Cardinality(Of(q, type, r)) \in Nat
  <1>1. IsFiniteSet(1..Len(q))
    BY FS_Interval
  <1>2. Of(q, type, r) \in SUBSET (1..Len(q))
    BY DEF Of
  <1> QED
    BY <1>1, <1>2, FS_Subset, FS_CardinalityType

LEMMA OfAdded ==
  ASSUME NEW S, NEW q \in Seq(S), NEW f \in S, NEW type, NEW r
  PROVE  LET p == Append(q, f)
         IN IF Says(f, type, r)
            THEN /\ Carried(p, type, r) = Carried(q, type, r) \union {f.n}
                 /\ Cardinality(Of(p, type, r)) = Cardinality(Of(q, type, r)) + 1
            ELSE /\ Of(p, type, r) = Of(q, type, r) /\ Carried(p, type, r) = Carried(q, type, r)
  <1> DEFINE p == Append(q, f)
  <1>1. Len(p) = Len(q) + 1 /\ Len(q) \in Nat /\ p[Len(q) + 1] = f /\ \A i \in 1..Len(q) : p[i] = q[i]
    BY Added
  <1> HIDE DEF p
  <1>2. CASE Says(f, type, r)
    <2>1. Of(p, type, r) = Of(q, type, r) \union {Len(q) + 1} /\ Len(q) + 1 \notin Of(q, type, r)
      BY <1>1, <1>2 DEF Of
    <2>2. Cardinality(Of(p, type, r)) = Cardinality(Of(q, type, r)) + 1
      BY <2>1, OfFinite, FS_AddElement
    <2>3. \A i \in Of(q, type, r) : p[i] = q[i]
      BY <1>1 DEF Of
    <2>4. Carried(p, type, r) = Carried(q, type, r) \union {f.n}
      BY <1>1, <2>1, <2>3 DEF Carried
    <2> QED
      BY <1>2, <2>2, <2>4 DEF p
  <1>3. CASE ~Says(f, type, r)
    <2>1. Of(p, type, r) = Of(q, type, r)
      BY <1>1, <1>3 DEF Of
    <2>2. \A i \in Of(q, type, r) : p[i] = q[i]
      BY <1>1 DEF Of
    <2> QED
      BY <1>3, <2>1, <2>2 DEF Carried, p
  <1> QED
    BY <1>2, <1>3

LEMMA OfTaken ==
  ASSUME NEW S, NEW q \in Seq(S), q # <<>>, NEW type, NEW r
  PROVE  LET t == Tail(q)
         IN IF Says(Head(q), type, r)
            THEN /\ Carried(q, type, r) = Carried(t, type, r) \union {Head(q).n}
                 /\ Cardinality(Of(q, type, r)) = Cardinality(Of(t, type, r)) + 1
            ELSE /\ Carried(q, type, r) = Carried(t, type, r)
                 /\ Cardinality(Of(q, type, r)) = Cardinality(Of(t, type, r))
                 /\ Of(q, type, r) = {} => Of(t, type, r) = {}
  <1> DEFINE t == Tail(q)
             f == Head(q)
             A == Of(t, type, r)
             B == {i + 1 : i \in A}
             h == [i \in A |-> i + 1]
  <1>1. /\ t \in Seq(S) /\ Len(q) \in Nat \ {0} /\ Len(t) = Len(q) - 1 /\ f = q[1]
        /\ \A i \in 1..Len(t) : t[i] = q[i + 1]
    BY Shifted
  <1>2. IsFiniteSet(A) /\ Cardinality(A) \in Nat
    BY <1>1, OfFinite
  <1> HIDE DEF t, f
  <1>3. A \subseteq 1..Len(t) /\ 1 \notin B
    BY <1>1 DEF Of
  <1>4. IsFiniteSet(B) /\ Cardinality(B) = Cardinality(A)
    <2>1. h \in Bijection(A, B)
      <3>1. h \in [A -> B] /\ \A b \in B : \E a \in A : h[a] = b
        OBVIOUS
      <3>2. \A a, b \in A : h[a] = h[b] => a = b
        BY <1>1, <1>3
      <3> HIDE DEF A, B, h
      <3>3. h \in Injection(A, B)
        BY <3>1, <3>2 DEF Injection, IsInjective
      <3>4. h \in Surjection(A, B)
        BY <3>1 DEF Surjection
      <3> QED
        BY <3>3, <3>4 DEF Bijection
    <2>2. ExistsBijection(A, B)
      BY <2>1 DEF ExistsBijection
    <2> QED
      BY <1>2, <2>2, FS_Bijection
  <1>5. \A i \in A : t[i] = q[i + 1]
    BY <1>1, <1>3
  <1>6. Of(q, type, r) = B \union (IF Says(f, type, r) THEN {1} ELSE {})
    <2>1. \A i \in B : i \in Of(q, type, r)
      BY <1>1, <1>3 DEF Of
    <2>2. \A i \in Of(q, type, r) : i # 1 => i - 1 \in A /\ i = i - 1 + 1
      BY <1>1 DEF Of
    <2>3. 1 \in Of(q, type, r) <=> Says(f, type, r)
      BY <1>1 DEF Of
    <2> QED
      BY <2>1, <2>2, <2>3
  <1>7. {q[i].n : i \in B} = Carried(t, type, r)
    BY <1>5 DEF Carried
  <1>8. CASE Says(f, type, r)
    <2>1. Cardinality(Of(q, type, r)) = Cardinality(A) + 1
      BY <1>3, <1>4, <1>6, <1>8, FS_AddElement
    <2>2. Carried(q, type, r) = Carried(t, type, r) \union {f.n}
      BY <1>1, <1>6, <1>7, <1>8 DEF Carried
    <2> QED
      BY <1>8, <2>1, <2>2 DEF t, f
  <1>9. CASE ~Says(f, type, r)
    <2>1. Of(q, type, r) = B
      BY <1>6, <1>9
    <2>2. Of(q, type, r) = {} => A = {}
      BY <2>1
    <2> QED
      BY <1>4, <1>7, <1>9, <2>1, <2>2 DEF Carried, t, f
  <1> QED
    BY <1>8, <1>9

(* The frames and events there are.                                        *)
Word(type, r, n) == [type |-> type, room |-> r, n |-> n]

LEMMA Words ==
  ASSUME NEW r \in Rooms
  PROVE  /\ \A type \in {"subscribe", "unsubscribe"} : Word(type, r, 0) \in Frames
         /\ \A n \in 1..MaxSent : Word("send", r, n) \in Frames /\ Word("recv", r, n) \in Events
         /\ \A type \in {"deleted", "updated"} : Word(type, r, 0) \in Events
         /\ \A type, n : /\ Frame(type, r, n) = <<Word(type, r, n)>>
                         /\ Word(type, r, n).type = type /\ Word(type, r, n).room = r /\ Word(type, r, n).n = n
  BY DEF Word, Frames, Events, Frame

LEMMA FrameFields ==
  ASSUME NEW f \in Frames
  PROVE  /\ f.room \in Rooms /\ f.type \in {"subscribe", "unsubscribe", "send"}
         /\ f.type = "send" => f.n \in 1..MaxSent
  BY DEF Frames

LEMMA EventFields ==
  ASSUME NEW f \in Events
  PROVE  /\ f.room \in Rooms /\ f.type \in {"recv", "deleted", "updated"}
         /\ f.type = "recv" => f.n \in 1..MaxSent
  BY DEF Events

LEMMA HistFields ==
  /\ \A r \in Rooms, g \in Seq(1..MaxSent) \union {Nothing} :
        [room |-> r, got |-> g] \in Histories /\ [room |-> r, got |-> g] # Nothing
  /\ \A h \in Histories : h.room \in Rooms /\ h.got \in Seq(1..MaxSent) \union {Nothing}
  /\ \A h \in Histories, g \in Seq(1..MaxSent) :
        LET k == [h EXCEPT !.got = g] IN k \in Histories /\ k # Nothing /\ k.room = h.room /\ k.got = g
  /\ \A g \in Seq(1..MaxSent) : g # Nothing
  BY WatchAssumption DEF Histories

(* A room is mounted: in place of the list, or of another room.            *)
LEMMA MountKept ==
  ASSUME WatchInv, NEW r \in Rooms, NEW leave, Mounted(r, leave),
         \/ active = Nothing /\ leave = <<>>
         \/ active # Nothing /\ active # r /\ leave = Frame("unsubscribe", active, 0),
         link' \in Rooms \union {Nothing}, list' \in Seq(1..MaxSent),
         UNCHANGED <<sock, down, server, sent>>
  PROVE  WatchInv'
  <1> DEFINE w == Word("subscribe", r, 0)
  <1>1. /\ WatchTypeOK /\ up \in Seq(Frames) /\ w \in Frames /\ Says(w, "subscribe", r)
        /\ r # Nothing /\ active \in Rooms \union {Nothing}
        /\ \A x \in Rooms : ~Says(w, "unsubscribe", x) /\ (Says(w, "subscribe", x) <=> x = r)
        /\ \A x \in Rooms : ~Says(w, "send", x)
        /\ Frame("subscribe", r, 0) = <<w>>
    BY Words, WatchAssumption DEF WatchInv, WatchTypeOK, Says
  <1>2. active' = r /\ hist' = [room |-> r, got |-> Nothing] /\ deaf' = ~sock
        /\ timers' \in {{}, {"old"}}
    BY DEF Mounted
  <1>3. PICK p \in Seq(Frames) :
          /\ \A x \in Rooms : sock => ~Ends(p, subs, x)
          /\ \A x \in Rooms : Of(p, "send", x) = Of(up, "send", x)
          /\ up' = IF sock THEN Append(p, w) ELSE up
    <2>1. CASE active = Nothing /\ leave = <<>>
      <3>1. up' = IF sock THEN Append(up, w) ELSE up
        <4>1. up \o (<<>> \o <<w>>) = Append(up, w)
          BY <1>1, Joined
        <4>2. up' = IF sock THEN up \o (leave \o Frame("subscribe", r, 0)) ELSE up
          BY DEF Mounted, Sends
        <4> QED
          BY <1>1, <2>1, <4>1, <4>2
      <3>2. \A x \in Rooms : sock => ~Ends(up, subs, x)
        BY <2>1, WatchAssumption DEF WatchInv, Told
      <3> QED
        BY <1>1, <3>1, <3>2
    <2>2. CASE active # Nothing /\ leave = Frame("unsubscribe", active, 0)
      <3> DEFINE v == Word("unsubscribe", active, 0)
                 p == Append(up, v)
      <3>1. /\ active \in Rooms /\ v \in Frames /\ leave = <<v>> /\ Says(v, "unsubscribe", active)
            /\ \A x \in Rooms : ~Says(v, "subscribe", x) /\ ~Says(v, "send", x)
        BY <1>1, <2>2, Words DEF Says
      <3>2. up' = IF sock THEN Append(p, w) ELSE up
        <4>1. up \o (<<v>> \o <<w>>) = Append(Append(up, v), w)
          BY <1>1, <3>1, Joined
        <4>2. up' = IF sock THEN up \o (leave \o Frame("subscribe", r, 0)) ELSE up
          BY DEF Mounted, Sends
        <4> QED
          BY <1>1, <3>1, <4>1, <4>2
      <3>3. p \in Seq(Frames)
        BY <1>1, <3>1, Added
      <3> HIDE DEF v
      <3>4. ASSUME NEW x \in Rooms, sock PROVE ~Ends(p, subs, x)
        <4>1. Ends(p, subs, x) <=> Says(v, "subscribe", x) \/ (~Says(v, "unsubscribe", x) /\ Ends(up, subs, x))
          BY <1>1, <3>1, EndsAdded
        <4>2. Ends(up, subs, x) => x = active
          BY <3>4 DEF WatchInv, Told
        <4> QED
          BY <3>1, <4>1, <4>2
      <3>5. \A x \in Rooms : Of(p, "send", x) = Of(up, "send", x)
        BY <1>1, <3>1, OfAdded
      <3> QED
        BY <3>2, <3>3, <3>4, <3>5
    <2> QED
      BY <2>1, <2>2
  <1> HIDE DEF w
  <1>4. up' \in Seq(Frames) /\ \A x \in Rooms : Of(up', "send", x) = Of(up, "send", x)
    BY <1>1, <1>3, Added, OfAdded
  <1>5. spoilt' \in BOOLEAN /\ (~spoilt' => Of(down, "recv", r) = {} /\ Of(up, "send", r) = {})
    BY DEF Mounted, Of, Says
  <1>6. WatchTypeOK'
    BY <1>1, <1>2, <1>4, <1>5, HistFields DEF WatchTypeOK, server
  <1>7. Told'
    <2>1. CASE sock
      <3>1. \A x \in Rooms : Ends(up', subs, x) <=> x = r
        BY <1>1, <1>3, <2>1, EndsAdded
      <3> QED
        BY <1>2, <2>1, <3>1 DEF Told, server
    <2>2. CASE ~sock
      BY <1>2, <1>3, <2>2 DEF Told, WatchInv, server
    <2> QED
      BY <2>1, <2>2
  <1>8. HistTold' /\ ChatTold'
    <2>1. hist' # Nothing /\ hist'.room = r /\ hist'.got = Nothing
      BY <1>2, HistFields
    <2> QED
      BY <1>1, <1>2, <1>4, <1>5, <2>1 DEF HistTold, ChatTold, Whole
  <1> QED
    BY <1>6, <1>7, <1>8 DEF WatchInv

(* Watch goes.                                                             *)
LEMMA LeftKept ==
  ASSUME WatchInv, active # Nothing, Left, timers' \subseteq {"own", "old"}
  PROVE  WatchInv'
  <1> DEFINE w == Word("unsubscribe", active, 0)
  <1>1. /\ WatchTypeOK /\ up \in Seq(Frames) /\ active \in Rooms /\ w \in Frames
        /\ Says(w, "unsubscribe", active) /\ Frame("unsubscribe", active, 0) = <<w>>
        /\ \A x \in Rooms : ~Says(w, "subscribe", x)
    BY Words DEF WatchInv, WatchTypeOK, Says
  <1>2. /\ active' = Nothing /\ list' = <<>> /\ hist' = Nothing /\ deaf' = FALSE /\ spoilt' = FALSE
        /\ up' = IF sock THEN Append(up, w) ELSE up
        /\ UNCHANGED <<link, sock, down, server, sent>>
    BY <1>1, Joined DEF Left, Sends
  <1> HIDE DEF w
  <1>3. up' \in Seq(Frames)
    BY <1>1, <1>2, Added
  <1>4. WatchTypeOK'
    <2>1. list' \in Seq(1..MaxSent)
      BY <1>2
    <2> QED
      BY <1>1, <1>2, <1>3, <2>1 DEF WatchTypeOK, server
  <1>5. Told'
    <2>1. CASE sock
      <3>1. ASSUME NEW x \in Rooms PROVE ~Ends(up', subs, x)
        <4>1. Ends(up', subs, x) <=> Says(w, "subscribe", x) \/ (~Says(w, "unsubscribe", x) /\ Ends(up, subs, x))
          BY <1>1, <1>2, <2>1, EndsAdded
        <4>2. Ends(up, subs, x) => x = active
          BY <2>1 DEF WatchInv, Told
        <4> QED
          BY <1>1, <4>1, <4>2
      <3> QED
        BY <1>2, <2>1, <3>1, WatchAssumption DEF Told, server
    <2>2. CASE ~sock
      BY <1>2, <2>2 DEF Told, WatchInv, server
    <2> QED
      BY <2>1, <2>2
  <1> QED
    BY <1>2, <1>4, <1>5 DEF WatchInv, HistTold, ChatTold

LEMMA PageKept ==
  ASSUME WatchInv, Page
  PROVE  WatchInv'
  <1>1. CASE Leave
    BY <1>1, LeftKept DEF Leave
  <1>2. CASE LinkOpens
    <2>1. CASE link = active \/ link \in closed
      BY <1>2, <2>1 DEF LinkOpens, WatchInv, WatchTypeOK, Told, HistTold, ChatTold, Whole, server
    <2>2. CASE ~(link = active \/ link \in closed)
      <3>1. /\ link # Nothing /\ link' = Nothing /\ list' = IF active = Nothing THEN <<>> ELSE list
            /\ Mounted(link, IF active = Nothing THEN <<>> ELSE Frame("unsubscribe", active, 0))
            /\ UNCHANGED <<sock, down, server, sent>>
        BY <1>2, <2>2, Zenon DEF LinkOpens
      <3>2. <<>> \in Seq(1..MaxSent) /\ list \in Seq(1..MaxSent) /\ link \in Rooms
        BY <3>1 DEF WatchInv, WatchTypeOK
      <3>3. list' \in Seq(1..MaxSent)
        BY <3>1, <3>2
      <3>4. CASE active = Nothing
        BY <3>1, <3>2, <3>3, <3>4, MountKept
      <3>5. CASE active # Nothing
        BY <2>2, <3>1, <3>2, <3>3, <3>5, MountKept
      <3> QED
        BY <3>4, <3>5
    <2> QED
      BY <2>1, <2>2
  <1>3. ASSUME NEW r \in Rooms, Open(r) PROVE WatchInv'
    <2>1. link' \in Rooms \union {Nothing} /\ list' \in Seq(1..MaxSent) /\ active = Nothing
      BY <1>3 DEF Open, WatchInv, WatchTypeOK
    <2> QED
      BY <1>3, <2>1, MountKept DEF Open
  <1>4. ASSUME NEW k \in {"own", "old"}, Bounce(k) PROVE WatchInv'
    <2>1. CASE active # Nothing
      <3>1. timers' \subseteq {"own", "old"} /\ Left
        BY <1>4, <2>1 DEF Bounce
      <3> QED
        BY <2>1, <3>1, LeftKept
    <2>2. CASE active = Nothing
      BY <1>4, <2>2 DEF Bounce, WatchInv, WatchTypeOK, Told, HistTold, ChatTold, Whole, server
    <2> QED
      BY <2>1, <2>2
  <1> QED
    BY <1>1, <1>2, <1>3, <1>4 DEF Page

(* The list and a chat with one more danmaku.                              *)
LEMMA Said ==
  ASSUME NEW s \in Seq(1..MaxSent), NEW n \in 1..MaxSent
  PROVE  /\ Append(s, n) \in Seq(1..MaxSent) /\ Danmaku(Append(s, n)) = Danmaku(s) \union {n}
         /\ Len(Append(s, n)) = Len(s) + 1 /\ Len(s) \in Nat
  <1> DEFINE t == Append(s, n)
  <1>1. t \in Seq(1..MaxSent) /\ Len(t) = Len(s) + 1 /\ Len(s) \in Nat /\ t[Len(s) + 1] = n
        /\ \A i \in 1..Len(s) : t[i] = s[i]
    BY Added
  <1> HIDE DEF t
  <1>2. 1..Len(t) = 1..Len(s) \union {Len(s) + 1}
    BY <1>1
  <1>3. Danmaku(t) = Danmaku(s) \union {n}
    BY <1>1, <1>2 DEF Danmaku
  <1> QED
    BY <1>1, <1>3 DEF t

(* The numbers of what is on its way.                                      *)
LEMMA Counts ==
  ASSUME WatchTypeOK, NEW r
  PROVE  /\ Cardinality(Of(up, "send", r)) \in Nat /\ Cardinality(Of(down, "recv", r)) \in Nat
         /\ Len(list) \in Nat /\ \A x \in Rooms : chat[x] \in Seq(1..MaxSent) /\ Len(chat[x]) \in Nat
  BY OfFinite DEF WatchTypeOK

LEMMA HistoryKept ==
  ASSUME WatchInv, HistoryRead \/ HistoryShown
  PROVE  WatchInv'
  <1> USE DEF WatchInv
  <1>1. hist \in Histories /\ hist # Nothing /\ active \in Rooms /\ hist.room = active
    BY DEF HistoryRead, HistoryShown, WatchTypeOK, HistTold
  <1>2. chat[active] \in Seq(1..MaxSent)
    BY <1>1 DEF WatchTypeOK
  <1>3. CASE HistoryRead
    <2>1. /\ hist' \in Histories /\ hist' # Nothing /\ hist'.room = active /\ hist'.got = chat[active]
          /\ UNCHANGED <<link, active, list, timers, sock, up, down, server, sent, deaf, spoilt>>
      BY <1>1, <1>2, <1>3, HistFields DEF HistoryRead
    <2>2. WatchTypeOK'
      BY <2>1 DEF WatchTypeOK, server
    <2>3. Told'
      BY <2>1 DEF Told, server
    <2>4. HistTold'
      BY <1>1, <2>1 DEF HistTold
    <2>5. ChatTold'
      BY <1>1, <2>1 DEF ChatTold, Whole, server
    <2> QED
      BY <2>2, <2>3, <2>4, <2>5
  <1>4. CASE HistoryShown
    <2>1. /\ hist.got # Nothing /\ list' = hist.got /\ hist' = Nothing /\ hist.got \in Seq(1..MaxSent)
          /\ UNCHANGED <<link, active, timers, sock, up, down, server, sent, deaf, spoilt>>
      BY <1>1, <1>4, HistFields DEF HistoryShown
    <2>2. WatchTypeOK'
      BY <2>1 DEF WatchTypeOK, server
    <2>3. Told' /\ HistTold'
      BY <2>1 DEF Told, HistTold, server
    <2>4. ASSUME active # Nothing, ~deaf, ~spoilt PROVE Whole(active)'
      <3>1. list' = chat[active] /\ Of(down, "recv", active) = {} /\ Of(up, "send", active) = {}
        BY <1>1, <2>1, <2>4 DEF ChatTold, Whole
      <3> QED
        BY <2>1, <3>1 DEF Whole, Carried, server
    <2> QED
      BY <2>1, <2>2, <2>3, <2>4 DEF ChatTold
  <1> QED
    BY <1>3, <1>4

(* A danmaku of the viewer, on the page and on its way.                    *)
LEMMA SendKept ==
  ASSUME WatchInv, SendDanmaku
  PROVE  WatchInv'
  <1> USE DEF WatchInv
  <1> DEFINE w == Word("send", active, sent + 1)
  <1>1. /\ WatchTypeOK /\ active \in Rooms /\ sent + 1 \in 1..MaxSent /\ sock
        /\ up \in Seq(Frames) /\ list \in Seq(1..MaxSent)
    BY WatchAssumption DEF SendDanmaku, WatchTypeOK
  <1>2. /\ w \in Frames /\ Frame("send", active, sent + 1) = <<w>> /\ w.n = sent + 1 /\ Says(w, "send", active)
        /\ \A x \in Rooms : ~Says(w, "subscribe", x) /\ ~Says(w, "unsubscribe", x)
    BY <1>1, Words DEF Says
  <1>3. up' = Append(up, w)
    <2>1. up' = IF sock THEN up \o Frame("send", active, sent + 1) ELSE up
      BY DEF SendDanmaku, Sends
    <2>2. up \o <<w>> = Append(up, w)
      BY <1>1, <1>2, Joined
    <2> QED
      BY <1>1, <1>2, <2>1, <2>2
  <1>4. /\ list' = Append(list, sent + 1) /\ sent' = sent + 1 /\ spoilt' = (spoilt \/ hist # Nothing)
        /\ UNCHANGED <<link, active, hist, timers, sock, down, server, deaf>>
    BY DEF SendDanmaku
  <1> HIDE DEF w
  <1>5. WatchTypeOK'
    <2>1. up' \in Seq(Frames) /\ list' \in Seq(1..MaxSent) /\ sent' \in 0..MaxSent /\ spoilt' \in BOOLEAN
      BY <1>1, <1>2, <1>3, <1>4, Added, Said
    <2> QED
      BY <1>1, <1>4, <2>1 DEF WatchTypeOK, server
  <1>6. Told'
    <2>1. \A x \in Rooms : Ends(up', subs, x) <=> Ends(up, subs, x)
      BY <1>1, <1>2, <1>3, EndsAdded
    <2> QED
      BY <1>1, <1>4, <2>1 DEF Told, server
  <1>7. HistTold'
    BY <1>4 DEF HistTold
  <1>8. ASSUME ~deaf, ~spoilt, hist = Nothing PROVE Whole(active)'
    <2>1. /\ Carried(up', "send", active) = Carried(up, "send", active) \union {sent + 1}
          /\ Cardinality(Of(up', "send", active)) = Cardinality(Of(up, "send", active)) + 1
      BY <1>1, <1>2, <1>3, OfAdded
    <2>2. Danmaku(list') = Danmaku(list) \union {sent + 1} /\ Len(list') = Len(list) + 1
      BY <1>1, <1>4, Said
    <2>3. /\ Danmaku(list) \union Carried(down, "recv", active) = Danmaku(chat[active]) \union Carried(up, "send", active)
          /\ Len(list) + Cardinality(Of(down, "recv", active)) = Len(chat[active]) + Cardinality(Of(up, "send", active))
      BY <1>1, <1>8, WatchAssumption DEF ChatTold, Whole
    <2>4. Danmaku(list') \union Carried(down, "recv", active) = Danmaku(chat[active]) \union Carried(up', "send", active)
      BY <2>1, <2>2, <2>3
    <2>5. Len(list') + Cardinality(Of(down, "recv", active)) = Len(chat[active]) + Cardinality(Of(up', "send", active))
      <3>1. /\ Len(list) \in Nat /\ Len(chat[active]) \in Nat
            /\ Cardinality(Of(up, "send", active)) \in Nat /\ Cardinality(Of(down, "recv", active)) \in Nat
        BY <1>1, Counts
      <3> QED
        BY <2>1, <2>2, <2>3, <3>1
    <2> QED
      BY <1>4, <1>8, <2>4, <2>5 DEF Whole, server
  <1> QED
    BY <1>4, <1>5, <1>6, <1>7, <1>8 DEF ChatTold

(* A danmaku of somebody else, kept and on its way.                        *)
LEMMA OthersKept ==
  ASSUME WatchInv, NEW r \in Rooms, Others(r)
  PROVE  WatchInv'
  <1> USE DEF WatchInv
  <1> DEFINE w == Word("recv", r, sent + 1)
  <1>1. /\ WatchTypeOK /\ sent + 1 \in 1..MaxSent /\ down \in Seq(Events) /\ chat[r] \in Seq(1..MaxSent)
        /\ chat \in [Rooms -> Seq(1..MaxSent)]
    BY WatchAssumption DEF Others, WatchTypeOK
  <1>2. /\ w \in Events /\ Frame("recv", r, sent + 1) = <<w>> /\ w.n = sent + 1 /\ Says(w, "recv", r)
        /\ \A x : x # r => ~Says(w, "recv", x)
    BY <1>1, Words DEF Says
  <1>3. down' = IF r \in subs THEN Append(down, w) ELSE down
    <2>1. down' = IF r \in subs THEN down \o Frame("recv", r, sent + 1) ELSE down
      BY DEF Others
    <2>2. down \o <<w>> = Append(down, w)
      BY <1>1, <1>2, Joined
    <2> QED
      BY <1>2, <2>1, <2>2
  <1>4. /\ sent' = sent + 1 /\ chat' = [chat EXCEPT ![r] = Append(chat[r], sent + 1)]
        /\ spoilt' = (spoilt \/ (r = active /\ (hist # Nothing \/ r \notin subs)))
        /\ UNCHANGED <<link, active, list, hist, timers, sock, up, subs, closed, follows, deaf>>
    BY DEF Others
  <1> HIDE DEF w
  <1>5. WatchTypeOK'
    <2>1. down' \in Seq(Events) /\ Append(chat[r], sent + 1) \in Seq(1..MaxSent)
      BY <1>1, <1>2, <1>3, Added, Said
    <2>2. sent' \in 0..MaxSent /\ spoilt' \in BOOLEAN /\ chat' \in [Rooms -> Seq(1..MaxSent)]
      BY <1>1, <1>4, <2>1
    <2> QED
      BY <1>1, <1>4, <2>1, <2>2 DEF WatchTypeOK
  <1>6. Told'
    <2>1. ~sock => down' = down
      BY <1>3 DEF Told
    <2> QED
      BY <1>4, <2>1 DEF Told
  <1>7. HistTold'
    BY <1>4 DEF HistTold
  <1>8. ASSUME active # Nothing, ~deaf, ~spoilt, active # r PROVE Whole(active)'
    <2>1. active \in Rooms /\ chat'[active] = chat[active]
      BY <1>1, <1>4, <1>8 DEF WatchTypeOK
    <2>2. Of(down', "recv", active) = Of(down, "recv", active) /\ Carried(down', "recv", active) = Carried(down, "recv", active)
      BY <1>1, <1>2, <1>3, <1>8, OfAdded
    <2>3. Whole(active)
      BY <1>8 DEF ChatTold
    <2> QED
      BY <1>4, <2>1, <2>2, <2>3 DEF Whole
  <1>9. ASSUME active = r, hist = Nothing, r \in subs, ~deaf, ~spoilt PROVE Whole(active)'
    <2>1. /\ Carried(down', "recv", r) = Carried(down, "recv", r) \union {sent + 1}
          /\ Cardinality(Of(down', "recv", r)) = Cardinality(Of(down, "recv", r)) + 1
      BY <1>1, <1>2, <1>3, <1>9, OfAdded
    <2>2. chat'[r] = Append(chat[r], sent + 1)
      BY <1>1, <1>4
    <2>3. Danmaku(chat'[r]) = Danmaku(chat[r]) \union {sent + 1} /\ Len(chat'[r]) = Len(chat[r]) + 1
      BY <1>1, <2>2, Said
    <2>4. /\ Danmaku(list) \union Carried(down, "recv", r) = Danmaku(chat[r]) \union Carried(up, "send", r)
          /\ Len(list) + Cardinality(Of(down, "recv", r)) = Len(chat[r]) + Cardinality(Of(up, "send", r))
      BY <1>9, WatchAssumption DEF ChatTold, Whole
    <2>5. Danmaku(list) \union Carried(down', "recv", r) = Danmaku(chat'[r]) \union Carried(up, "send", r)
      BY <2>1, <2>3, <2>4
    <2>6. Len(list) + Cardinality(Of(down', "recv", r)) = Len(chat'[r]) + Cardinality(Of(up, "send", r))
      <3>1. /\ Len(list) \in Nat /\ Len(chat[r]) \in Nat
            /\ Cardinality(Of(up, "send", r)) \in Nat /\ Cardinality(Of(down, "recv", r)) \in Nat
        BY <1>1, Counts
      <3> QED
        BY <2>1, <2>3, <2>4, <3>1
    <2> QED
      BY <1>4, <1>9, <2>5, <2>6 DEF Whole
  <1> QED
    BY <1>4, <1>5, <1>6, <1>7, <1>8, <1>9 DEF ChatTold

(* The room is closed: only its event is on its way.                       *)
LEMMA CloseRoomKept ==
  ASSUME WatchInv, NEW r \in Rooms, CloseRoom(r)
  PROVE  WatchInv'
  <1> USE DEF WatchInv
  <1>1. WatchTypeOK /\ down \in Seq(Events)
    BY DEF WatchTypeOK
  <1>2. PICK w \in Events : /\ w.type \in {"deleted", "updated"} /\ down' \in {down, Append(down, w)}
                            /\ ~sock => down' = down
    <2>1. /\ \/ down' = IF r \in subs THEN down \o Frame("deleted", r, 0) ELSE down
             \/ down' = IF r \in follows /\ sock THEN down \o Frame("updated", r, 0) ELSE down
      BY DEF CloseRoom
    <2>2. \A type \in {"deleted", "updated"} : /\ Word(type, r, 0) \in Events /\ Word(type, r, 0).type = type
                                              /\ down \o Frame(type, r, 0) = Append(down, Word(type, r, 0))
      <3> SUFFICES ASSUME NEW type \in {"deleted", "updated"}
                   PROVE  /\ Word(type, r, 0) \in Events /\ Word(type, r, 0).type = type
                          /\ down \o Frame(type, r, 0) = Append(down, Word(type, r, 0))
        OBVIOUS
      <3> DEFINE v == Word(type, r, 0)
      <3>1. v \in Events /\ v.type = type /\ Frame(type, r, 0) = <<v>>
        BY Words
      <3> HIDE DEF v
      <3>2. down \o <<v>> = Append(down, v)
        BY <1>1, <3>1, Joined
      <3> QED
        BY <3>1, <3>2 DEF v
    <2>3. ~sock => subs = {}
      BY DEF Told
    <2> QED
      BY <2>1, <2>2, <2>3
  <1>3. closed' = closed \union {r}
        /\ UNCHANGED <<link, active, list, hist, timers, sock, up, subs, chat, sent, follows, deaf, spoilt>>
    BY DEF CloseRoom
  <1>4. down' \in Seq(Events)
    BY <1>1, <1>2, Added
  <1>5. \A x : Of(down', "recv", x) = Of(down, "recv", x) /\ Carried(down', "recv", x) = Carried(down, "recv", x)
    <2>1. \A x : ~Says(w, "recv", x)
      BY <1>2 DEF Says
    <2>2. CASE down' = Append(down, w)
      BY <1>1, <2>1, <2>2, OfAdded
    <2>3. CASE down' = down
      BY <2>3
    <2> QED
      BY <1>2, <2>2, <2>3
  <1>6. WatchTypeOK' /\ Told' /\ HistTold'
    BY <1>2, <1>3, <1>4 DEF WatchTypeOK, Told, HistTold
  <1>7. ChatTold'
    BY <1>3, <1>5 DEF ChatTold, Whole
  <1> QED
    BY <1>6, <1>7

(* The server serves a frame.                                              *)
LEMMA ServedKept ==
  ASSUME WatchInv, Subscribed \/ Unsubscribed \/ Sent
  PROVE  WatchInv'
  <1> USE DEF WatchInv
  <1> DEFINE f == Head(up)
             p == Tail(up)
  <1>1. /\ WatchTypeOK /\ up \in Seq(Frames) /\ up # <<>> /\ sock /\ up' = p
        /\ UNCHANGED <<link, active, list, hist, timers, sock, down, sent, closed, follows, deaf>>
    BY DEF Subscribed, Unsubscribed, Sent, Served, WatchTypeOK, Told
  <1>2. f \in Frames /\ p \in Seq(Frames)
    BY <1>1, Shifted
  <1>3. f.room \in Rooms /\ f.type \in {"subscribe", "unsubscribe", "send"} /\ (f.type = "send" => f.n \in 1..MaxSent)
    BY <1>2, FrameFields
  <1>4. /\ subs' = CASE f.type = "subscribe" -> subs \union {f.room}
                     [] f.type = "unsubscribe" -> subs \ {f.room}
                     [] OTHER -> subs
        /\ \/ chat' = chat /\ spoilt' = (spoilt \/ (f.type = "send" /\ f.room = active))
           \/ f.type # "send" /\ chat' = chat /\ spoilt' = spoilt
           \/ f.type = "send" /\ chat' = [chat EXCEPT ![f.room] = Append(chat[f.room], f.n)] /\ spoilt' = spoilt
    BY <1>1, <1>3 DEF Subscribed, Unsubscribed, Sent, Served
  <1>5. \A x \in Rooms : /\ x \in subs' <=> Says(f, "subscribe", x) \/ (~Says(f, "unsubscribe", x) /\ x \in subs)
                         /\ Ends(p, subs', x) <=> Ends(up, subs, x)
    <2>1. \A x \in Rooms : x \in subs' <=> Says(f, "subscribe", x) \/ (~Says(f, "unsubscribe", x) /\ x \in subs)
      BY <1>3, <1>4 DEF Says
    <2> QED
      BY <1>1, <2>1, EndsTaken
  <1>6. ASSUME NEW x \in Rooms
        PROVE  IF f.type = "send" /\ f.room = x
               THEN /\ Carried(up, "send", x) = Carried(p, "send", x) \union {f.n}
                    /\ Cardinality(Of(up, "send", x)) = Cardinality(Of(p, "send", x)) + 1
               ELSE /\ Carried(up, "send", x) = Carried(p, "send", x)
                    /\ Cardinality(Of(up, "send", x)) = Cardinality(Of(p, "send", x))
                    /\ Of(up, "send", x) = {} => Of(p, "send", x) = {}
    BY <1>1, OfTaken DEF Says
  <1>7. ASSUME NEW x \in Rooms, f.type = "send", f.room = x PROVE Of(up, "send", x) # {}
    BY <1>1, <1>7, Shifted DEF Of, Says
  <1> HIDE DEF f, p
  <1>8. chat' \in [Rooms -> Seq(1..MaxSent)] /\ spoilt' \in BOOLEAN /\ subs' \subseteq Rooms
    <2>1. f.type = "send" => Append(chat[f.room], f.n) \in Seq(1..MaxSent)
      BY <1>3, Said DEF WatchTypeOK
    <2>2. chat' \in [Rooms -> Seq(1..MaxSent)]
      BY <1>4, <2>1 DEF WatchTypeOK
    <2>3. subs' \subseteq Rooms
      BY <1>3, <1>4 DEF WatchTypeOK
    <2>4. spoilt' \in BOOLEAN
      BY <1>4 DEF WatchTypeOK
    <2> QED
      BY <2>2, <2>3, <2>4
  <1>9. WatchTypeOK'
    BY <1>1, <1>2, <1>8 DEF WatchTypeOK
  <1>10. Told' /\ HistTold'
    BY <1>1, <1>5 DEF Told, HistTold
  <1>11. ASSUME active # Nothing, ~deaf, ~spoilt' PROVE Whole(active)'
    <2>1. active \in Rooms /\ ~spoilt /\ Whole(active)
      BY <1>4, <1>11 DEF ChatTold, WatchTypeOK
    <2>2. CASE ~(f.type = "send" /\ f.room = active)
      <3>1. chat'[active] = chat[active]
        BY <1>3, <1>4, <2>1, <2>2 DEF WatchTypeOK
      <3> QED
        BY <1>1, <1>6, <2>1, <2>2, <3>1 DEF Whole
    <2>3. CASE f.type = "send" /\ f.room = active
      <3>1. chat' = [chat EXCEPT ![active] = Append(chat[active], f.n)] /\ hist = Nothing
        BY <1>4, <1>7, <1>11, <2>1, <2>3 DEF Whole
      <3>2. chat'[active] = Append(chat[active], f.n) /\ chat[active] \in Seq(1..MaxSent) /\ f.n \in 1..MaxSent
        BY <1>3, <2>1, <2>3, <3>1 DEF WatchTypeOK
      <3>3. Danmaku(chat'[active]) = Danmaku(chat[active]) \union {f.n} /\ Len(chat'[active]) = Len(chat[active]) + 1
        BY <3>2, Said
      <3>4. /\ Danmaku(list) \union Carried(down, "recv", active) = Danmaku(chat[active]) \union Carried(up, "send", active)
            /\ Len(list) + Cardinality(Of(down, "recv", active)) = Len(chat[active]) + Cardinality(Of(up, "send", active))
        BY <2>1, <3>1 DEF Whole
      <3>5. /\ Carried(up, "send", active) = Carried(p, "send", active) \union {f.n}
            /\ Cardinality(Of(up, "send", active)) = Cardinality(Of(p, "send", active)) + 1
        BY <1>6, <2>1, <2>3
      <3>6. Danmaku(list) \union Carried(down, "recv", active) = Danmaku(chat'[active]) \union Carried(p, "send", active)
        BY <3>3, <3>4, <3>5
      <3>7. Len(list) + Cardinality(Of(down, "recv", active)) = Len(chat'[active]) + Cardinality(Of(p, "send", active))
        <4>1. Cardinality(Of(p, "send", active)) \in Nat
          BY <1>2, OfFinite
        <4>2. /\ Len(list) \in Nat /\ Len(chat[active]) \in Nat
              /\ Cardinality(Of(down, "recv", active)) \in Nat
          BY <1>1, <2>1, Counts
        <4> QED
          BY <3>3, <3>4, <3>5, <4>1, <4>2
      <3> QED
        BY <1>1, <3>1, <3>6, <3>7 DEF Whole
    <2> QED
      BY <2>2, <2>3
  <1> QED
    BY <1>1, <1>9, <1>10, <1>11 DEF ChatTold

(* The page hears an event.                                                *)
LEMMA HeardKept ==
  ASSUME WatchInv, Received \/ RoomClosed
  PROVE  WatchInv'
  <1> USE DEF WatchInv
  <1> DEFINE f == Head(down)
             p == Tail(down)
  <1>1. /\ WatchTypeOK /\ down \in Seq(Events) /\ down # <<>> /\ sock /\ down' = p
        /\ UNCHANGED <<link, active, hist, sock, up, server, sent, deaf, spoilt>>
    BY DEF Received, RoomClosed, Heard, WatchTypeOK, Told
  <1>2. f \in Events /\ p \in Seq(Events)
    BY <1>1, Shifted
  <1>3. f.room \in Rooms /\ f.type \in {"recv", "deleted", "updated"} /\ (f.type = "recv" => f.n \in 1..MaxSent)
    BY <1>2, EventFields
  <1>4. /\ timers' \in {timers, timers \union {"own"}}
        /\ list' = IF f.type = "recv" /\ f.room = active THEN Append(list, f.n) ELSE list
    BY DEF Received, RoomClosed
  <1>5. ASSUME NEW x \in Rooms
        PROVE  IF f.type = "recv" /\ f.room = x
               THEN /\ Carried(down, "recv", x) = Carried(p, "recv", x) \union {f.n}
                    /\ Cardinality(Of(down, "recv", x)) = Cardinality(Of(p, "recv", x)) + 1
               ELSE /\ Carried(down, "recv", x) = Carried(p, "recv", x)
                    /\ Cardinality(Of(down, "recv", x)) = Cardinality(Of(p, "recv", x))
                    /\ Of(down, "recv", x) = {} => Of(p, "recv", x) = {}
    BY <1>1, OfTaken DEF Says
  <1>6. ASSUME NEW x \in Rooms, f.type = "recv", f.room = x PROVE Of(down, "recv", x) # {}
    BY <1>1, <1>6, Shifted DEF Of, Says
  <1> HIDE DEF f, p
  <1>7. list' \in Seq(1..MaxSent)
    BY <1>3, <1>4, Said DEF WatchTypeOK
  <1>8. WatchTypeOK'
    BY <1>1, <1>2, <1>4, <1>7 DEF WatchTypeOK, server
  <1>9. Told' /\ HistTold'
    BY <1>1 DEF Told, HistTold, server
  <1>10. ASSUME active # Nothing, ~deaf, ~spoilt PROVE Whole(active)'
    <2>1. active \in Rooms /\ Whole(active)
      BY <1>10 DEF ChatTold, WatchTypeOK
    <2>2. CASE ~(f.type = "recv" /\ f.room = active)
      BY <1>1, <1>4, <1>5, <2>1, <2>2 DEF Whole, server
    <2>3. CASE f.type = "recv" /\ f.room = active
      <3>1. list' = Append(list, f.n) /\ hist = Nothing /\ list \in Seq(1..MaxSent) /\ f.n \in 1..MaxSent
        BY <1>3, <1>4, <1>6, <2>1, <2>3 DEF Whole, WatchTypeOK
      <3>2. Danmaku(list') = Danmaku(list) \union {f.n} /\ Len(list') = Len(list) + 1
        BY <3>1, Said
      <3>3. /\ Danmaku(list) \union Carried(down, "recv", active) = Danmaku(chat[active]) \union Carried(up, "send", active)
            /\ Len(list) + Cardinality(Of(down, "recv", active)) = Len(chat[active]) + Cardinality(Of(up, "send", active))
        BY <2>1, <3>1 DEF Whole
      <3>4. /\ Carried(down, "recv", active) = Carried(p, "recv", active) \union {f.n}
            /\ Cardinality(Of(down, "recv", active)) = Cardinality(Of(p, "recv", active)) + 1
        BY <1>5, <2>1, <2>3
      <3>5. Danmaku(list') \union Carried(p, "recv", active) = Danmaku(chat[active]) \union Carried(up, "send", active)
        BY <3>2, <3>3, <3>4
      <3>6. Len(list') + Cardinality(Of(p, "recv", active)) = Len(chat[active]) + Cardinality(Of(up, "send", active))
        <4>1. Cardinality(Of(p, "recv", active)) \in Nat
          BY <1>2, OfFinite
        <4> QED
          BY <1>1, <2>1, <3>2, <3>3, <3>4, <4>1, Counts
      <3> QED
        BY <1>1, <3>1, <3>5, <3>6 DEF Whole, server
    <2> QED
      BY <2>2, <2>3
  <1> QED
    BY <1>1, <1>8, <1>9, <1>10 DEF ChatTold

LEMMA SocketKept ==
  ASSUME WatchInv, Disconnect \/ Reconnect
  PROVE  WatchInv'
  <1> USE DEF WatchInv
  <1>1. CASE Disconnect
    <2>1. up' \in Seq(Frames) /\ down' \in Seq(Events) /\ subs' \subseteq Rooms /\ sock' = FALSE
          /\ deaf' = (active # Nothing) /\ deaf' \in BOOLEAN
      BY <1>1 DEF Disconnect
    <2>2. WatchTypeOK'
      BY <1>1, <2>1 DEF Disconnect, WatchTypeOK
    <2> QED
      BY <1>1, <2>1, <2>2 DEF Disconnect, Told, HistTold, ChatTold
  <1>2. CASE Reconnect
    <2>1. /\ UNCHANGED <<link, active, list, hist, timers, up, down, server, sent, deaf, spoilt>>
          /\ sock' = TRUE /\ ~sock /\ up = <<>> /\ subs = {} /\ (active # Nothing => deaf)
      BY <1>2 DEF Reconnect, Told
    <2>2. WatchTypeOK' /\ HistTold' /\ ChatTold'
      BY <2>1 DEF WatchTypeOK, HistTold, ChatTold, server
    <2>3. Told'
      <3>1. \A x \in Rooms : ~Ends(up', subs', x)
        BY <2>1 DEF Ends, server
      <3> QED
        BY <2>1, <3>1, WatchAssumption DEF Told
    <2> QED
      BY <2>2, <2>3
  <1> QED
    BY <1>1, <1>2

LEMMA WatchInductive == WatchSpec => []WatchInv
  <1>1. WatchInit => WatchInv
    <2> SUFFICES ASSUME WatchInit PROVE WatchInv
      OBVIOUS
    <2>1. <<>> \in Seq(1..MaxSent) /\ <<>> \in Seq(Frames) /\ <<>> \in Seq(Events)
      OBVIOUS
    <2>2. chat \in [Rooms -> Seq(1..MaxSent)] /\ sent \in 0..MaxSent
      BY <2>1, WatchAssumption DEF WatchInit
    <2>3. list \in Seq(1..MaxSent) /\ up \in Seq(Frames) /\ down \in Seq(Events)
      BY <2>1 DEF WatchInit
    <2>4. WatchTypeOK
      BY <2>2, <2>3 DEF WatchInit, WatchTypeOK
    <2> QED
      BY <2>4 DEF WatchInit, WatchInv, Told, HistTold, ChatTold
  <1>2. WatchInv /\ [WatchNext]_watchVars => WatchInv'
    <2> SUFFICES ASSUME WatchInv, [WatchNext]_watchVars PROVE WatchInv'
      OBVIOUS
    <2>1. CASE UNCHANGED watchVars
      BY <2>1 DEF watchVars, server, WatchInv, WatchTypeOK, Told, HistTold, ChatTold, Whole
    <2>2. CASE Page
      BY <2>2, PageKept
    <2>3. CASE Chat
      BY <2>3, HistoryKept, SendKept, OthersKept, CloseRoomKept, ServedKept, HeardKept, SocketKept DEF Chat
    <2> QED
      BY <2>1, <2>2, <2>3 DEF WatchNext
  <1> QED
    BY <1>1, <1>2, PTL DEF WatchSpec

\* The page, the socket, the frames and events on their way and the chats stay
\* what they are declared to be.
THEOREM WatchTypes == WatchSpec => []WatchTypeOK
  <1>1. WatchInv => WatchTypeOK
    BY DEF WatchInv
  <1> QED
    BY <1>1, WatchInductive, PTL

\* However the viewer goes from room to room and whatever is on its way, once
\* the server has seen it all his connection is subscribed to the room he
\* watches and to no other, unless the socket was down since he opened it.
THEOREM WatchesWhatIsSubscribed == WatchSpec => []SubscribedToActive
  <1>1. WatchInv => SubscribedToActive
    <2> SUFFICES ASSUME WatchInv, sock, up = <<>>
                 PROVE  subs = IF active = Nothing \/ deaf THEN {} ELSE {active}
      BY DEF SubscribedToActive
    <2>1. \A r \in Rooms : r \in subs <=> r = active /\ ~deaf
      BY DEF WatchInv, Told, Ends
    <2>2. subs \subseteq Rooms /\ active \in Rooms \union {Nothing}
      BY DEF WatchInv, WatchTypeOK
    <2> QED
      BY <2>1, <2>2, WatchAssumption
  <1> QED
    BY <1>1, WatchInductive, PTL

\* For any number of danmaku, rooms and frames, the chat at rest shows each
\* danmaku of its room once and nothing else, unless the socket was down, one
\* was on its way while the room was opened, or one was rejected.
THEOREM ChatAlwaysComplete == WatchSpec => []ChatComplete
  <1>1. WatchInv => ChatComplete
    <2> SUFFICES ASSUME WatchInv, active # Nothing, up = <<>>, down = <<>>, hist = Nothing, ~deaf, ~spoilt
                 PROVE  Danmaku(list) = Danmaku(chat[active]) /\ Len(list) = Len(chat[active])
      BY DEF ChatComplete
    <2>1. WatchTypeOK /\ Whole(active) /\ active \in Rooms
      BY DEF WatchInv, ChatTold, WatchTypeOK
    <2>2. \A type : Of(<<>>, type, active) = {} /\ Carried(<<>>, type, active) = {}
      BY DEF Of, Carried
    <2>3. Len(list) \in Nat /\ Len(chat[active]) \in Nat
      BY <2>1, Counts
    <2>4. Of(down, "recv", active) = {} /\ Of(up, "send", active) = {}
          /\ Carried(down, "recv", active) = {} /\ Carried(up, "send", active) = {}
      BY <2>2
    <2>5. Cardinality({}) = 0
      BY FS_EmptySet
    <2>6. /\ Danmaku(list) \union Carried(down, "recv", active) = Danmaku(chat[active]) \union Carried(up, "send", active)
          /\ Len(list) + Cardinality(Of(down, "recv", active)) = Len(chat[active]) + Cardinality(Of(up, "send", active))
      BY <2>1 DEF Whole
    <2>7. Danmaku(list) = Danmaku(chat[active])
      BY <2>4, <2>6
    <2>8. Len(list) + 0 = Len(chat[active]) + 0
      BY <2>4, <2>5, <2>6
    <2> QED
      BY <2>3, <2>7, <2>8
  <1> QED
    BY <1>1, WatchInductive, PTL
=============================================================================
