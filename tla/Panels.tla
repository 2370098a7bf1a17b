------------------------------- MODULE Panels -------------------------------
(* The windows of a group: its members with the switch of notifications,   *)
(* its files, and the form that edits it.  They are mounted while a        *)
(* channel is shown and stay mounted when another group takes its place,   *)
(* which the search and the notices of the server may do with a window     *)
(* open.  One channel stands for a group, and a list or a form for the     *)
(* group it was made of.                                                   *)
EXTENDS Naturals, FiniteSets

CONSTANTS Groups, Owned, NoGroup

ASSUME PanelsAssumption == Owned \subseteq Groups /\ NoGroup \notin Groups

VARIABLES
  at,     \* the group shown, or none
  panel,  \* the window that is open: each one covers the buttons of the others
  shown,  \* what the windows hold
  muted,  \* the groups whose notices the server holds back
  reads,  \* reads under way: <<what, group>>
  acts,   \* what the user has asked for and the server has not answered
  mixed   \* history: what holds an answer that was late or failed

panelsVars == <<at, panel, shown, muted, reads, acts, mixed>>

MaybeGroup == Groups \union {NoGroup}
Roles == {"member", "admin", "owner"}
\* of, files: whose members and files; mute: the switch; form, code: whose
\* fields and invitation code; sure: the button that dissolves is laid bare.
Contents == [of : MaybeGroup, files : MaybeGroup, mute : BOOLEAN,
             form : MaybeGroup, code : MaybeGroup, sure : BOOLEAN]
Empty == [of |-> NoGroup, files |-> NoGroup, mute |-> FALSE, form |-> NoGroup, code |-> NoGroup, sure |-> FALSE]
\* from: whose list or form it was pressed in; here: its window is mounted yet.
Acts == [op : {"role", "kick", "leave", "mute", "save", "rotate", "dissolve"}, to : Groups, from : Groups, on : BOOLEAN, here : BOOLEAN]

PanelsInit ==
  /\ at = NoGroup /\ panel = "none" /\ shown = Empty /\ muted \in SUBSET Groups
  /\ reads = {} /\ acts = {} /\ mixed = {}

-----------------------------------------------------------------------------
(* Windows and what they read *)

\* The effects of an open window, for a group.
ReadsOf(p) == CASE p = "members" -> {"members", "mute"} [] p = "files" -> {"files"} [] OTHER -> {}
Reading(r) == \E g \in Groups : <<r, g>> \in reads
Muting == \E a \in acts : a.op = "mute"

\* Reads begin: what is read beside an earlier read is mixed up with it, and
\* so is what is read for a group that is not shown any more.
Begin(what, g, late) ==
  /\ reads' = reads \union {<<r, g>> : r \in what}
  /\ mixed' = (mixed \ what) \union {r \in what : late \/ Reading(r) \/ (r = "mute" /\ Muting)}

\* Mutant: the members are not read again for another group.
Switch_Keeps(g) ==
  /\ g # at /\ at' = g
  /\ IF g = NoGroup
     THEN shown' = Empty /\ reads' = {} /\ mixed' = {} /\ acts' = {[a EXCEPT !.here = FALSE] : a \in acts}
     ELSE IF at = NoGroup
     THEN shown' = [Empty EXCEPT !.form = g, !.code = g] /\ Begin(ReadsOf(panel), g, FALSE) /\ UNCHANGED acts
     ELSE /\ UNCHANGED acts
          /\ shown' = [shown EXCEPT !.files = IF panel = "files" THEN NoGroup ELSE @]
          /\ reads' = reads \union {<<r, g>> : r \in ReadsOf(panel) \ {"members"}}
          /\ mixed' = (mixed \ ReadsOf(panel)) \union {r \in ReadsOf(panel) : Reading(r)} \union {"form"}
  /\ UNCHANGED <<panel, muted>>

\* Another group, or a friend, or nothing; the windows that were open are so
\* again with the next group.  A form is filled when it is mounted, and goes
\* over to the group that takes the place of its own.
Switch(g) ==
  /\ g # at /\ at' = g
  /\ IF g = NoGroup
     THEN shown' = Empty /\ reads' = {} /\ mixed' = {} /\ acts' = {[a EXCEPT !.here = FALSE] : a \in acts}
     ELSE IF at = NoGroup
     THEN shown' = [Empty EXCEPT !.form = g, !.code = g] /\ Begin(ReadsOf(panel), g, FALSE) /\ UNCHANGED acts
     ELSE /\ UNCHANGED acts
          /\ shown' = [shown EXCEPT !.files = IF panel = "files" THEN NoGroup ELSE @]
          /\ reads' = reads \union {<<r, g>> : r \in ReadsOf(panel)}
          /\ mixed' = (mixed \ ReadsOf(panel)) \union {"form"}
               \union {r \in ReadsOf(panel) : Reading(r) \/ (r = "mute" /\ Muting)}
  /\ UNCHANGED <<panel, muted>>

OpenPanel(p) ==
  /\ panel = "none" /\ at # NoGroup /\ (p = "edit" => at \in Owned) /\ panel' = p
  /\ Begin(ReadsOf(p), at, FALSE)
  /\ shown' = IF p = "files" THEN [shown EXCEPT !.files = NoGroup] ELSE shown
  /\ UNCHANGED <<at, muted, acts>>
ClosePanel == panel # "none" /\ panel' = "none" /\ UNCHANGED <<at, shown, muted, reads, acts, mixed>>

\* An answer is shown, whichever group is shown by then; a failure leaves
\* the list that is there.
ReadCame(r, g) ==
  /\ <<r, g>> \in reads /\ reads' = reads \ {<<r, g>>}
  /\ shown' = CASE r = "members" -> [shown EXCEPT !.of = g]
                [] r = "files" -> [shown EXCEPT !.files = g]
                [] OTHER -> [shown EXCEPT !.mute = g \in muted]
  /\ UNCHANGED <<at, panel, muted, acts, mixed>>
ReadFailed(r, g) ==
  /\ <<r, g>> \in reads /\ reads' = reads \ {<<r, g>>} /\ mixed' = mixed \union {r}
  /\ UNCHANGED <<at, panel, shown, muted, acts>>

-----------------------------------------------------------------------------
(* The buttons *)

\* What the list offers on a member: the owner is known by the group, one's
\* own role by the list.
CanPromote(mine, role) == mine = "owner" /\ role = "member"
CanDemote(mine, role) == mine = "owner" /\ role = "admin"
CanKick(mine, role) == role # "owner" /\ (mine = "owner" \/ (mine = "admin" /\ role = "member"))

MyRoles == IF at \in Owned THEN {"owner"} ELSE {"member", "admin"}
Ask(op, from, on) ==
  /\ acts = {} /\ acts' = {[op |-> op, to |-> at, from |-> from, on |-> on, here |-> TRUE]}
  /\ UNCHANGED <<at, panel, muted, reads>>

MembersOpen == panel = "members" /\ at # NoGroup
OnMember(op) ==
  /\ MembersOpen /\ shown.of # NoGroup
  /\ \E mine \in MyRoles, role \in Roles :
       IF op = "kick" THEN CanKick(mine, role) ELSE CanPromote(mine, role) \/ CanDemote(mine, role)
  /\ Ask(op, shown.of, FALSE) /\ UNCHANGED <<shown, mixed>>
LeaveGroup == MembersOpen /\ shown.of # NoGroup /\ at \notin Owned /\ Ask("leave", shown.of, FALSE) /\ UNCHANGED <<shown, mixed>>

\* The switch moves before the answer.
SetMute(on) ==
  /\ MembersOpen /\ Ask("mute", at, on) /\ shown' = [shown EXCEPT !.mute = on]
  /\ mixed' = IF Reading("mute") THEN mixed \union {"mute"} ELSE mixed

\* In the form; the owner's buttons go by the group that is shown.
Editing == panel = "edit" /\ at # NoGroup
SaveForm == Editing /\ Ask("save", shown.form, FALSE) /\ UNCHANGED <<shown, mixed>>
RotateCode == Editing /\ at \in Owned /\ Ask("rotate", at, FALSE) /\ UNCHANGED <<shown, mixed>>
AskDissolve(sure) ==
  /\ Editing /\ at \in Owned /\ shown.sure # sure /\ shown' = [shown EXCEPT !.sure = sure]
  /\ UNCHANGED <<at, panel, muted, reads, acts, mixed>>
Dissolve == Editing /\ at \in Owned /\ shown.sure /\ Ask("dissolve", shown.form, FALSE) /\ UNCHANGED <<shown, mixed>>

\* The server has done it.  A member's row is read again, for the group it
\* was in; whoever has left starts the page anew; the owner who has dissolved
\* a group leaves the conversation that is shown by then.
Done(a) ==
  /\ acts' = {}
  /\ muted' = IF a.op = "mute" THEN (IF a.on THEN muted \union {a.to} ELSE muted \ {a.to}) ELSE muted
  /\ IF a.op \in {"leave", "dissolve"}
     THEN /\ at' = NoGroup /\ panel' = "none"
          /\ shown' = Empty /\ reads' = {} /\ mixed' = {}
     ELSE /\ UNCHANGED <<at, panel>>
          /\ shown' = IF a.op = "rotate" /\ a.here THEN [shown EXCEPT !.code = a.to] ELSE shown
          /\ IF a.op \in {"role", "kick"} /\ a.here
             THEN Begin({"members"}, a.to, a.to # at)
             ELSE UNCHANGED <<reads, mixed>>
\* Refused or lost; a switch that has moved stays.
NotDone(a) ==
  /\ acts' = {} /\ mixed' = IF a.op = "mute" THEN mixed \union {"mute"} ELSE mixed
  /\ UNCHANGED <<at, panel, shown, muted, reads>>

PanelsNext ==
  \/ \E g \in MaybeGroup : Switch(g)
  \/ \E p \in {"members", "files", "edit"} : OpenPanel(p)
  \/ \E r \in reads : ReadCame(r[1], r[2]) \/ ReadFailed(r[1], r[2])
  \/ \E op \in {"role", "kick"} : OnMember(op)
  \/ \E b \in BOOLEAN : SetMute(b) \/ AskDissolve(b)
  \/ ClosePanel \/ LeaveGroup \/ SaveForm \/ RotateCode \/ Dissolve
  \/ \E a \in acts : Done(a) \/ NotDone(a)

-----------------------------------------------------------------------------
PanelsTypeOK ==
  /\ at \in MaybeGroup /\ panel \in {"none", "members", "files", "edit"} /\ shown \in Contents
  /\ muted \subseteq Groups /\ reads \subseteq {"members", "mute", "files"} \X Groups
  /\ acts \subseteq Acts /\ mixed \subseteq {"members", "mute", "files", "form"}

\* Whatever was opened and closed and in whatever order the groups went by,
\* a window at rest shows the members, the switch, the files and the form of
\* the group it stands beside: unless a read was overtaken or failed, or the
\* form was carried over from another group.
PanelsShowTheirGroup ==
  at # NoGroup =>
    /\ panel = "members" /\ ~Reading("members") /\ "members" \notin mixed => shown.of = at
    /\ panel = "members" /\ ~Reading("mute") /\ ~Muting /\ "mute" \notin mixed
         => shown.mute = (at \in muted)
    /\ panel = "files" /\ ~Reading("files") /\ "files" \notin mixed => shown.files = at
    /\ "form" \notin mixed => shown.form = at /\ shown.code = at
=============================================================================
