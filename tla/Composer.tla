------------------------------ MODULE Composer ------------------------------
(* The lower half of a conversation, which is one component for all of     *)
(* them: the text being written, the message it replies to, the files and  *)
(* the editor of a message.  A handler that waits uses the conversation,   *)
(* the text and the quoted message of the rendering that began it; what it *)
(* clears when its answer comes is whatever is there then.                 *)
EXTENDS Naturals, FiniteSets

CONSTANTS Convs,
          MaxTexts,  \* texts written
          Slots,     \* names for the messages under way: as many may be
          NoConv

ASSUME ComposerAssumption == NoConv \notin Convs /\ MaxTexts \in Nat

VARIABLES
  view,     \* the conversation, the box, the quoted message and the editor
  posts,    \* messages under way; a file has text 0
  saves,    \* edits under way: the message's conversation, and that of the text it gets
  copies,   \* messages that the server has stored, by text
  typed,    \* texts written so far
  gone,     \* history: texts erased, or written on beside a message under way
  repeated  \* history: texts sent again by Enter, or after an answer that was lost

composerVars == <<view, posts, saves, copies, typed, gone, repeated>>

MaybeConv == Convs \union {NoConv}
Texts == 1..MaxTexts
\* reply, edit: the conversation of that message; draft: that of the message
\* whose text the editor was opened with.
Views == [at : MaybeConv, box : 0..MaxTexts, sending : BOOLEAN, reply : MaybeConv,
          edit : MaybeConv, draft : MaybeConv]
Posts == [slot : Slots, text : 0..MaxTexts, to : Convs, reply : MaybeConv, stored : BOOLEAN]

ComposerInit ==
  /\ view = [at |-> NoConv, box |-> 0, sending |-> FALSE, reply |-> NoConv, edit |-> NoConv, draft |-> NoConv]
  /\ posts = {} /\ saves = {} /\ copies = [t \in Texts |-> 0] /\ typed = 0
  /\ gone = {} /\ repeated = {}

-----------------------------------------------------------------------------
(* What the user does *)

ViewOnly == UNCHANGED <<posts, saves, copies, typed, gone, repeated>>
Here == view.at # NoConv

\* Mutant: the quoted message is kept.
Enter_KeepsReply(c) == view.at # c /\ view' = [view EXCEPT !.at = c] /\ ViewOnly

\* The effect of another conversation: text, editor and all the rest stay.
Enter(c) == view.at # c /\ view' = [view EXCEPT !.at = c, !.reply = NoConv] /\ ViewOnly

\* The friend, the group or the channel is gone from the lists.
Vanish == Here /\ view' = [view EXCEPT !.at = NoConv] /\ ViewOnly

\* An empty box is written in, or a text that is under way is written on.
Type ==
  /\ Here /\ typed < MaxTexts
  /\ view.box = 0 \/ \E p \in posts : p.text = view.box
  /\ typed' = typed + 1 /\ view' = [view EXCEPT !.box = typed + 1]
  /\ gone' = IF posts = {} THEN gone ELSE gone \union {typed + 1, view.box}
  /\ UNCHANGED <<posts, saves, copies, repeated>>
Erase ==
  /\ Here /\ view.box # 0 /\ view' = [view EXCEPT !.box = 0] /\ gone' = gone \union {view.box}
  /\ UNCHANGED <<posts, saves, copies, typed, repeated>>

\* The menu of a message that is shown; Escape and the cross.
Quote == Here /\ view' = [view EXCEPT !.reply = view.at] /\ ViewOnly
Unquote == view.reply # NoConv /\ view' = [view EXCEPT !.reply = NoConv] /\ ViewOnly

Post(text) ==
  \E i \in Slots :
    /\ \A p \in posts : p.slot # i
    /\ posts' = posts \union {[slot |-> i, text |-> text, to |-> view.at, reply |-> view.reply, stored |-> FALSE]}

\* Mutant: the box is emptied before the answer.
Send_EmptiesBox(enter) ==
  /\ Here /\ view.box # 0 /\ (enter \/ ~view.sending)
  /\ Post(view.box)
  /\ view' = [view EXCEPT !.sending = TRUE, !.box = 0]
  /\ repeated' = IF \E p \in posts : p.text # 0 THEN repeated \union {view.box} ELSE repeated
  /\ UNCHANGED <<saves, copies, typed, gone>>

\* handleSendText: the button waits for the answer, the Enter key does not.
Send(enter) ==
  /\ Here /\ view.box # 0 /\ (enter \/ ~view.sending)
  /\ Post(view.box)
  /\ view' = [view EXCEPT !.sending = TRUE]
  /\ repeated' = IF \E p \in posts : p.text # 0 THEN repeated \union {view.box} ELSE repeated
  /\ UNCHANGED <<saves, copies, typed, gone>>

\* handleUpload, of a file chosen, pasted or dropped: uploading and sending it
\* is one step, and it is not told apart whether it was stored.
Upload == Here /\ Post(0) /\ UNCHANGED <<view, saves, copies, typed, gone, repeated>>

\* handleStartEdit, on a message of one's own that is shown.
StartEdit == Here /\ view' = [view EXCEPT !.edit = view.at, !.draft = view.at] /\ ViewOnly
CancelEdit ==
  /\ Here /\ view.edit = view.at
  /\ view' = [view EXCEPT !.edit = NoConv, !.draft = NoConv] /\ ViewOnly
\* handleSaveEdit; the bubble shows the editor, and nothing keeps it from
\* being saved twice.
SaveEdit ==
  /\ Here /\ view.edit = view.at
  /\ saves' = saves \union {[of |-> view.edit, text |-> view.draft]}
  /\ UNCHANGED <<view, posts, copies, typed, gone, repeated>>

-----------------------------------------------------------------------------
(* The server and its answers *)

Stored(p) ==
  /\ p.text # 0 /\ ~p.stored /\ posts' = (posts \ {p}) \union {[p EXCEPT !.stored = TRUE]}
  /\ copies' = [copies EXCEPT ![p.text] = IF @ < 2 THEN @ + 1 ELSE @]
  /\ UNCHANGED <<view, saves, typed, gone, repeated>>

\* The text and the quotation that are there now are cleared.
Answered(p) ==
  /\ p.text = 0 \/ p.stored
  /\ posts' = posts \ {p}
  /\ view' = IF p.text = 0 THEN [view EXCEPT !.reply = NoConv]
             ELSE [view EXCEPT !.box = 0, !.reply = NoConv, !.sending = FALSE]
  /\ UNCHANGED <<saves, copies, typed, gone, repeated>>

\* Refused, or lost on the way there or back: the box stays as it is.
NotAnswered(p) ==
  /\ posts' = posts \ {p}
  /\ view' = IF p.text = 0 THEN view ELSE [view EXCEPT !.sending = FALSE]
  /\ repeated' = IF p.stored THEN repeated \union {p.text} ELSE repeated
  /\ UNCHANGED <<saves, copies, typed, gone>>

\* Whatever editor is open when the answer comes is closed.
Edited(s) ==
  /\ saves' = saves \ {s} /\ view' = [view EXCEPT !.edit = NoConv, !.draft = NoConv]
  /\ UNCHANGED <<posts, copies, typed, gone, repeated>>
NotEdited(s) == saves' = saves \ {s} /\ UNCHANGED <<view, posts, copies, typed, gone, repeated>>

Goes == Vanish \/ \E c \in Convs : Enter(c)
\* The box and the editor have only the conversation in common.
BoxNext ==
  \/ Type \/ Erase \/ Quote \/ Unquote \/ Upload
  \/ \E enter \in BOOLEAN : Send(enter)
  \/ \E p \in posts : Stored(p) \/ Answered(p) \/ NotAnswered(p)
EditorNext ==
  \/ StartEdit \/ CancelEdit \/ SaveEdit
  \/ \E s \in saves : Edited(s) \/ NotEdited(s)

ComposerNext == Goes \/ BoxNext \/ EditorNext

-----------------------------------------------------------------------------
ComposerTypeOK ==
  /\ view \in Views /\ posts \subseteq Posts /\ copies \in [Texts -> 0..2] /\ typed \in 0..MaxTexts
  /\ saves \subseteq [of : Convs, text : MaybeConv]
  /\ gone \subseteq 0..MaxTexts /\ repeated \subseteq Texts \union {0}

\* A reply quotes a message of the conversation it is sent to, and an edit
\* gives a message the text that was opened for it, although the box, the
\* quotation and the editor are carried from one conversation to the next.
NothingStrays ==
  /\ \A p \in posts : p.reply \in {p.to, NoConv}
  /\ \A s \in saves : s.text = s.of

\* A text is in the box, under way or sent, and sent only once: unless it was
\* written on beside a message under way, which clears it, or sent again by
\* the Enter key or after an answer that was lost.
EveryTextOnce ==
  \A t \in 1..typed :
    /\ \/ t \in gone \/ view.box = t
       \/ \E p \in posts : p.text = t
       \/ copies[t] > 0
    /\ t \notin repeated => copies[t] < 2
=============================================================================
