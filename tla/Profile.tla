------------------------------ MODULE Profile ------------------------------
(* The profile page of the settings: nickname and avatar, the check of the *)
(* mail address, and its change by a link to the new address.  The store   *)
(* keeps a copy of the user's row; every answer to a change of the row     *)
(* replaces the copy by the whole row as it was then, also after the page  *)
(* has been left.  Coming home reads the row as well.  Passwords and the   *)
(* spam limits of a minute are left out.                                   *)
EXTENDS Naturals, FiniteSets

CONSTANTS Values,    \* nicknames and avatars
          Emails,
          MaxCalls,  \* bound: requests on their way
          NoValue

Copies == [nick : Values, avatar : Values, verified : BOOLEAN]

ASSUME ProfileAssumption == NoValue \notin Values \union Copies /\ MaxCalls \in Nat

VARIABLES
  row,       \* the user's row
  email,     \* its mail address
  me,        \* the store's copy, NoValue when logged out
  settings,  \* the page: its fields, NoValue when it is not shown
  calls,     \* requests whose answer changes the store, with their answers
  links,     \* email_verify_tokens and email_change_requests: links in mailboxes
  proved,    \* history: addresses whose owner clicked a link
  raced,     \* history: two of the requests ran at a time
  late       \* history: the user logged out while one ran

profileVars == <<row, email, me, settings, calls, links, proved, raced, late>>

ProfileForms == [nick : Values, avatar : Values, editing : BOOLEAN]
\* NoValue: the field is not sent; mine: of the page that is shown; seen: the copy
\* that a request for a link was made with.
Calls == [op : {"save", "upload", "verify", "read"}, nick : Values \union {NoValue},
          avatar : Values \union {NoValue}, seen : Copies \union {NoValue}, mine : BOOLEAN,
          answer : Copies \union {NoValue}]
MailLinks == [op : {"verify", "change"}, to : Emails]

ProfileInit ==
  \E v \in Values, e \in Emails :
    /\ row = [nick |-> v, avatar |-> v, verified |-> FALSE] /\ email = e
    /\ me = row /\ settings = NoValue /\ calls = {} /\ links = {} /\ proved = {}
    /\ raced = FALSE /\ late = FALSE

Busy(op) == \E c \in calls : c.op = op /\ c.mine

-----------------------------------------------------------------------------
(* The pages *)

OpenSettings ==
  /\ me # NoValue /\ settings = NoValue
  /\ settings' = [nick |-> me.nick, avatar |-> me.avatar, editing |-> FALSE]
  /\ UNCHANGED <<row, email, me, calls, links, proved, raced, late>>

Call(op, nick, avatar) ==
  /\ calls' = calls \union {[op |-> op, nick |-> nick, avatar |-> avatar, mine |-> TRUE,
                             seen |-> IF op = "verify" THEN me ELSE NoValue, answer |-> NoValue]}
  /\ Cardinality(calls) < MaxCalls
  /\ raced' = (raced \/ calls # {})
  /\ UNCHANGED <<row, email, me, links, proved, late>>

\* Mutant: Home does not drop its request.
Unmounted_All == {[c EXCEPT !.mine = FALSE] : c \in calls}

Unmounted == {[c EXCEPT !.mine = FALSE] : c \in {d \in calls : d.op # "read"}}

\* Home mounts and reads the row; when it unmounts the answer is dropped.
GoHome ==
  /\ settings # NoValue /\ Cardinality(Unmounted) < MaxCalls
  /\ settings' = NoValue
  /\ calls' = Unmounted \union {[op |-> "read", nick |-> NoValue, avatar |-> NoValue, seen |-> NoValue,
                                 mine |-> TRUE, answer |-> NoValue]}
  /\ raced' = (raced \/ Unmounted # {})
  /\ UNCHANGED <<row, email, me, links, proved, late>>

Logout ==
  /\ me # NoValue /\ settings = NoValue
  /\ me' = NoValue /\ calls' = Unmounted
  /\ late' = (late \/ \E c \in calls : c.op # "read")
  /\ UNCHANGED <<row, email, settings, links, proved, raced>>

Edit(field, v) ==
  /\ settings # NoValue /\ settings' = [settings EXCEPT ![field] = v]
  /\ UNCHANGED <<row, email, me, calls, links, proved, raced, late>>

-----------------------------------------------------------------------------
(* Nickname and avatar *)

\* The fields that differ from the copy are sent.
Save ==
  /\ settings # NoValue /\ ~Busy("save")
  /\ settings.nick # me.nick \/ settings.avatar # me.avatar
  /\ Call("save", IF settings.nick # me.nick THEN settings.nick ELSE NoValue,
          IF settings.avatar # me.avatar THEN settings.avatar ELSE NoValue)
  /\ UNCHANGED settings

\* A picture is uploaded, shown, and saved at once.
PickAvatar(v) ==
  /\ settings # NoValue /\ ~Busy("upload")
  /\ settings' = [settings EXCEPT !.avatar = v]
  /\ Call("upload", NoValue, v)

-----------------------------------------------------------------------------
(* The mail address *)

SendVerify ==
  /\ settings # NoValue /\ ~settings.editing /\ ~me.verified /\ ~Busy("verify")
  /\ Call("verify", NoValue, NoValue)
  /\ UNCHANGED settings

Mails(ls) ==
  /\ links' = ls
  /\ UNCHANGED <<me, calls, raced, late>>

\* Mutant: the address changes at once.
AskChange_AtOnce(e) ==
  /\ settings # NoValue /\ settings.editing /\ e # email
  /\ settings' = [settings EXCEPT !.editing = FALSE]
  /\ email' = e /\ UNCHANGED row
  /\ Mails(links \union {[op |-> "change", to |-> e]}) /\ UNCHANGED proved

\* EmailChangeForm and requestEmailChange: a link to the new address.
AskChange(e) ==
  /\ settings # NoValue /\ settings.editing /\ e # email
  /\ settings' = [settings EXCEPT !.editing = FALSE]
  /\ Mails(links \union {[op |-> "change", to |-> e]}) /\ UNCHANGED <<row, email, proved>>

\* "Modify" is there when the copy says that the address is verified.
EditEmail ==
  /\ settings # NoValue /\ me.verified /\ ~settings.editing
  /\ settings' = [settings EXCEPT !.editing = TRUE]
  /\ UNCHANGED <<row, email, me, calls, links, proved, raced, late>>

\* verifyEmail: the token names the user, not the address; all such tokens go.
ClickVerify(l) ==
  /\ l.op = "verify"
  /\ row' = [row EXCEPT !.verified = TRUE] /\ UNCHANGED email
  /\ proved' = proved \union {l.to}
  /\ Mails({k \in links : k.op # "verify"}) /\ UNCHANGED settings

\* confirmEmailChange: the token goes; another account may have the address.
ClickChange(l) ==
  /\ l.op = "change"
  /\ \/ /\ email' = l.to /\ row' = [row EXCEPT !.verified = TRUE]
        /\ proved' = proved \union {l.to}
        /\ Mails({k \in links : k.op # "change"})
     \/ Mails(links \ {l}) /\ UNCHANGED <<row, email, proved>>
  /\ UNCHANGED settings

LinkLapses(l) == Mails(links \ {l}) /\ UNCHANGED <<row, email, proved, settings>>

-----------------------------------------------------------------------------
(* The answers *)

\* updateMe, sendVerification, fetchMe
Answered(c) ==
  /\ c.answer = NoValue
  /\ row' = [row EXCEPT !.nick = IF c.nick # NoValue THEN c.nick ELSE @,
                        !.avatar = IF c.avatar # NoValue THEN c.avatar ELSE @]
  /\ calls' = (calls \ {c}) \union
       IF c.op = "verify" /\ ~row.verified THEN {} ELSE {[c EXCEPT !.answer = row']}
  /\ links' = IF c.op = "verify" /\ ~row.verified
              THEN links \union {[op |-> "verify", to |-> email]} ELSE links
  /\ UNCHANGED <<email, me, settings, proved, raced, late>>

Fail(c) ==
  /\ c.answer = NoValue /\ calls' = calls \ {c}
  /\ UNCHANGED <<row, email, me, settings, links, proved, raced, late>>

\* Mutant: the copy takes what the form holds.
Shown_Form(c) ==
  /\ c.answer # NoValue
  /\ me' = IF c.op = "verify" \/ settings = NoValue THEN c.answer
           ELSE [c.answer EXCEPT !.nick = settings.nick, !.avatar = settings.avatar]
  /\ calls' = calls \ {c}
  /\ UNCHANGED <<row, email, settings, links, proved, raced, late>>

\* The copy is replaced; "already verified" writes the copy that the request
\* was made with.
Shown(c) ==
  /\ c.answer # NoValue
  /\ me' = IF c.op = "verify" THEN [c.seen EXCEPT !.verified = TRUE] ELSE c.answer
  /\ calls' = calls \ {c}
  /\ UNCHANGED <<row, email, settings, links, proved, raced, late>>

-----------------------------------------------------------------------------
ProfileNext ==
  \/ OpenSettings \/ GoHome \/ Logout \/ Save \/ SendVerify \/ EditEmail
  \/ \E v \in Values : Edit("nick", v) \/ Edit("avatar", v) \/ PickAvatar(v)
  \/ \E e \in Emails : AskChange(e)
  \/ \E l \in links : ClickVerify(l) \/ ClickChange(l) \/ LinkLapses(l)
  \/ \E c \in calls : Answered(c) \/ Fail(c) \/ Shown(c)

-----------------------------------------------------------------------------
(* Properties *)

ProfileTypeOK ==
  /\ row \in Copies /\ email \in Emails /\ me \in Copies \union {NoValue} /\ settings \in ProfileForms \union {NoValue}
  /\ calls \subseteq Calls /\ links \subseteq MailLinks /\ proved \subseteq Emails
  /\ raced \in BOOLEAN /\ late \in BOOLEAN

\* At rest the user sees the nickname and the avatar that the others see,
\* unless two requests ran at a time (client/src/pages/Settings.tsx:101).
CopyMatchesRow ==
  me # NoValue /\ calls = {} /\ ~raced => me.nick = row.nick /\ me.avatar = row.avatar

\* An address counts as verified only if its owner clicked a link that was
\* sent to it (server/internal/auth/handler.go:299-305).
VerifiedIsProved == row.verified => email \in proved

\* Nobody is logged in by an answer, unless he logged out while it was on its
\* way (client/src/pages/Settings.tsx:101).
StaysLoggedOut == [][me = NoValue /\ ~late => me' = NoValue]_profileVars
=============================================================================
