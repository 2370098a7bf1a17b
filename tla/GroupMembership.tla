-------------------------- MODULE GroupMembership --------------------------
(* One group: its owner, its members and their roles, its channels, and    *)
(* who may read which conversation, under concurrent requests.             *)
(*                                                                         *)
(* The isolation level is READ COMMITTED: handlers check on plain reads,   *)
(* transactions write later under row locks, and nobody sees a write       *)
(* before its commit.  The locks that reach over more than one step here:  *)
(*   - the group's row, FOR NO KEY UPDATE, by a removal (kick or leave)    *)
(*     that has written and not committed, with the row of its target;     *)
(*   - the group's row, FOR KEY SHARE, by a channel creation (the foreign  *)
(*     key of channels) that has written and not committed.                *)
(* A join, a deletion of the group and a new invite code need the row FOR  *)
(* UPDATE and wait for both; the last because invite_code is UNIQUE.       *)
(* What else a transaction writes is one step with its commit.  A request  *)
(* that waits is a step not enabled; deadlock victims abort.  Requests may *)
(* come from deleted accounts as long as their access tokens last.         *)
EXTENDS Integers, FiniteSets

CONSTANTS Users, Channels, Requests, MaxMembers,
          Mixes,     \* the mixes of requests to consider
          Lobby,     \* the conversation of the group itself, g_<id>
          Absent,    \* no row in group_members
          Nil

ASSUME GroupAssumption ==
  /\ IsFiniteSet(Users) /\ IsFiniteSet(Channels) /\ MaxMembers \in Nat \ {0}
  /\ Lobby \notin Channels /\ Nil \notin Channels
  /\ Absent \notin 0..2
  /\ Mixes \subseteq SUBSET {"kick", "leave", "transfer", "role", "delete", "channel", "drop", "depart"}

VARIABLES
  mix,         \* the kinds of requests that arrive, chosen once
  life,        \* whether the groups row exists: "none", "live" or "deleted"
  owner,       \* groups.owner_id
  count,       \* groups.member_count
  archived,    \* groups.is_archived
  role,        \* group_members: 0 member, 1 admin, 2 owner
  channels,    \* rows of channels
  spent,       \* channel ids that have been used
  access,      \* conversation_members
  scrubbed,    \* users whose account is deleted
  req,         \* the requests in progress
  crossed,     \* history: changes of ownership and removals have overlapped
  orphaned,    \* history: rows removed without counting them
  slipped,     \* history: access given or left to users who were being removed
  dropsMet     \* history: two deletions of channels have overlapped

row == <<life, owner, count, archived>>
history == <<crossed, orphaned, slipped, dropsMet>>
vars == <<mix, row, role, channels, spent, access, scrubbed, req, history>>

Convs == Channels \union {Lobby}
Ops == {"kick", "leave", "transfer", "role", "delete", "channel", "drop", "depart"}
Stages == {"checked", "read", "writing", "scrub"}
RequestRecords == [op : Ops, at : Stages, who : Users \union {Nil},
                   to : Users \union {Nil}, ch : Channels \union {Nil},
                   convs : SUBSET Convs, users : SUBSET Users]

Members == {u \in Users : role[u] # Absent}
Open == channels \union {Lobby}

-----------------------------------------------------------------------------
(* Locks *)

Removing(r) == req[r] # Nil /\ req[r].op \in {"kick", "leave"} /\ req[r].at = "writing"
Opening(r) == req[r] # Nil /\ req[r].op = "channel" /\ req[r].at = "writing"

\* FOR NO KEY UPDATE on the group's row is free; so are the rows of its members.
CanUpdate == \A r \in Requests : ~Removing(r)

\* FOR UPDATE on the group's row is free.
CanLock == CanUpdate /\ \A r \in Requests : ~Opening(r)

-----------------------------------------------------------------------------
(* Requests *)

At(r, op, stage) == req[r] # Nil /\ req[r].op = op /\ req[r].at = stage

Ownership == {"transfer", "depart"}
Disturbing(op) == IF op \in Ownership THEN Ownership \union {"kick", "leave"}
                  ELSE IF op \in {"kick", "leave"} THEN Ownership ELSE {}

\* A request that has passed the checks of its handler.
Start(r, op, stage, who, to, ch) ==
  /\ req[r] = Nil /\ op \in mix
  /\ req' = [req EXCEPT ![r] = [op |-> op, at |-> stage, who |-> who, to |-> to, ch |-> ch,
                                convs |-> {}, users |-> {}]]
  /\ crossed' = (crossed \/ \E q \in Requests : req[q] # Nil /\ req[q].op \in Disturbing(op))
  /\ UNCHANGED <<mix, row, role, channels, spent, access, scrubbed, orphaned, slipped, dropsMet>>

Goto(r, stage) == req' = [req EXCEPT ![r].at = stage]
Finish(r) == req' = [req EXCEPT ![r] = Nil]

\* A request is refused, fails or is the victim of a deadlock: its transaction
\* is rolled back.
Abort(r) ==
  /\ req[r] # Nil
  /\ Finish(r)
  /\ UNCHANGED <<mix, row, role, channels, spent, access, scrubbed, history>>

-----------------------------------------------------------------------------
(* Creating and joining *)

Init ==
  /\ mix \in Mixes
  /\ life = "none" /\ owner = Nil /\ count = 0 /\ archived = FALSE
  /\ role = [u \in Users |-> Absent]
  /\ channels = {} /\ spent = {} /\ access = {} /\ scrubbed = {}
  /\ req = [r \in Requests |-> Nil]
  /\ crossed = FALSE /\ orphaned = 0 /\ slipped = {} /\ dropsMet = FALSE

Create(u, c) ==
  /\ life = "none"
  /\ life' = "live" /\ owner' = u /\ count' = 1
  /\ role' = [role EXCEPT ![u] = 2]
  /\ channels' = {c} /\ spent' = {c}
  /\ access' = {Lobby, c} \X {u}
  /\ UNCHANGED <<mix, archived, scrubbed, req, history>>

\* JoinByInvite, one transaction that locks the group's row first.
Join(u) ==
  /\ life = "live" /\ u \notin Members
  /\ CanLock /\ count < MaxMembers
  /\ count' = count + 1
  /\ role' = [role EXCEPT ![u] = 0]
  /\ access' = access \union (Open \X {u})
  /\ slipped' = slipped \ (Open \X {u})
  /\ UNCHANGED <<mix, life, owner, archived, channels, spent, scrubbed, req, crossed, orphaned, dropsMet>>

-----------------------------------------------------------------------------
(* Leaving and kicking *)

\* The checks of kickMember.
StartKick(r, a, t) ==
  /\ life = "live" /\ a # t
  /\ {a, t} \subseteq Members
  /\ role[a] # 0 /\ (role[a] = 1 => role[t] = 0)
  /\ Start(r, "kick", "checked", Nil, t, Nil)

\* leave has no check of its own.
StartLeave(r, u) == life = "live" /\ Start(r, "leave", "checked", Nil, u, Nil)

\* The owner is read without a lock; an owner is not removed.
ReadOwner(r) ==
  /\ At(r, "kick", "checked") \/ At(r, "leave", "checked")
  /\ life = "live" /\ owner # req[r].to
  /\ Goto(r, "read")
  /\ UNCHANGED <<mix, row, role, channels, spent, access, scrubbed, history>>

\* The writes of Kick and Leave: the member's row, the count, and the access
\* to the group and to the channels that are visible.
Remove(r) ==
  /\ At(r, "kick", "read") \/ At(r, "leave", "read")
  /\ req[r].to \in Members /\ CanUpdate
  /\ req' = [req EXCEPT ![r].at = "writing", ![r].convs = Open]
  /\ UNCHANGED <<mix, row, role, channels, spent, access, scrubbed, history>>

\* Mutant: the count is left as it was.
CommitRemoval_Uncounted(r) ==
  LET t == req[r].to
      kick == req[r].op = "kick"
  IN /\ Removing(r)
     /\ kick => \A q \in Requests : ~Opening(q)
     /\ role' = [role EXCEPT ![t] = Absent]
     /\ access' = access \ (req[r].convs \X {t})
     /\ slipped' = slipped \intersect access'
     /\ Finish(r)
     /\ UNCHANGED <<mix, life, owner, count, archived, channels, spent, scrubbed, crossed, orphaned, dropsMet>>

\* Kick also writes a new invite code, which needs the row FOR UPDATE.
CommitRemoval(r) ==
  LET t == req[r].to
      kick == req[r].op = "kick"
  IN /\ Removing(r)
     /\ kick => \A q \in Requests : ~Opening(q)
     /\ role' = [role EXCEPT ![t] = Absent]
     /\ count' = count - 1
     /\ access' = access \ (req[r].convs \X {t})
     /\ slipped' = slipped \intersect access'
     /\ Finish(r)
     /\ UNCHANGED <<mix, life, owner, archived, channels, spent, scrubbed, crossed, orphaned, dropsMet>>

-----------------------------------------------------------------------------
(* Roles and ownership *)

StartRole(r, o, t) ==
  /\ life = "live" /\ owner = o /\ t # owner
  /\ Start(r, "role", "checked", Nil, t, Nil)

\* SetMemberRole: UPDATE ... WHERE role != 2.
SetRole(r) ==
  LET t == req[r].to
  IN /\ At(r, "role", "checked")
     /\ \A q \in Requests : Removing(q) => req[q].to # t
     /\ t \in Members /\ role[t] # 2
     /\ \E v \in {0, 1} : role' = [role EXCEPT ![t] = v]
     /\ Finish(r)
     /\ UNCHANGED <<mix, row, channels, spent, access, scrubbed, history>>

StartTransfer(r, o, n) ==
  /\ life = "live" /\ o # n /\ role[o] = 2
  /\ Start(r, "transfer", "checked", o, n, Nil)

\* The new owner must be a member, when it is read.
ReadTarget(r) ==
  /\ At(r, "transfer", "checked")
  /\ req[r].to \in Members
  /\ Goto(r, "read")
  /\ UNCHANGED <<mix, row, role, channels, spent, access, scrubbed, history>>

\* Mutant: the old owner keeps the role.
WriteTransfer_NoDemotion(r) ==
  /\ At(r, "transfer", "read") /\ life = "live" /\ CanUpdate
  /\ owner' = req[r].to
  /\ role' = [u \in Users |-> IF u = req[r].to /\ u \in Members THEN 2 ELSE role[u]]
  /\ Finish(r)
  /\ UNCHANGED <<mix, life, count, archived, channels, spent, access, scrubbed, history>>

\* The UPDATEs of TransferOwnership; one that finds no row changes nothing.
WriteTransfer(r) ==
  /\ At(r, "transfer", "read") /\ life = "live" /\ CanUpdate
  /\ owner' = req[r].to
  /\ role' = [u \in Users |-> IF u \notin Members THEN Absent
                              ELSE IF u = req[r].to THEN 2
                              ELSE IF u = req[r].who THEN 1 ELSE role[u]]
  /\ Finish(r)
  /\ UNCHANGED <<mix, life, count, archived, channels, spent, access, scrubbed, history>>

\* DELETE /groups/:id; conversation_members does not refer to the group.
StartDelete(r, o) ==
  /\ life = "live" /\ role[o] = 2
  /\ Start(r, "delete", "checked", Nil, Nil, Nil)

WriteDelete(r) ==
  /\ At(r, "delete", "checked") /\ life = "live" /\ CanLock
  /\ life' = "deleted"
  /\ role' = [u \in Users |-> Absent]
  /\ channels' = {}
  /\ Finish(r)
  /\ UNCHANGED <<mix, owner, count, archived, spent, access, scrubbed, history>>

-----------------------------------------------------------------------------
(* Channels *)

StartChannel(r, a) ==
  /\ life = "live" /\ a \in Members /\ role[a] # 0
  /\ Start(r, "channel", "checked", Nil, Nil, Nil)

\* channel.Create: the channel, and the members of the group as they are now.
OpenChannel(r, c) ==
  /\ At(r, "channel", "checked") /\ life = "live" /\ c \notin spent
  /\ spent' = spent \union {c}
  /\ req' = [req EXCEPT ![r].at = "writing", ![r].ch = c, ![r].users = Members]
  /\ UNCHANGED <<mix, row, role, channels, access, scrubbed, history>>

CommitChannel(r) ==
  LET c == req[r].ch
  IN /\ Opening(r)
     /\ channels' = channels \union {c}
     /\ access' = access \union ({c} \X req[r].users)
     /\ slipped' = slipped \union ({c} \X {u \in req[r].users :
                       u \notin Members \/ \E q \in Requests : Removing(q) /\ req[q].to = u})
     /\ Finish(r)
     /\ UNCHANGED <<mix, row, role, spent, scrubbed, crossed, orphaned, dropsMet>>

StartDrop(r, a, c) ==
  /\ life = "live" /\ c \in channels /\ a \in Members /\ role[a] # 0
  /\ Start(r, "drop", "checked", Nil, Nil, c)

\* channel.Delete counts the channels, ...
CountChannels(r) ==
  /\ At(r, "drop", "checked") /\ req[r].ch \in channels
  /\ Cardinality(channels) > 1
  /\ Goto(r, "read")
  /\ dropsMet' = (dropsMet \/ \E q \in Requests : At(q, "drop", "read"))
  /\ UNCHANGED <<mix, row, role, channels, spent, access, scrubbed, crossed, orphaned, slipped>>

\* ... and then deletes one.
WriteDrop(r) ==
  /\ At(r, "drop", "read")
  /\ channels' = channels \ {req[r].ch}
  /\ Finish(r)
  /\ UNCHANGED <<mix, row, role, spent, access, scrubbed, history>>

-----------------------------------------------------------------------------
(* Deleting an account *)

\* The groups the user owns are listed; without any the account is scrubbed next.
StartDeparture(r, u) ==
  /\ u \notin scrubbed
  /\ Start(r, "depart", IF life = "live" /\ owner = u THEN "checked" ELSE "scrub", u, u, Nil)

\* transferOneGroup picks an heir, an administrator before a plain member;
\* the user himself stands for nobody.  Which one has been there longest is
\* left open.
PickHeir(r) ==
  LET others == Members \ {req[r].who}
      admins == {u \in others : role[u] = 1}
  IN /\ At(r, "depart", "checked")
     /\ \E h \in IF admins # {} THEN admins ELSE IF others # {} THEN others ELSE {req[r].who} :
          req' = [req EXCEPT ![r].at = "read", ![r].to = h]
     /\ UNCHANGED <<mix, row, role, channels, spent, access, scrubbed, history>>

\* Mutant: the access of the old owner is not taken away.
PassOn_KeepsAccess(r) ==
  LET u == req[r].who
      h == req[r].to
  IN /\ At(r, "depart", "read") /\ h # u /\ CanUpdate
     /\ owner' = IF life = "live" THEN h ELSE owner
     /\ role' = [v \in Users |-> IF v = u \/ v \notin Members THEN Absent
                                 ELSE IF v = h THEN 2 ELSE role[v]]
     /\ access' = access
     /\ orphaned' = IF u \in Members THEN orphaned + 1 ELSE orphaned
     /\ slipped' = slipped \intersect access'
     /\ Goto(r, "scrub")
     /\ UNCHANGED <<mix, life, count, archived, channels, spent, scrubbed, crossed, dropsMet>>

\* The heir becomes the owner; member_count stays.
PassOn(r) ==
  LET u == req[r].who
      h == req[r].to
  IN /\ At(r, "depart", "read") /\ h # u /\ CanUpdate
     /\ owner' = IF life = "live" THEN h ELSE owner
     /\ role' = [v \in Users |-> IF v = u \/ v \notin Members THEN Absent
                                 ELSE IF v = h THEN 2 ELSE role[v]]
     /\ access' = access \ (Open \X {u})
     /\ orphaned' = IF u \in Members THEN orphaned + 1 ELSE orphaned
     /\ slipped' = slipped \intersect access'
     /\ Goto(r, "scrub")
     /\ UNCHANGED <<mix, life, count, archived, channels, spent, scrubbed, crossed, dropsMet>>

\* Without an heir the group is archived; the access of its owner stays.
Archive(r) ==
  LET u == req[r].who
  IN /\ At(r, "depart", "read") /\ req[r].to = u /\ CanUpdate
     /\ archived' = (archived \/ life = "live")
     /\ role' = [role EXCEPT ![u] = Absent]
     /\ orphaned' = IF u \in Members THEN orphaned + 1 ELSE orphaned
     /\ slipped' = slipped \union (access \intersect (Open \X {u}))
     /\ Goto(r, "scrub")
     /\ UNCHANGED <<mix, life, owner, count, channels, spent, access, scrubbed, crossed, dropsMet>>

Scrub(r) ==
  /\ At(r, "depart", "scrub")
  /\ scrubbed' = scrubbed \union {req[r].who}
  /\ Finish(r)
  /\ UNCHANGED <<mix, row, role, channels, spent, access, history>>

-----------------------------------------------------------------------------
Next ==
  \/ \E u \in Users, c \in Channels : Create(u, c)
  \/ \E u \in Users : Join(u)
  \/ \E r \in Requests :
       \/ \E a, t \in Users : StartKick(r, a, t) \/ StartRole(r, a, t) \/ StartTransfer(r, a, t)
       \/ \E a \in Users : \/ StartLeave(r, a) \/ StartDelete(r, a)
                           \/ StartChannel(r, a) \/ StartDeparture(r, a)
       \/ \E a \in Users, c \in Channels : StartDrop(r, a, c)
       \/ ReadOwner(r) \/ Remove(r) \/ CommitRemoval(r)
       \/ SetRole(r) \/ ReadTarget(r) \/ WriteTransfer(r) \/ WriteDelete(r)
       \/ \E c \in Channels : OpenChannel(r, c)
       \/ CommitChannel(r) \/ CountChannels(r) \/ WriteDrop(r)
       \/ PickHeir(r) \/ PassOn(r) \/ Archive(r) \/ Scrub(r)
       \/ Abort(r)

Spec == Init /\ [][Next]_vars

-----------------------------------------------------------------------------
(* Properties *)

\* The state has its types.
TypeOK ==
  /\ mix \in SUBSET Ops
  /\ life \in {"none", "live", "deleted"}
  /\ owner \in Users \union {Nil}
  /\ count \in 0..MaxMembers /\ archived \in BOOLEAN
  /\ role \in [Users -> {0, 1, 2, Absent}]
  /\ channels \subseteq spent /\ spent \subseteq Channels
  /\ access \subseteq Convs \X Users
  /\ scrubbed \subseteq Users
  /\ req \in [Requests -> RequestRecords \union {Nil}]
  /\ crossed \in BOOLEAN /\ orphaned \in 0..MaxMembers
  /\ slipped \subseteq Convs \X Users /\ dropsMet \in BOOLEAN

\* member_count is the number of members plus the owners whose accounts were
\* deleted, whatever joins, kicks, leaves and departures overlap; so a group
\* never takes in more than max_members.
CountBooks == life = "live" => count = Cardinality(Members) + orphaned

\* Every member reaches the group and every channel of it: a join and a new
\* channel never miss each other (the FOR UPDATE of JoinByInvite waits for the
\* foreign key's lock, group/repo.go:199).
MembersReach == life = "live" => Open \X Members \subseteq access

\* Only members reach a conversation of the group, unless a removal and a new
\* channel overlapped, or the last member deleted his account.
StrangersOnlyByOverlap ==
  life = "live" => \A u \in Users \ Members, c \in Open : <<c, u>> \in access => <<c, u>> \in slipped

\* As long as no change of ownership overlapped another or a removal, a group
\* has one owner: the member whose role is 2.
OneOwner ==
  life = "live" /\ ~archived /\ ~crossed =>
    owner \in Users /\ \A u \in Users : role[u] = 2 <=> u = owner

\* A group keeps a channel, unless two deletions overlapped.
ChannelRemains == life = "live" /\ ~dropsMet => channels # {}

\* "Owner cannot leave (must transfer or delete)" (group/repo.go:240).
OwnerIsMember == life = "live" /\ ~archived => owner \in Members

\* "nobody is in conversation_members anymore so they're unreachable" (group/repo.go:343).
DeletedUnreachable == life = "deleted" => access = {}

\* "removes a non-owner member from the group and from every conversation"
\* (group/repo.go:446): a user who is kicked reaches nothing.
KickedReachNothing == life = "live" /\ ~archived =>
  \A u \in Users \ Members, c \in Open : <<c, u>> \notin access

\* "cannot delete the last channel of a group" (channel/repo.go:15).
LastChannelKept == life = "live" => channels # {}

\* "the owner_id never dangles at a scrubbed account" (group/repo.go:515).
OwnerNotScrubbed == life = "live" /\ ~archived => owner \notin scrubbed
=============================================================================
