----------------------- MODULE GroupMembershipProofs -----------------------
(* Proofs about GroupMembership for any number of users, channels and      *)
(* concurrent requests, any limit and any mix of requests.                 *)
EXTENDS GroupMembership, FiniteSetTheorems, TLAPS

-----------------------------------------------------------------------------
(* The inductive invariant of the tables *)

\* What a request has been given by the checks of its handler.
ReqKnown ==
  \A r \in Requests : req[r] # Nil =>
    /\ req[r].op \in {"kick", "leave", "role", "transfer"} => req[r].to \in Users
    /\ req[r].op = "transfer" => req[r].who \in Users
    /\ req[r].op = "depart" => req[r].who \in Users /\ req[r].to \in Users

\* Without its row the group has no members; before it nothing exists.
NoRow ==
  /\ life # "live" => Members = {}
  /\ life = "none" => orphaned = 0 /\ access = {} /\ channels = {}

\* What the locks protect: the member being removed stays one; a channel
\* being created is new, and everybody who is a member was copied.
LocksHold ==
  /\ \A r \in Requests : Removing(r) => req[r].to \in Members
  /\ \A r, q \in Requests : Removing(r) /\ Removing(q) => r = q
  /\ \A r \in Requests : Opening(r) =>
       life = "live" /\ req[r].ch \in spent \ channels /\ Members \subseteq req[r].users
  /\ \A r, q \in Requests : Opening(r) /\ Opening(q) /\ req[r].ch = req[q].ch => r = q

Tables == TypeOK /\ ReqKnown /\ NoRow /\ LocksHold /\ CountBooks /\ MembersReach

-----------------------------------------------------------------------------
(* Lemmas about members and requests *)

LEMMA MembersFinite ==
  IsFiniteSet(Members) /\ Cardinality(Members) \in Nat
<1>1. IsFiniteSet(Users) /\ Members \subseteq Users
  BY GroupAssumption DEF Members
<1> QED BY <1>1, FS_Subset, FS_CardinalityType

LEMMA OneMore ==
  ASSUME NEW u, u \notin Members, Members' = Members \union {u}
  PROVE  Cardinality(Members') = Cardinality(Members) + 1
BY MembersFinite, FS_AddElement

LEMMA OneLess ==
  ASSUME NEW u, u \in Members, Members' = Members \ {u}
  PROVE  Cardinality(Members') = Cardinality(Members) - 1 /\ Cardinality(Members) > 0
<1>1. Cardinality(Members') = Cardinality(Members) - 1
  BY MembersFinite, FS_RemoveElement
<1>2. Cardinality(Members) # 0
  BY MembersFinite, FS_EmptySet
<1> QED BY <1>1, <1>2, MembersFinite

\* No step but Remove and OpenChannel takes a lock.
LEMMA NoNewLock ==
  ASSUME TypeOK, NEW r \in Requests, NEW x,
         req' = [req EXCEPT ![r] = x],
         x = Nil \/ x.at # "writing"
  PROVE  \A q \in Requests :
           /\ Removing(q)' => q # r /\ Removing(q) /\ req'[q] = req[q]
           /\ Opening(q)' => q # r /\ Opening(q) /\ req'[q] = req[q]
BY DEF TypeOK, Removing, Opening

\* The steps that only note what a request has read.
LEMMA QuietStep ==
  ASSUME Tables, NEW r \in Requests, NEW x \in RequestRecords \union {Nil},
         req' = [req EXCEPT ![r] = x],
         x = Nil \/ x.at # "writing",
         x # Nil => /\ x.op \in {"kick", "leave", "role", "transfer"} => x.to \in Users
                    /\ x.op = "transfer" => x.who \in Users
                    /\ x.op = "depart" => x.who \in Users /\ x.to \in Users,
         UNCHANGED <<mix, row, role, channels, spent, access, orphaned, slipped>>,
         scrubbed' \subseteq Users, crossed' \in BOOLEAN, dropsMet' \in BOOLEAN
  PROVE  Tables'
<1> USE DEF Tables
<1>1. TypeOK'
  BY DEF TypeOK, row
<1>2. ReqKnown'
  BY DEF TypeOK, ReqKnown
<1>3. Members' = Members /\ life' = life /\ channels' = channels
  BY DEF Members, row
<1>4. NoRow' /\ CountBooks' /\ MembersReach'
  BY <1>3 DEF NoRow, CountBooks, MembersReach, row, Open
<1>5. LocksHold'
  <2>1. \A q \in Requests :
           /\ Removing(q)' => Removing(q) /\ req'[q] = req[q]
           /\ Opening(q)' => Opening(q) /\ req'[q] = req[q]
    BY NoNewLock
  <2>2. spent' = spent
    OBVIOUS
  <2> QED BY <1>3, <2>1, <2>2 DEF LocksHold
<1> QED BY <1>1, <1>2, <1>4, <1>5

LEMMA StartStep ==
  ASSUME Tables, NEW r \in Requests, NEW op \in Ops, NEW stage \in Stages \ {"writing"},
         NEW who \in Users \union {Nil}, NEW to \in Users \union {Nil},
         NEW c \in Channels \union {Nil}, Start(r, op, stage, who, to, c),
         op \in {"kick", "leave", "role", "transfer", "depart"} => to \in Users,
         op \in {"transfer", "depart"} => who \in Users
  PROVE  Tables'
<1> DEFINE x == [op |-> op, at |-> stage, who |-> who, to |-> to, ch |-> c,
                 convs |-> {}, users |-> {}]
<1>1. x \in RequestRecords
  BY DEF RequestRecords
<1>2. req' = [req EXCEPT ![r] = x] /\ crossed' \in BOOLEAN
  BY DEF Start, Tables, TypeOK
<1>3. /\ x.at # "writing"
      /\ x.op \in {"kick", "leave", "role", "transfer"} => x.to \in Users
      /\ x.op = "transfer" => x.who \in Users
      /\ x.op = "depart" => x.who \in Users /\ x.to \in Users
  BY DEF Stages
<1>4. /\ UNCHANGED <<mix, row, role, channels, spent, access, orphaned, slipped>>
      /\ scrubbed' \subseteq Users /\ dropsMet' \in BOOLEAN
  BY DEF Start, row, Tables, TypeOK
<1> HIDE DEF x
<1> QED BY <1>1, <1>2, <1>3, <1>4, QuietStep

-----------------------------------------------------------------------------
(* The invariant is inductive *)

LEMMA TablesInit == Init => Tables
<1> SUFFICES ASSUME Init PROVE Tables
  OBVIOUS
<1>1. Members = {}
  BY DEF Init, Members
<1>2. TypeOK
  <2>1. mix \in SUBSET Ops
    BY GroupAssumption DEF Init, Ops
  <2>2. count \in 0..MaxMembers /\ orphaned \in 0..MaxMembers
    BY GroupAssumption, SMT DEF Init
  <2>3. role \in [Users -> {0, 1, 2, Absent}] /\ req \in [Requests -> RequestRecords \union {Nil}]
    BY DEF Init
  <2> QED BY <2>1, <2>2, <2>3 DEF Init, TypeOK
<1>3. ReqKnown /\ NoRow /\ CountBooks /\ MembersReach
  BY <1>1 DEF Init, ReqKnown, NoRow, CountBooks, MembersReach
<1>4. LocksHold
  BY DEF Init, LocksHold, Removing, Opening
<1> QED BY <1>2, <1>3, <1>4 DEF Tables

LEMMA TablesCreate ==
  ASSUME Tables, NEW u \in Users, NEW c \in Channels, Create(u, c)
  PROVE  Tables'
<1> USE DEF Tables
<1>1. Members = {} /\ Members' = {u} /\ orphaned = 0 /\ access = {}
  BY GroupAssumption DEF Create, NoRow, Members, TypeOK
<1>2. TypeOK'
  BY GroupAssumption DEF Create, TypeOK, Convs, history
<1>3. ReqKnown' /\ NoRow'
  BY DEF Create, ReqKnown, NoRow
<1>4. LocksHold'
  BY <1>1 DEF Create, LocksHold, Removing, Opening
<1>5. CountBooks'
  <2>1. Cardinality(Members') = 1
    BY <1>1, FS_Singleton
  <2> QED BY <1>1, <2>1 DEF Create, CountBooks, history
<1>6. MembersReach'
  BY <1>1 DEF Create, MembersReach, Open
<1> QED BY <1>2, <1>3, <1>4, <1>5, <1>6

LEMMA TablesJoin ==
  ASSUME Tables, NEW u \in Users, Join(u)
  PROVE  Tables'
<1> USE DEF Tables
<1>1. u \notin Members /\ Members' = Members \union {u}
  BY GroupAssumption DEF Join, Members, TypeOK
<1>2. count' \in 0..MaxMembers
  BY GroupAssumption DEF Join, TypeOK
<1>3. role' \in [Users -> {0, 1, 2, Absent}] /\ access' \subseteq Convs \X Users /\ slipped' \subseteq Convs \X Users
  BY DEF Join, TypeOK, Open, Convs
<1>4. TypeOK'
  BY <1>2, <1>3 DEF Join, TypeOK
<1>5. ReqKnown' /\ NoRow'
  BY DEF Join, ReqKnown, NoRow
<1>6. LocksHold'
  BY <1>1 DEF Join, LocksHold, Removing, Opening, CanLock, CanUpdate
<1>7. CountBooks'
  <2>1. Cardinality(Members') = Cardinality(Members) + 1
    BY <1>1, OneMore
  <2>2. count = Cardinality(Members) + orphaned /\ count' = count + 1 /\ orphaned' = orphaned
    BY DEF Join, CountBooks
  <2>3. count \in Int /\ orphaned \in Int
    BY GroupAssumption DEF TypeOK
  <2> QED BY <2>1, <2>2, <2>3, MembersFinite DEF CountBooks
<1>8. MembersReach'
  BY <1>1 DEF Join, MembersReach, Open
<1> QED BY <1>4, <1>5, <1>6, <1>7, <1>8

LEMMA TablesRemove ==
  ASSUME Tables, NEW r \in Requests, Remove(r)
  PROVE  Tables'
<1> USE DEF Tables
<1> DEFINE x == [req[r] EXCEPT !.at = "writing", !.convs = Open]
<1>1. req[r] # Nil /\ req[r] \in RequestRecords /\ req[r].op \in {"kick", "leave"}
  BY DEF Remove, At, TypeOK
<1>2. req' = [req EXCEPT ![r] = x]
  BY DEF Remove
<1>3. x \in RequestRecords /\ x.op = req[r].op /\ x.to = req[r].to /\ x.who = req[r].who
  BY <1>1 DEF RequestRecords, Stages, Open, Convs, TypeOK
<1>4. TypeOK'
  BY <1>2, <1>3 DEF Remove, TypeOK, row, history
<1>5. ReqKnown'
  BY <1>1, <1>2, <1>3 DEF ReqKnown, TypeOK
<1>6. Members' = Members /\ life' = life /\ channels' = channels
  BY DEF Remove, Members, row
<1>7. NoRow' /\ CountBooks' /\ MembersReach'
  BY <1>6 DEF Remove, NoRow, CountBooks, MembersReach, row, history, Open
<1>8. LocksHold'
  <2>1. \A q \in Requests : q # r => req'[q] = req[q]
    BY <1>2 DEF TypeOK
  <2>2. req'[r] = x
    BY <1>2 DEF TypeOK
  <2>3. ~Opening(r)'
    BY <1>1, <1>3, <2>2 DEF Opening
  <2>4. \A q \in Requests : ~Removing(q)
    BY DEF Remove, CanUpdate
  <2>5. \A q \in Requests : Removing(q)' => q = r
    BY <2>1, <2>4 DEF Removing
  <2>6. req'[r].to \in Members'
    <3>1. req[r].to \in Members
      BY DEF Remove
    <3>2. req'[r].to = req[r].to
      BY <1>3, <2>2
    <3> QED BY <1>6, <3>1, <3>2
  <2>7. \A q \in Requests : Opening(q)' => q # r /\ Opening(q) /\ req'[q] = req[q]
    BY <2>1, <2>3 DEF Opening
  <2>8. spent' = spent
    BY DEF Remove
  <2> QED BY <1>6, <2>5, <2>6, <2>7, <2>8 DEF LocksHold
<1> QED BY <1>4, <1>5, <1>7, <1>8

LEMMA TablesCommitRemoval ==
  ASSUME Tables, NEW r \in Requests, CommitRemoval(r)
  PROVE  Tables'
<1> USE DEF Tables
<1> DEFINE t == req[r].to
<1>1. t \in Members /\ Removing(r)
  BY DEF CommitRemoval, LocksHold
<1>2. life = "live" /\ life' = "live"
  BY <1>1 DEF NoRow, CommitRemoval
<1>3. Members' = Members \ {t}
  BY <1>1 DEF CommitRemoval, Members, TypeOK
<1>4. \A q \in Requests :
        /\ Removing(q)' => q # r /\ Removing(q) /\ req'[q] = req[q]
        /\ Opening(q)' => q # r /\ Opening(q) /\ req'[q] = req[q]
  BY NoNewLock DEF CommitRemoval, Finish
<1>5. CountBooks' /\ count' \in 0..MaxMembers
  <2>1. Cardinality(Members') = Cardinality(Members) - 1 /\ Cardinality(Members) > 0
    BY <1>1, <1>3, OneLess
  <2>2. count = Cardinality(Members) + orphaned /\ count' = count - 1 /\ orphaned' = orphaned
    BY <1>2 DEF CommitRemoval, CountBooks
  <2>3. count \in 0..MaxMembers /\ orphaned \in 0..MaxMembers
    BY DEF TypeOK
  <2>4. count' \in 0..MaxMembers
    BY <2>1, <2>2, <2>3, MembersFinite, GroupAssumption, SMT
  <2>5. count' = Cardinality(Members') + orphaned'
    BY <2>1, <2>2, <2>3, MembersFinite, GroupAssumption, SMT
  <2> QED BY <2>4, <2>5 DEF CountBooks
<1>6. TypeOK'
  <2>1. req' \in [Requests -> RequestRecords \union {Nil}]
    BY DEF CommitRemoval, Finish, TypeOK
  <2>2. role' \in [Users -> {0, 1, 2, Absent}] /\ access' \subseteq Convs \X Users /\ slipped' \subseteq Convs \X Users
    BY DEF CommitRemoval, TypeOK
  <2> QED BY <1>5, <2>1, <2>2 DEF CommitRemoval, TypeOK
<1>7. ReqKnown'
  BY DEF CommitRemoval, Finish, ReqKnown, TypeOK
<1>8. NoRow'
  BY <1>2 DEF NoRow
<1>9. LocksHold'
  <2>1. \A q \in Requests : ~Removing(q)'
    BY <1>1, <1>4 DEF LocksHold
  <2>2. channels' = channels /\ spent' = spent /\ Members' \subseteq Members
    BY <1>3 DEF CommitRemoval
  <2> QED BY <1>2, <1>4, <2>1, <2>2 DEF LocksHold
<1>10. MembersReach'
  BY <1>2, <1>3 DEF CommitRemoval, MembersReach, Open
<1> QED BY <1>5, <1>6, <1>7, <1>8, <1>9, <1>10

\* A step that changes only roles of members and finishes a request.
LEMMA RolesStep ==
  ASSUME Tables, NEW r \in Requests, req' = [req EXCEPT ![r] = Nil],
         role' \in [Users -> {0, 1, 2, Absent}],
         \A u \in Users : role'[u] = Absent <=> role[u] = Absent,
         owner' \in Users \union {Nil},
         UNCHANGED <<mix, life, count, archived, channels, spent, access, scrubbed, history>>
  PROVE  Tables'
<1> USE DEF Tables
<1>1. Members' = Members
  BY DEF Members
<1>2. TypeOK'
  BY DEF TypeOK, history
<1>3. ReqKnown' /\ NoRow' /\ CountBooks' /\ MembersReach'
  BY <1>1 DEF TypeOK, ReqKnown, NoRow, CountBooks, MembersReach, history, Open
<1>4. LocksHold'
  <2>1. \A q \in Requests :
          /\ Removing(q)' => q # r /\ Removing(q) /\ req'[q] = req[q]
          /\ Opening(q)' => q # r /\ Opening(q) /\ req'[q] = req[q]
    BY NoNewLock
  <2> QED BY <1>1, <2>1 DEF LocksHold
<1> QED BY <1>2, <1>3, <1>4

LEMMA TablesSetRole ==
  ASSUME Tables, NEW r \in Requests, SetRole(r)
  PROVE  Tables'
<1>1. PICK v \in {0, 1} : role' = [role EXCEPT ![req[r].to] = v]
  BY DEF SetRole
<1>2. req[r].to \in Users /\ role[req[r].to] # Absent /\ v # Absent
  BY GroupAssumption DEF SetRole, Members
<1>3. /\ role' \in [Users -> {0, 1, 2, Absent}]
      /\ \A u \in Users : role'[u] = Absent <=> role[u] = Absent
  BY <1>1, <1>2 DEF Tables, TypeOK
<1>4. /\ req' = [req EXCEPT ![r] = Nil] /\ owner' \in Users \union {Nil}
      /\ UNCHANGED <<mix, life, count, archived, channels, spent, access, scrubbed, history>>
  BY DEF SetRole, Finish, row, Tables, TypeOK
<1> QED BY <1>3, <1>4, RolesStep

LEMMA TablesWriteTransfer ==
  ASSUME Tables, NEW r \in Requests, WriteTransfer(r)
  PROVE  Tables'
<1>1. /\ role' \in [Users -> {0, 1, 2, Absent}]
      /\ \A u \in Users : role'[u] = Absent <=> role[u] = Absent
  BY GroupAssumption DEF WriteTransfer, Tables, TypeOK, Members
<1>2. owner' \in Users
  BY DEF WriteTransfer, At, Tables, ReqKnown
<1>3. /\ req' = [req EXCEPT ![r] = Nil]
      /\ UNCHANGED <<mix, life, count, archived, channels, spent, access, scrubbed, history>>
  BY DEF WriteTransfer, Finish
<1> QED BY <1>1, <1>2, <1>3, RolesStep

LEMMA TablesWriteDelete ==
  ASSUME Tables, NEW r \in Requests, WriteDelete(r)
  PROVE  Tables'
<1> USE DEF Tables
<1>1. Members' = {} /\ life' = "deleted"
  BY DEF WriteDelete, Members
<1>2. TypeOK'
  BY DEF WriteDelete, Finish, TypeOK, history
<1>3. ReqKnown' /\ NoRow' /\ CountBooks' /\ MembersReach'
  BY <1>1 DEF WriteDelete, Finish, TypeOK, ReqKnown, NoRow, CountBooks, MembersReach
<1>4. LocksHold'
  <2>1. \A q \in Requests :
          /\ Removing(q)' => q # r /\ Removing(q) /\ req'[q] = req[q]
          /\ Opening(q)' => q # r /\ Opening(q) /\ req'[q] = req[q]
    BY NoNewLock DEF WriteDelete, Finish
  <2>2. \A q \in Requests : ~Removing(q) /\ ~Opening(q)
    BY DEF WriteDelete, CanLock, CanUpdate
  <2> QED BY <2>1, <2>2 DEF LocksHold
<1> QED BY <1>2, <1>3, <1>4

LEMMA TablesOpenChannel ==
  ASSUME Tables, NEW r \in Requests, NEW c \in Channels, OpenChannel(r, c)
  PROVE  Tables'
<1> USE DEF Tables
<1> DEFINE x == [req[r] EXCEPT !.at = "writing", !.ch = c, !.users = Members]
<1>1. req[r] # Nil /\ req[r] \in RequestRecords /\ req[r].op = "channel" /\ life = "live" /\ c \notin spent
  BY DEF OpenChannel, At, TypeOK
<1>2. req' = [req EXCEPT ![r] = x]
  BY DEF OpenChannel
<1>3. x \in RequestRecords /\ x.op = "channel" /\ x.ch = c /\ x.users = Members
  BY <1>1 DEF RequestRecords, Stages, Members
<1>4. TypeOK'
  BY <1>2, <1>3 DEF OpenChannel, TypeOK, row, history
<1>5. ReqKnown'
  BY <1>1, <1>2, <1>3 DEF ReqKnown, TypeOK
<1>6. Members' = Members /\ life' = life /\ channels' = channels
  BY DEF OpenChannel, Members, row
<1>7. NoRow' /\ CountBooks' /\ MembersReach'
  BY <1>6 DEF OpenChannel, NoRow, CountBooks, MembersReach, row, history, Open
<1>8. LocksHold'
  <2>1. /\ \A q \in Requests : q # r => req'[q] = req[q]
        /\ req'[r] = x
    BY <1>2 DEF TypeOK
  <2>2. \A q \in Requests : Removing(q)' => q # r /\ Removing(q) /\ req'[q] = req[q]
    BY <1>3, <2>1 DEF Removing
  <2>3. \A q \in Requests : q # r => (Opening(q)' => Opening(q) /\ req'[q] = req[q] /\ req'[q].ch # c)
    BY <1>1, <2>1 DEF Opening, LocksHold
  <2>4. req'[r].ch = c /\ req'[r].users = Members
    BY <1>3, <2>1
  <2>5. spent' = spent \union {c} /\ c \notin channels
    BY <1>1 DEF OpenChannel, TypeOK
  <2> QED BY <1>1, <1>6, <2>2, <2>3, <2>4, <2>5 DEF LocksHold
<1> QED BY <1>4, <1>5, <1>7, <1>8

LEMMA TablesCommitChannel ==
  ASSUME Tables, NEW r \in Requests, CommitChannel(r)
  PROVE  Tables'
<1> USE DEF Tables
<1> DEFINE c == req[r].ch
<1>1. /\ Opening(r) /\ life = "live" /\ c \in spent \ channels /\ Members \subseteq req[r].users
      /\ req[r] \in RequestRecords
  BY DEF CommitChannel, LocksHold, TypeOK, Opening
<1>2. Members' = Members /\ life' = life
  BY DEF CommitChannel, Members, row
<1>3. TypeOK'
  <2>1. c \in Channels /\ req[r].users \subseteq Users
    BY <1>1 DEF RequestRecords, TypeOK
  <2>2. access' \subseteq Convs \X Users /\ slipped' \subseteq Convs \X Users
    BY <2>1 DEF CommitChannel, TypeOK, Convs
  <2>3. channels' \subseteq spent'
    BY <1>1 DEF CommitChannel, TypeOK
  <2> QED BY <2>2, <2>3 DEF CommitChannel, Finish, TypeOK, row
<1>4. ReqKnown' /\ NoRow' /\ CountBooks'
  BY <1>1, <1>2 DEF CommitChannel, Finish, TypeOK, ReqKnown, NoRow, CountBooks, row
<1>5. LocksHold'
  <2>1. \A q \in Requests :
          /\ Removing(q)' => q # r /\ Removing(q) /\ req'[q] = req[q]
          /\ Opening(q)' => q # r /\ Opening(q) /\ req'[q] = req[q]
    BY NoNewLock DEF CommitChannel, Finish
  <2>2. channels' = channels \union {c} /\ spent' = spent
    BY DEF CommitChannel
  <2>3. \A q \in Requests : Opening(q)' => req'[q].ch # c
    BY <1>1, <2>1 DEF LocksHold
  <2> QED BY <1>2, <2>1, <2>2, <2>3 DEF LocksHold
<1>6. MembersReach'
  BY <1>1, <1>2 DEF CommitChannel, MembersReach, Open
<1> QED BY <1>3, <1>4, <1>5, <1>6

LEMMA TablesWriteDrop ==
  ASSUME Tables, NEW r \in Requests, WriteDrop(r)
  PROVE  Tables'
<1> USE DEF Tables
<1>1. Members' = Members /\ life' = life /\ channels' \subseteq channels
  BY DEF WriteDrop, Members, row
<1>2. TypeOK'
  BY DEF WriteDrop, Finish, TypeOK, row, history
<1>3. ReqKnown' /\ NoRow' /\ CountBooks' /\ MembersReach'
  BY <1>1 DEF WriteDrop, Finish, TypeOK, ReqKnown, NoRow, CountBooks, MembersReach, row, history, Open
<1>4. LocksHold'
  <2>1. \A q \in Requests :
          /\ Removing(q)' => q # r /\ Removing(q) /\ req'[q] = req[q]
          /\ Opening(q)' => q # r /\ Opening(q) /\ req'[q] = req[q]
    BY NoNewLock DEF WriteDrop, Finish
  <2>2. spent' = spent
    BY DEF WriteDrop
  <2> QED BY <1>1, <2>1, <2>2 DEF LocksHold
<1> QED BY <1>2, <1>3, <1>4

\* The old owner's row goes with the transfer, uncounted.
LEMMA DepartureStep ==
  ASSUME Tables, NEW r \in Requests, NEW u \in Users, At(r, "depart", "read"), CanUpdate,
         req' = [req EXCEPT ![r].at = "scrub"],
         role' \in [Users -> {0, 1, 2, Absent}],
         \A v \in Users : role'[v] = Absent <=> (role[v] = Absent \/ v = u),
         orphaned' = IF u \in Members THEN orphaned + 1 ELSE orphaned,
         owner' \in Users \union {Nil}, archived' \in BOOLEAN,
         access' \subseteq access, \A c \in Open, v \in Users \ {u} : <<c, v>> \in access => <<c, v>> \in access',
         slipped' \subseteq Convs \X Users,
         UNCHANGED <<mix, life, count, channels, spent, scrubbed, crossed, dropsMet>>
  PROVE  Tables'
<1> USE DEF Tables
<1> DEFINE x == [req[r] EXCEPT !.at = "scrub"]
<1>1. req[r] # Nil /\ req[r] \in RequestRecords /\ req' = [req EXCEPT ![r] = x]
  BY DEF At, TypeOK
<1>2. x \in RequestRecords /\ x.op = req[r].op /\ x.to = req[r].to /\ x.who = req[r].who /\ x.at = "scrub"
  BY <1>1 DEF RequestRecords, Stages
<1>3. Members' = Members \ {u}
  BY DEF Members
<1>4. /\ CountBooks' /\ orphaned' \in 0..MaxMembers
      /\ life = "none" => orphaned' = 0
  <2>1. orphaned \in 0..MaxMembers /\ count \in 0..MaxMembers
    BY DEF TypeOK
  <2>2. CASE u \in Members
    <3>1. Cardinality(Members') = Cardinality(Members) - 1 /\ Cardinality(Members) > 0
      BY <1>3, <2>2, OneLess
    <3>2. life = "live" /\ count = Cardinality(Members) + orphaned /\ orphaned' = orphaned + 1 /\ count' = count
      BY <2>2 DEF NoRow, CountBooks
    <3>3. orphaned' \in 0..MaxMembers /\ count' = Cardinality(Members') + orphaned'
      BY <2>1, <3>1, <3>2, MembersFinite, GroupAssumption, SMT
    <3> QED BY <3>2, <3>3 DEF CountBooks
  <2>3. CASE u \notin Members
    BY <1>3, <2>1, <2>3 DEF NoRow, CountBooks
  <2> QED BY <2>2, <2>3
<1>5. TypeOK'
  BY <1>1, <1>2, <1>4 DEF TypeOK
<1>6. ReqKnown'
  BY <1>1, <1>2 DEF ReqKnown, TypeOK
<1>7. NoRow'
  BY <1>3, <1>4 DEF NoRow
<1>8. LocksHold'
  <2>1. \A q \in Requests :
          /\ Removing(q)' => q # r /\ Removing(q) /\ req'[q] = req[q]
          /\ Opening(q)' => q # r /\ Opening(q) /\ req'[q] = req[q]
    BY <1>1, <1>2, NoNewLock
  <2>2. \A q \in Requests : ~Removing(q)
    BY DEF CanUpdate
  <2> QED BY <1>3, <2>1, <2>2 DEF LocksHold
<1>9. MembersReach'
  <2>1. Open' = Open /\ Members \subseteq Users
    BY DEF Open, Members
  <2> QED BY <1>3, <2>1 DEF MembersReach
<1> QED BY <1>4, <1>5, <1>6, <1>7, <1>8, <1>9

LEMMA TablesPassOn ==
  ASSUME Tables, NEW r \in Requests, PassOn(r)
  PROVE  Tables'
<1> DEFINE u == req[r].who
<1>1. u \in Users /\ req[r].to \in Users
  BY DEF PassOn, At, Tables, ReqKnown
<1>2. /\ role' \in [Users -> {0, 1, 2, Absent}]
      /\ \A v \in Users : role'[v] = Absent <=> (role[v] = Absent \/ v = u)
  BY <1>1, GroupAssumption DEF PassOn, Tables, TypeOK, Members
<1>3. owner' \in Users \union {Nil} /\ slipped' \subseteq Convs \X Users /\ archived' \in BOOLEAN
  BY <1>1 DEF PassOn, Tables, TypeOK
<1>4. /\ access' \subseteq access
      /\ \A c \in Open, v \in Users \ {u} : <<c, v>> \in access => <<c, v>> \in access'
  BY DEF PassOn
<1>5. /\ At(r, "depart", "read") /\ CanUpdate
      /\ req' = [req EXCEPT ![r].at = "scrub"]
      /\ orphaned' = IF u \in Members THEN orphaned + 1 ELSE orphaned
      /\ UNCHANGED <<mix, life, count, channels, spent, scrubbed, crossed, dropsMet>>
  BY DEF PassOn, Goto
<1> HIDE DEF u
<1> QED BY <1>1, <1>2, <1>3, <1>4, <1>5, DepartureStep

LEMMA TablesArchive ==
  ASSUME Tables, NEW r \in Requests, Archive(r)
  PROVE  Tables'
<1> DEFINE u == req[r].who
<1>1. u \in Users
  BY DEF Archive, At, Tables, ReqKnown
<1>2. /\ role' \in [Users -> {0, 1, 2, Absent}]
      /\ \A v \in Users : role'[v] = Absent <=> (role[v] = Absent \/ v = u)
  BY <1>1 DEF Archive, Tables, TypeOK
<1>3. /\ owner' \in Users \union {Nil} /\ slipped' \subseteq Convs \X Users /\ archived' \in BOOLEAN
      /\ access' = access
  BY <1>1 DEF Archive, Tables, TypeOK
<1>4. /\ At(r, "depart", "read") /\ CanUpdate
      /\ req' = [req EXCEPT ![r].at = "scrub"]
      /\ orphaned' = IF u \in Members THEN orphaned + 1 ELSE orphaned
      /\ UNCHANGED <<mix, life, count, channels, spent, scrubbed, crossed, dropsMet>>
  BY DEF Archive, Goto
<1> HIDE DEF u
<1> QED BY <1>1, <1>2, <1>3, <1>4, DepartureStep

\* The steps that only note what they have read, finish, or fail.
LEMMA TablesQuiet ==
  ASSUME Tables, NEW r \in Requests,
         \/ ReadOwner(r) \/ ReadTarget(r) \/ CountChannels(r) \/ PickHeir(r) \/ Scrub(r) \/ Abort(r)
  PROVE  Tables'
<1> USE DEF Tables
<1>1. req[r] # Nil /\ req[r] \in RequestRecords
  BY DEF ReadOwner, ReadTarget, CountChannels, PickHeir, Scrub, Abort, At, TypeOK
<1>2. /\ UNCHANGED <<mix, row, role, channels, spent, access, orphaned, slipped>>
      /\ crossed' \in BOOLEAN /\ dropsMet' \in BOOLEAN
  BY DEF ReadOwner, ReadTarget, CountChannels, PickHeir, Scrub, Abort, history, TypeOK
<1>3. CASE ReadOwner(r) \/ ReadTarget(r) \/ CountChannels(r)
  <2> DEFINE x == [req[r] EXCEPT !.at = "read"]
  <2>1. /\ x \in RequestRecords /\ x.at = "read"
        /\ x.op = req[r].op /\ x.to = req[r].to /\ x.who = req[r].who
    BY <1>1 DEF RequestRecords, Stages
  <2>2. req' = [req EXCEPT ![r] = x] /\ scrubbed' \subseteq Users
    BY <1>3 DEF ReadOwner, ReadTarget, CountChannels, Goto, TypeOK
  <2> HIDE DEF x
  <2> QED BY <1>1, <1>2, <2>1, <2>2, QuietStep DEF ReqKnown
<1>4. CASE PickHeir(r)
  <2>1. PICK h \in Users : req' = [req EXCEPT ![r].at = "read", ![r].to = h]
    BY <1>4 DEF PickHeir, Members, At, ReqKnown
  <2> DEFINE x == [req[r] EXCEPT !.at = "read", !.to = h]
  <2>2. /\ x \in RequestRecords /\ x.at = "read"
        /\ x.op = "depart" /\ x.to = h /\ x.who \in Users
    BY <1>1, <1>4 DEF RequestRecords, Stages, PickHeir, At, ReqKnown
  <2>3. req' = [req EXCEPT ![r] = x] /\ scrubbed' \subseteq Users
    BY <1>4, <2>1 DEF PickHeir, TypeOK
  <2> HIDE DEF x
  <2> QED BY <1>2, <2>2, <2>3, QuietStep
<1>5. CASE Scrub(r) \/ Abort(r)
  <2>1. req' = [req EXCEPT ![r] = Nil] /\ scrubbed' \subseteq Users
    BY <1>5 DEF Scrub, Abort, Finish, At, ReqKnown, TypeOK
  <2> QED BY <1>2, <2>1, QuietStep
<1> QED BY <1>3, <1>4, <1>5

LEMMA TablesStart ==
  ASSUME Tables, NEW r \in Requests, NEW a \in Users, NEW t \in Users, NEW c \in Channels \union {Nil},
         \/ StartKick(r, a, t) \/ StartRole(r, a, t) \/ StartTransfer(r, a, t)
         \/ StartLeave(r, a) \/ StartDelete(r, a) \/ StartChannel(r, a) \/ StartDeparture(r, a)
         \/ StartDrop(r, a, c)
  PROVE  Tables'
<1> USE DEF Ops, Stages
<1>1. CASE StartKick(r, a, t)
  BY <1>1, StartStep DEF StartKick
<1>2. CASE StartRole(r, a, t)
  BY <1>2, StartStep DEF StartRole
<1>3. CASE StartTransfer(r, a, t)
  BY <1>3, StartStep DEF StartTransfer
<1>4. CASE StartLeave(r, a)
  BY <1>4, StartStep DEF StartLeave
<1>5. CASE StartDelete(r, a)
  BY <1>5, StartStep DEF StartDelete
<1>6. CASE StartChannel(r, a)
  BY <1>6, StartStep DEF StartChannel
<1>7. CASE StartDeparture(r, a)
  <2>1. Start(r, "depart", "checked", a, a, Nil) \/ Start(r, "depart", "scrub", a, a, Nil)
    BY <1>7 DEF StartDeparture
  <2> QED BY <2>1, StartStep
<1>8. CASE StartDrop(r, a, c)
  BY <1>8, StartStep DEF StartDrop
<1> QED BY <1>1, <1>2, <1>3, <1>4, <1>5, <1>6, <1>7, <1>8

LEMMA TablesNext == Tables /\ [Next]_vars => Tables'
<1> SUFFICES ASSUME Tables, [Next]_vars PROVE Tables'
  OBVIOUS
<1>1. ASSUME NEW u \in Users, NEW c \in Channels, Create(u, c) PROVE Tables'
  BY <1>1, TablesCreate
<1>2. ASSUME NEW u \in Users, Join(u) PROVE Tables'
  BY <1>2, TablesJoin
<1>3. ASSUME NEW r \in Requests, NEW a \in Users, NEW t \in Users,
             StartKick(r, a, t) \/ StartRole(r, a, t) \/ StartTransfer(r, a, t)
      PROVE  Tables'
  BY <1>3, TablesStart
<1>4. ASSUME NEW r \in Requests, NEW a \in Users,
             \/ StartLeave(r, a) \/ StartDelete(r, a) \/ StartChannel(r, a) \/ StartDeparture(r, a)
      PROVE  Tables'
  BY <1>4, TablesStart
<1>5. ASSUME NEW r \in Requests, NEW a \in Users, NEW c \in Channels, StartDrop(r, a, c) PROVE Tables'
  BY <1>5, TablesStart
<1>6. ASSUME NEW r \in Requests,
             \/ ReadOwner(r) \/ ReadTarget(r) \/ CountChannels(r) \/ PickHeir(r) \/ Scrub(r) \/ Abort(r)
      PROVE  Tables'
  BY <1>6, TablesQuiet
<1>7. ASSUME NEW r \in Requests,
             \/ Remove(r) \/ CommitRemoval(r) \/ SetRole(r) \/ WriteTransfer(r) \/ WriteDelete(r)
             \/ CommitChannel(r) \/ WriteDrop(r) \/ PassOn(r) \/ Archive(r)
      PROVE  Tables'
  BY <1>7, TablesRemove, TablesCommitRemoval, TablesSetRole, TablesWriteTransfer, TablesWriteDelete,
     TablesCommitChannel, TablesWriteDrop, TablesPassOn, TablesArchive
<1>8. ASSUME NEW r \in Requests, NEW c \in Channels, OpenChannel(r, c) PROVE Tables'
  BY <1>8, TablesOpenChannel
<1>9. CASE UNCHANGED vars
  BY <1>9 DEF vars, row, history, Tables, TypeOK, ReqKnown, NoRow, LocksHold, CountBooks, MembersReach,
     Members, Open, Removing, Opening
<1> QED BY <1>1, <1>2, <1>3, <1>4, <1>5, <1>6, <1>7, <1>8, <1>9 DEF Next

\* The rows and the requests in progress keep their types, for any number of
\* users, channels and requests.
THEOREM GroupTypes == Spec => []TypeOK
<1>1. Spec => []Tables
  BY TablesInit, TablesNext, PTL DEF Spec
<1> QED BY <1>1, PTL DEF Tables

\* member_count never falls below the number of members, and exceeds it only
\* by the owners whose accounts were deleted.
THEOREM GroupCounts == Spec => []CountBooks
<1>1. Spec => []Tables
  BY TablesInit, TablesNext, PTL DEF Spec
<1> QED BY <1>1, PTL DEF Tables

\* A join and a new channel never miss each other.
THEOREM GroupMembersReach == Spec => []MembersReach
<1>1. Spec => []Tables
  BY TablesInit, TablesNext, PTL DEF Spec
<1> QED BY <1>1, PTL DEF Tables

LEMMA TablesAlways == Spec => []Tables
BY TablesInit, TablesNext, PTL DEF Spec

-----------------------------------------------------------------------------
(* Who may read: a removal knows the channels it has seen; access to the   *)
(* others was noted when they were opened.  A channel nobody has committed *)
(* yet is read by nobody.                                                  *)

AccessKnown ==
  /\ StrangersOnlyByOverlap
  /\ \A r \in Requests : Removing(r) => \A c \in Open \ req[r].convs :
       <<c, req[r].to>> \in access => <<c, req[r].to>> \in slipped
  /\ \A r \in Requests : Opening(r) => \A u \in Users : <<req[r].ch, u>> \notin access
  /\ \A c \in Channels \ spent, u \in Users : <<c, u>> \notin access

LEMMA AccessInit == Init => AccessKnown
BY DEF Init, AccessKnown, StrangersOnlyByOverlap, Removing, Opening

\* The steps that change neither members, channels nor access.
LEMMA AccessStill ==
  ASSUME Tables, AccessKnown, Members' = Members, life' = life, channels' \subseteq channels,
         UNCHANGED <<spent, access, slipped>>,
         \A q \in Requests : /\ Removing(q)' => Removing(q) /\ req'[q] = req[q]
                             /\ Opening(q)' => Opening(q) /\ req'[q] = req[q]
  PROVE  AccessKnown'
<1>1. Open' \subseteq Open
  BY DEF Open
<1> QED BY <1>1 DEF AccessKnown, StrangersOnlyByOverlap

LEMMA AccessQuiet ==
  ASSUME Tables, AccessKnown, NEW r \in Requests, NEW x, req' = [req EXCEPT ![r] = x],
         x = Nil \/ x.at # "writing",
         Members' = Members, life' = life, channels' \subseteq channels,
         UNCHANGED <<spent, access, slipped>>
  PROVE  AccessKnown'
<1>1. \A q \in Requests : /\ Removing(q)' => Removing(q) /\ req'[q] = req[q]
                          /\ Opening(q)' => Opening(q) /\ req'[q] = req[q]
  BY NoNewLock DEF Tables
<1> QED BY <1>1, AccessStill

LEMMA AccessStart ==
  ASSUME Tables, AccessKnown, NEW r \in Requests, NEW op, NEW stage, stage # "writing",
         NEW who, NEW to, NEW ch, Start(r, op, stage, who, to, ch)
  PROVE  AccessKnown'
<1> DEFINE x == [op |-> op, at |-> stage, who |-> who, to |-> to, ch |-> ch, convs |-> {}, users |-> {}]
<1>1. req' = [req EXCEPT ![r] = x] /\ x.at # "writing"
  BY DEF Start
<1>2. Members' = Members /\ life' = life /\ channels' \subseteq channels /\ UNCHANGED <<spent, access, slipped>>
  BY DEF Start, Members, row
<1> HIDE DEF x
<1> QED BY <1>1, <1>2, AccessQuiet

LEMMA AccessNext == Tables /\ AccessKnown /\ [Next]_vars => AccessKnown'
<1> SUFFICES ASSUME Tables, AccessKnown, [Next]_vars PROVE AccessKnown'
  OBVIOUS
<1>0. TypeOK /\ LocksHold /\ NoRow /\ ReqKnown
  BY DEF Tables
<1>1. ASSUME NEW u \in Users, NEW c \in Channels, Create(u, c) PROVE AccessKnown'
  <2>1. \A q \in Requests : ~Removing(q)' /\ ~Opening(q)'
    BY <1>0, <1>1 DEF Create, LocksHold, NoRow, Removing, Opening
  <2>2. u \in Members'
    BY <1>0, <1>1, GroupAssumption DEF Create, Members, TypeOK
  <2> QED BY <1>1, <2>1, <2>2, GroupAssumption DEF Create, AccessKnown, StrangersOnlyByOverlap
<1>2. ASSUME NEW u \in Users, Join(u) PROVE AccessKnown'
  <2>1. \A q \in Requests : ~Removing(q)' /\ ~Opening(q)'
    BY <1>2 DEF Join, CanLock, CanUpdate, Removing, Opening
  <2>2. Members' = Members \union {u} /\ Open' = Open
    BY <1>0, <1>2, GroupAssumption DEF Join, Members, TypeOK, Open
  <2>3. \A c \in Channels \ spent : c \notin Open
    BY <1>0, GroupAssumption DEF Open, TypeOK
  <2>4. access' = access \union (Open \X {u}) /\ slipped' = slipped \ (Open \X {u}) /\ spent' = spent /\ life' = life
    BY <1>2 DEF Join
  <2>5. StrangersOnlyByOverlap'
    BY <2>2, <2>4 DEF AccessKnown, StrangersOnlyByOverlap
  <2> QED BY <2>1, <2>3, <2>4, <2>5 DEF AccessKnown
<1>3. ASSUME NEW r \in Requests, NEW a \in Users, NEW t \in Users, NEW c \in Channels \union {Nil},
             \/ StartKick(r, a, t) \/ StartRole(r, a, t) \/ StartTransfer(r, a, t)
             \/ StartLeave(r, a) \/ StartDelete(r, a) \/ StartChannel(r, a) \/ StartDeparture(r, a)
             \/ StartDrop(r, a, c)
      PROVE  AccessKnown'
  <2>1. CASE StartKick(r, a, t)
    BY <2>1, AccessStart DEF StartKick
  <2>2. CASE StartRole(r, a, t)
    BY <2>2, AccessStart DEF StartRole
  <2>3. CASE StartTransfer(r, a, t)
    BY <2>3, AccessStart DEF StartTransfer
  <2>4. CASE StartLeave(r, a)
    BY <2>4, AccessStart DEF StartLeave
  <2>5. CASE StartDelete(r, a)
    BY <2>5, AccessStart DEF StartDelete
  <2>6. CASE StartChannel(r, a)
    BY <2>6, AccessStart DEF StartChannel
  <2>7. CASE StartDeparture(r, a)
    <3>1. Start(r, "depart", "checked", a, a, Nil) \/ Start(r, "depart", "scrub", a, a, Nil)
      BY <2>7 DEF StartDeparture
    <3> QED BY <3>1, AccessStart
  <2>8. CASE StartDrop(r, a, c)
    BY <2>8, AccessStart DEF StartDrop
  <2> QED BY <1>3, <2>1, <2>2, <2>3, <2>4, <2>5, <2>6, <2>7, <2>8
<1>4. ASSUME NEW r \in Requests,
             \/ ReadOwner(r) \/ ReadTarget(r) \/ CountChannels(r) \/ PickHeir(r) \/ Scrub(r) \/ Abort(r)
             \/ WriteDrop(r)
      PROVE  AccessKnown'
  <2>1. PICK x : req' = [req EXCEPT ![r] = x] /\ (x = Nil \/ x.at # "writing")
    <3>1. CASE ReadOwner(r) \/ ReadTarget(r) \/ CountChannels(r)
      <4> DEFINE y == [req[r] EXCEPT !.at = "read"]
      <4>1. req[r] \in RequestRecords
        BY <1>0, <3>1 DEF ReadOwner, ReadTarget, CountChannels, At, TypeOK
      <4>2. y.at = "read"
        BY <4>1 DEF RequestRecords
      <4> QED BY <3>1, <4>2 DEF ReadOwner, ReadTarget, CountChannels, Goto
    <3>2. CASE PickHeir(r)
      <4>1. PICK h : req' = [req EXCEPT ![r].at = "read", ![r].to = h]
        BY <3>2 DEF PickHeir
      <4> DEFINE y == [req[r] EXCEPT !.at = "read", !.to = h]
      <4>2. req[r] \in RequestRecords
        BY <1>0, <3>2 DEF PickHeir, At, TypeOK
      <4>3. y.at = "read"
        BY <4>2 DEF RequestRecords
      <4>4. req' = [req EXCEPT ![r] = y]
        BY <4>1
      <4> QED BY <4>3, <4>4
    <3>3. CASE Scrub(r) \/ Abort(r) \/ WriteDrop(r)
      BY <3>3 DEF Scrub, Abort, WriteDrop, Finish
    <3> QED BY <1>4, <3>1, <3>2, <3>3
  <2>2. Members' = Members /\ life' = life /\ channels' \subseteq channels /\ UNCHANGED <<spent, access, slipped>>
    BY <1>4 DEF ReadOwner, ReadTarget, CountChannels, PickHeir, Scrub, Abort, WriteDrop, Members, row, history
  <2> QED BY <2>1, <2>2, AccessQuiet
<1>5. ASSUME NEW r \in Requests, Remove(r) PROVE AccessKnown'
  <2> DEFINE x == [req[r] EXCEPT !.at = "writing", !.convs = Open]
  <2>1. req[r] \in RequestRecords /\ req[r].op \in {"kick", "leave"} /\ req' = [req EXCEPT ![r] = x]
    BY <1>0, <1>5 DEF Remove, At, TypeOK
  <2>2. x.convs = Open /\ x.op = req[r].op
    BY <2>1 DEF RequestRecords
  <2>3. req'[r] = x /\ \A q \in Requests : q # r => req'[q] = req[q]
    BY <1>0, <2>1 DEF TypeOK
  <2>4. Members' = Members /\ Open' = Open /\ UNCHANGED <<life, spent, access, slipped>>
    BY <1>5 DEF Remove, Members, Open, row, history
  <2>5. ~Opening(r)' /\ \A q \in Requests : q # r => /\ (Opening(q)' => Opening(q))
                                                     /\ (Removing(q)' => Removing(q))
    BY <2>1, <2>2, <2>3 DEF Opening, Removing
  <2>6. req'[r].convs = Open
    BY <2>2, <2>3
  <2> HIDE DEF x
  <2>7. StrangersOnlyByOverlap'
    BY <2>4 DEF AccessKnown, StrangersOnlyByOverlap
  <2>8. ASSUME NEW q \in Requests, Removing(q)', NEW c \in Open' \ req'[q].convs, <<c, req'[q].to>> \in access'
        PROVE  <<c, req'[q].to>> \in slipped'
    <3>1. q # r
      BY <2>4, <2>6, <2>8
    <3>2. Removing(q) /\ req'[q] = req[q]
      BY <2>3, <2>8, <3>1 DEF Removing, Opening
    <3> QED BY <2>4, <2>8, <3>2 DEF AccessKnown
  <2>9. \A q \in Requests : Opening(q)' => \A u \in Users : <<req'[q].ch, u>> \notin access'
    <3> SUFFICES ASSUME NEW q \in Requests, Opening(q)', NEW u \in Users PROVE <<req'[q].ch, u>> \notin access'
      OBVIOUS
    <3>1. Opening(q) /\ req'[q] = req[q]
      BY <2>1, <2>2, <2>3 DEF Removing, Opening
    <3> QED BY <2>4, <3>1 DEF AccessKnown
  <2>10. \A c \in Channels \ spent', u \in Users : <<c, u>> \notin access'
    BY <2>4 DEF AccessKnown
  <2> QED BY <2>7, <2>8, <2>9, <2>10 DEF AccessKnown
<1>6. ASSUME NEW r \in Requests, CommitRemoval(r) PROVE AccessKnown'
  <2> DEFINE t == req[r].to
  <2>1. \A q \in Requests :
          /\ Removing(q)' => q # r /\ Removing(q) /\ req'[q] = req[q]
          /\ Opening(q)' => q # r /\ Opening(q) /\ req'[q] = req[q]
    BY <1>0, <1>6, NoNewLock DEF CommitRemoval, Finish
  <2>2. Removing(r) /\ t \in Members /\ \A q \in Requests : ~Removing(q)'
    BY <1>0, <1>6, <2>1 DEF CommitRemoval, LocksHold
  <2>3. Members' = Members \ {t} /\ Open' = Open
    BY <1>0, <1>6, <2>2 DEF CommitRemoval, Members, TypeOK, Open
  <2>4. /\ access' = access \ (req[r].convs \X {t}) /\ slipped' = slipped \intersect access'
        /\ spent' = spent /\ life' = life
    BY <1>6 DEF CommitRemoval
  <2>5. StrangersOnlyByOverlap'
    <3> SUFFICES ASSUME life' = "live", NEW u \in Users \ Members', NEW c \in Open', <<c, u>> \in access'
                 PROVE  <<c, u>> \in slipped
      BY <2>4 DEF StrangersOnlyByOverlap
    <3>1. CASE u = t
      <4>1. c \in Open \ req[r].convs /\ <<c, t>> \in access
        BY <2>3, <2>4, <3>1
      <4> QED BY <2>2, <3>1, <4>1 DEF AccessKnown
    <3>2. CASE u # t
      BY <2>3, <2>4, <3>2 DEF AccessKnown, StrangersOnlyByOverlap
    <3> QED BY <3>1, <3>2
  <2> QED BY <2>1, <2>2, <2>4, <2>5 DEF AccessKnown
<1>7. ASSUME NEW r \in Requests, SetRole(r) \/ WriteTransfer(r) PROVE AccessKnown'
  <2>1. req' = [req EXCEPT ![r] = Nil] /\ life' = life /\ channels' = channels /\ UNCHANGED <<spent, access, slipped>>
    BY <1>7 DEF SetRole, WriteTransfer, Finish, row, history
  <2>2. Members' = Members
    <3>1. CASE SetRole(r)
      BY <1>0, <3>1, GroupAssumption DEF SetRole, Members, TypeOK
    <3>2. CASE WriteTransfer(r)
      BY <1>0, <3>2, GroupAssumption DEF WriteTransfer, Members, TypeOK
    <3> QED BY <1>7, <3>1, <3>2
  <2> QED BY <2>1, <2>2, AccessQuiet
<1>8. ASSUME NEW r \in Requests, WriteDelete(r) PROVE AccessKnown'
  <2>1. \A q \in Requests : ~Removing(q)' /\ ~Opening(q)'
    BY <1>0, <1>8, NoNewLock DEF WriteDelete, Finish, CanLock, CanUpdate
  <2> QED BY <1>8, <2>1 DEF WriteDelete, AccessKnown, StrangersOnlyByOverlap, history
<1>9. ASSUME NEW r \in Requests, NEW c \in Channels, OpenChannel(r, c) PROVE AccessKnown'
  <2> DEFINE x == [req[r] EXCEPT !.at = "writing", !.ch = c, !.users = Members]
  <2>1. req[r] \in RequestRecords /\ req[r].op = "channel" /\ req' = [req EXCEPT ![r] = x]
    BY <1>0, <1>9 DEF OpenChannel, At, TypeOK
  <2>2. x.ch = c /\ x.op = "channel"
    BY <2>1 DEF RequestRecords
  <2>3. req'[r] = x /\ \A q \in Requests : q # r => req'[q] = req[q]
    BY <1>0, <2>1 DEF TypeOK
  <2>4. /\ Members' = Members /\ Open' = Open /\ UNCHANGED <<life, access, slipped>>
        /\ spent' = spent \union {c} /\ c \notin spent
    BY <1>9 DEF OpenChannel, Members, Open, row, history
  <2>5. ~Removing(r)' /\ \A q \in Requests : q # r => /\ (Opening(q)' => Opening(q))
                                                      /\ (Removing(q)' => Removing(q))
    BY <2>2, <2>3 DEF Opening, Removing
  <2>6. req'[r].ch = c
    BY <2>2, <2>3
  <2> HIDE DEF x
  <2>7. StrangersOnlyByOverlap'
    BY <2>4 DEF AccessKnown, StrangersOnlyByOverlap
  <2>8. ASSUME NEW q \in Requests, Removing(q)', NEW d \in Open' \ req'[q].convs, <<d, req'[q].to>> \in access'
        PROVE  <<d, req'[q].to>> \in slipped'
    <3>1. Removing(q) /\ req'[q] = req[q]
      BY <2>1, <2>2, <2>3, <2>8 DEF Removing, Opening
    <3> QED BY <2>4, <2>8, <3>1 DEF AccessKnown
  <2>9. \A q \in Requests : Opening(q)' => \A u \in Users : <<req'[q].ch, u>> \notin access'
    <3> SUFFICES ASSUME NEW q \in Requests, Opening(q)', NEW u \in Users PROVE <<req'[q].ch, u>> \notin access'
      OBVIOUS
    <3>1. CASE q = r
      BY <2>4, <2>6, <3>1 DEF AccessKnown
    <3>2. CASE q # r
      <4>1. Opening(q) /\ req'[q] = req[q]
        BY <2>3, <3>2 DEF Removing, Opening
      <4> QED BY <2>4, <4>1 DEF AccessKnown
    <3> QED BY <3>1, <3>2
  <2>10. \A d \in Channels \ spent', u \in Users : <<d, u>> \notin access'
    BY <2>4 DEF AccessKnown
  <2> QED BY <2>7, <2>8, <2>9, <2>10 DEF AccessKnown
<1>10. ASSUME NEW r \in Requests, CommitChannel(r) PROVE AccessKnown'
  <2> DEFINE c == req[r].ch
  <2>1. \A q \in Requests :
          /\ Removing(q)' => q # r /\ Removing(q) /\ req'[q] = req[q]
          /\ Opening(q)' => q # r /\ Opening(q) /\ req'[q] = req[q]
    BY <1>0, <1>10, NoNewLock DEF CommitChannel, Finish
  <2>2. /\ Opening(r) /\ c \in spent \ channels /\ \A u \in Users : <<c, u>> \notin access
        /\ \A q \in Requests : Opening(q)' => req'[q].ch # c
    BY <1>0, <1>10, <2>1 DEF CommitChannel, LocksHold, AccessKnown
  <2>3. Members' = Members /\ Open' = Open \union {c} /\ life' = life /\ spent' = spent
    BY <1>10 DEF CommitChannel, Members, Open, row
  <2>4. access' = access \union ({c} \X req[r].users)
    BY <1>10 DEF CommitChannel
  <2>5. \A u \in req[r].users : (u \notin Members \/ \E q \in Requests : Removing(q) /\ req[q].to = u) => <<c, u>> \in slipped'
    BY <1>10 DEF CommitChannel
  <2>6. slipped \subseteq slipped'
    BY <1>10 DEF CommitChannel
  <2>7. StrangersOnlyByOverlap'
    BY <2>2, <2>3, <2>4, <2>5, <2>6 DEF AccessKnown, StrangersOnlyByOverlap
  <2>8. ASSUME NEW q \in Requests, Removing(q)', NEW d \in Open' \ req'[q].convs, <<d, req'[q].to>> \in access'
        PROVE  <<d, req'[q].to>> \in slipped'
    <3>1. Removing(q) /\ req'[q] = req[q] /\ req[q].to \in Users
      BY <1>0, <2>1, <2>8 DEF LocksHold, Members
    <3>2. CASE d = c
      BY <2>2, <2>4, <2>5, <2>8, <3>1, <3>2
    <3>3. CASE d # c
      BY <2>3, <2>4, <2>6, <2>8, <3>1, <3>3 DEF AccessKnown
    <3> QED BY <3>2, <3>3
  <2> QED BY <2>1, <2>2, <2>3, <2>4, <2>7, <2>8 DEF AccessKnown
<1>11. ASSUME NEW r \in Requests, PassOn(r) \/ Archive(r) PROVE AccessKnown'
  <2> DEFINE u == req[r].who
             x == [req[r] EXCEPT !.at = "scrub"]
  <2>1. req[r] \in RequestRecords /\ u \in Users /\ req' = [req EXCEPT ![r] = x]
    BY <1>0, <1>11 DEF PassOn, Archive, At, Goto, TypeOK, ReqKnown
  <2>2. x.at # "writing"
    BY <2>1 DEF RequestRecords
  <2>3. \A q \in Requests : ~Removing(q)' /\ (Opening(q)' => Opening(q) /\ req'[q] = req[q])
    BY <1>0, <1>11, <2>1, <2>2, NoNewLock DEF PassOn, Archive, CanUpdate
  <2>4. Members' = Members \ {u} /\ Open' = Open /\ life' = life /\ spent' = spent
    <3>1. CASE PassOn(r)
      BY <1>0, <2>1, <3>1, GroupAssumption DEF PassOn, Members, Open, TypeOK
    <3>2. CASE Archive(r)
      BY <1>0, <2>1, <3>2 DEF Archive, Members, Open, TypeOK
    <3> QED BY <1>11, <3>1, <3>2
  <2>5. /\ access' \subseteq access
        /\ \A c \in Open : <<c, u>> \in access' => <<c, u>> \in slipped'
        /\ \A p \in access' : p \in slipped => p \in slipped'
    BY <1>11 DEF PassOn, Archive
  <2>6. StrangersOnlyByOverlap'
    BY <2>4, <2>5 DEF AccessKnown, StrangersOnlyByOverlap
  <2> QED BY <2>3, <2>4, <2>5, <2>6 DEF AccessKnown
<1>12. CASE UNCHANGED vars
  BY <1>12, AccessStill DEF vars, row, history, Members, Removing, Opening
<1> QED
  <2>1. ASSUME NEW r \in Requests, NEW a \in Users, NEW t \in Users,
               StartKick(r, a, t) \/ StartRole(r, a, t) \/ StartTransfer(r, a, t)
        PROVE  AccessKnown'
    BY <1>3, <2>1
  <2>2. ASSUME NEW r \in Requests, NEW a \in Users,
               \/ StartLeave(r, a) \/ StartDelete(r, a) \/ StartChannel(r, a) \/ StartDeparture(r, a)
        PROVE  AccessKnown'
    BY <1>3, <2>2
  <2>3. ASSUME NEW r \in Requests, NEW a \in Users, NEW c \in Channels, StartDrop(r, a, c)
        PROVE  AccessKnown'
    BY <1>3, <2>3
  <2> QED BY <1>1, <1>2, <1>4, <1>5, <1>6, <1>7, <1>8, <1>9, <1>10, <1>11, <1>12, <2>1, <2>2, <2>3 DEF Next

\* Whoever reaches a conversation of the group is a member, or was being removed
\* while a channel was opened, or was the last member and deleted his account.
THEOREM GroupStrangers == Spec => []StrangersOnlyByOverlap
<1>1. Spec => []AccessKnown
  BY TablesAlways, AccessInit, AccessNext, PTL DEF Spec
<1> QED BY <1>1, PTL DEF AccessKnown

-----------------------------------------------------------------------------
(* One owner: requests that disturb each other were never in progress      *)
(* together, so what one of them has read still holds when it writes.      *)

Calm == life = "live" /\ ~archived /\ ~crossed

\* Before the group is created, only accounts without groups are deleted.
Early == life = "none" => \A r \in Requests : req[r] # Nil => At(r, "depart", "scrub")

\* What a request has read of the owner and of its target.
Fits(r) ==
  /\ At(r, "kick", "read") \/ At(r, "leave", "read") \/ Removing(r) => req[r].to # owner
  /\ At(r, "transfer", "checked") \/ At(r, "transfer", "read") => req[r].who = owner
  /\ At(r, "transfer", "read") => req[r].to \in Members
  /\ At(r, "depart", "checked") \/ At(r, "depart", "read") => req[r].who = owner
  /\ At(r, "depart", "read") => req[r].to = req[r].who \/ req[r].to \in Members

Apart == \A q, r \in Requests :
           q # r /\ req[q] # Nil /\ req[r] # Nil => req[r].op \notin Disturbing(req[q].op)

OwnerKnown ==
  /\ Early
  /\ OneOwner
  /\ ~crossed => Apart
  /\ Calm => \A r \in Requests : Fits(r)

LEMMA Changed ==
  ASSUME TypeOK, NEW r \in Requests, NEW x, req' = [req EXCEPT ![r] = x]
  PROVE  req'[r] = x /\ \A q \in Requests : q # r => req'[q] = req[q]
BY DEF TypeOK

\* A request that changes its stage keeps its kind.
LEMMA Staged ==
  ASSUME TypeOK, NEW r \in Requests, req[r] # Nil, NEW s, Goto(r, s)
  PROVE  /\ req' = [req EXCEPT ![r] = [req[r] EXCEPT !.at = s]]
         /\ req'[r].op = req[r].op /\ req'[r].at = s
         /\ req'[r].to = req[r].to /\ req'[r].who = req[r].who
<1>1. req[r] \in RequestRecords
  BY DEF TypeOK
<1> DEFINE x == [req[r] EXCEPT !.at = s]
<1>2. x.op = req[r].op /\ x.at = s /\ x.to = req[r].to /\ x.who = req[r].who
  BY <1>1 DEF RequestRecords
<1>3. req' = [req EXCEPT ![r] = x]
  BY DEF Goto
<1>4. req'[r] = x
  BY <1>3, Changed
<1> QED BY <1>2, <1>3, <1>4

LEMMA ApartKept ==
  ASSUME TypeOK, Apart, NEW r \in Requests, NEW x, req' = [req EXCEPT ![r] = x],
         x = Nil \/ (req[r] # Nil /\ x.op = req[r].op)
  PROVE  Apart'
<1>1. req'[r] = x /\ \A q \in Requests : q # r => req'[q] = req[q]
  BY Changed
<1> SUFFICES ASSUME NEW p \in Requests, NEW q \in Requests, p # q, req'[p] # Nil, req'[q] # Nil
             PROVE  req'[q].op \notin Disturbing(req'[p].op)
  BY DEF Apart
<1>2. req[p] # Nil /\ req[q] # Nil /\ req'[p].op = req[p].op /\ req'[q].op = req[q].op
  BY <1>1
<1> QED BY <1>2 DEF Apart

\* Beside a change of ownership nobody else changes it or removes a member.
LEMMA Alone ==
  ASSUME Apart, NEW r \in Requests, req[r] # Nil, req[r].op \in Ownership,
         NEW q \in Requests, q # r, req[q] # Nil
  PROVE  req[q].op \notin Ownership \union {"kick", "leave"}
BY DEF Apart, Disturbing

\* The other requests, when the owner stays and so do the members.
LEMMA OthersFit ==
  ASSUME NEW q \in Requests, Fits(q), req'[q] = req[q], owner' = owner, Members \subseteq Members'
  PROVE  Fits(q)'
BY DEF Fits, At, Removing

\* The other requests, when they have nothing to do with members or owner.
LEMMA UnrelatedFit ==
  ASSUME NEW q \in Requests, req'[q] = Nil \/ req'[q].op \notin Ownership \union {"kick", "leave"}
  PROVE  Fits(q)'
BY DEF Fits, At, Removing, Ownership

LEMMA OwnerInit == Init => OwnerKnown
BY DEF Init, OwnerKnown, Early, OneOwner, Apart, Calm

\* A step that moves one request and leaves owner, roles and the row alone.
LEMMA OwnerQuiet ==
  ASSUME TypeOK, OwnerKnown, Early', NEW r \in Requests, NEW x, req' = [req EXCEPT ![r] = x],
         x = Nil \/ (req[r] # Nil /\ x.op = req[r].op), Calm => Fits(r)',
         UNCHANGED <<row, role, crossed>>
  PROVE  OwnerKnown'
<1>1. req'[r] = x /\ \A q \in Requests : q # r => req'[q] = req[q]
  BY Changed
<1>2. ~crossed' => Apart'
  BY ApartKept DEF OwnerKnown
<1>3. OneOwner' /\ (Calm' => Calm) /\ Members' = Members /\ owner' = owner
  BY DEF OwnerKnown, OneOwner, Calm, Members, row
<1>4. Calm' => \A q \in Requests : Fits(q)'
  <2> SUFFICES ASSUME Calm, NEW q \in Requests, q # r PROVE Fits(q)'
    BY <1>3
  <2>1. Fits(q)
    BY DEF OwnerKnown
  <2> QED BY <1>1, <1>3, <2>1, OthersFit
<1> QED BY <1>2, <1>3, <1>4 DEF OwnerKnown

LEMMA EarlyNext == TypeOK /\ Early /\ [Next]_vars => Early'
<1> SUFFICES ASSUME TypeOK, Early, [Next]_vars, life' = "none" PROVE Early'
  BY DEF Early
<1>1. ASSUME NEW r \in Requests, NEW a \in Users, StartDeparture(r, a) PROVE Early'
  <2> DEFINE x == [op |-> "depart", at |-> "scrub", who |-> a, to |-> a, ch |-> Nil,
                   convs |-> {}, users |-> {}]
  <2>1. req' = [req EXCEPT ![r] = x] /\ life = "none"
    BY <1>1 DEF StartDeparture, Start, row
  <2>2. x.op = "depart" /\ x.at = "scrub"
    OBVIOUS
  <2>3. req'[r] = x /\ \A q \in Requests : q # r => req'[q] = req[q]
    BY <2>1, Changed
  <2> HIDE DEF x
  <2> QED BY <2>1, <2>2, <2>3 DEF Early, At
<1>2. ASSUME NEW r \in Requests, Scrub(r) \/ Abort(r) PROVE Early'
  <2>1. req' = [req EXCEPT ![r] = Nil] /\ life = "none"
    BY <1>2 DEF Scrub, Abort, Finish, row
  <2>2. req'[r] = Nil /\ \A q \in Requests : q # r => req'[q] = req[q]
    BY <2>1, Changed
  <2> QED BY <2>1, <2>2 DEF Early, At
<1>3. ASSUME NEW r \in Requests,
             \/ ReadOwner(r) \/ Remove(r) \/ CommitRemoval(r) \/ SetRole(r) \/ ReadTarget(r)
             \/ WriteTransfer(r) \/ WriteDelete(r) \/ CommitChannel(r) \/ CountChannels(r)
             \/ WriteDrop(r) \/ PickHeir(r) \/ PassOn(r) \/ Archive(r)
      PROVE  FALSE
  <2>1. life = "none" /\ req[r] # Nil /\ ~At(r, "depart", "scrub")
    BY <1>3 DEF ReadOwner, Remove, CommitRemoval, SetRole, ReadTarget, WriteTransfer, WriteDelete,
       CommitChannel, CountChannels, WriteDrop, PickHeir, PassOn, Archive, At, Removing, Opening, row
  <2> QED BY <2>1 DEF Early
<1>4. ASSUME NEW r \in Requests, NEW c \in Channels, OpenChannel(r, c) PROVE FALSE
  BY <1>4 DEF OpenChannel, row
<1>5. ASSUME NEW u \in Users, NEW c \in Channels, Create(u, c) PROVE FALSE
  BY <1>5 DEF Create
<1>6. ASSUME NEW u \in Users, Join(u) PROVE FALSE
  BY <1>6 DEF Join
<1>7. CASE UNCHANGED vars
  BY <1>7 DEF vars, row, Early, At
<1> QED
  <2>1. ASSUME NEW r \in Requests, NEW a \in Users, NEW t \in Users,
               StartKick(r, a, t) \/ StartRole(r, a, t) \/ StartTransfer(r, a, t)
        PROVE  FALSE
    BY <2>1 DEF StartKick, StartRole, StartTransfer, Start, row
  <2>2. ASSUME NEW r \in Requests, NEW a \in Users,
               StartLeave(r, a) \/ StartDelete(r, a) \/ StartChannel(r, a)
        PROVE  FALSE
    BY <2>2 DEF StartLeave, StartDelete, StartChannel, Start, row
  <2>3. ASSUME NEW r \in Requests, NEW a \in Users, NEW c \in Channels, StartDrop(r, a, c) PROVE FALSE
    BY <2>3 DEF StartDrop, Start, row
  <2> QED BY <1>1, <1>2, <1>3, <1>4, <1>5, <1>6, <1>7, <2>1, <2>2, <2>3 DEF Next

LEMMA OwnerStart ==
  ASSUME TypeOK, OwnerKnown, Early', NEW r \in Requests, NEW op, NEW stage, NEW who, NEW to, NEW ch,
         Start(r, op, stage, who, to, ch),
         op \in {"kick", "leave"} => stage = "checked",
         op = "transfer" /\ Calm => stage = "checked" /\ who = owner,
         op = "depart" /\ Calm => stage = "scrub" \/ (stage = "checked" /\ who = owner)
  PROVE  OwnerKnown'
<1> DEFINE x == [op |-> op, at |-> stage, who |-> who, to |-> to, ch |-> ch, convs |-> {}, users |-> {}]
<1>1. /\ req' = [req EXCEPT ![r] = x] /\ req[r] = Nil
      /\ x.op = op /\ x.at = stage /\ x.who = who
      /\ ~crossed' => ~crossed /\ \A q \in Requests : req[q] # Nil => req[q].op \notin Disturbing(op)
      /\ UNCHANGED <<row, role>>
  BY DEF Start
<1> HIDE DEF x
<1>2. req'[r] = x /\ \A q \in Requests : q # r => req'[q] = req[q]
  BY <1>1, Changed
<1>3. ~crossed' => Apart'
  <2> SUFFICES ASSUME ~crossed', NEW p \in Requests, NEW q \in Requests, p # q, req'[p] # Nil, req'[q] # Nil
               PROVE  req'[q].op \notin Disturbing(req'[p].op)
    BY DEF Apart
  <2>1. CASE p # r /\ q # r
    BY <1>1, <1>2, <2>1 DEF OwnerKnown, Apart
  <2>2. CASE p = r
    BY <1>1, <1>2, <2>2
  <2>3. CASE q = r
    <3>1. req[p] # Nil /\ req'[p].op = req[p].op /\ req[p].op \notin Disturbing(op) /\ req'[q].op = op
      BY <1>1, <1>2, <2>3
    <3> QED BY <3>1 DEF Disturbing, Ownership
  <2> QED BY <2>1, <2>2, <2>3
<1>4. OneOwner' /\ (Calm' => Calm) /\ Members' = Members /\ owner' = owner
  BY <1>1 DEF OwnerKnown, OneOwner, Calm, Members, row
<1>5. Calm' => Fits(r)'
  BY <1>1, <1>2, <1>4 DEF Fits, At, Removing
<1>6. Calm' => \A q \in Requests : Fits(q)'
  <2> SUFFICES ASSUME Calm, NEW q \in Requests, q # r PROVE Fits(q)'
    BY <1>4, <1>5
  <2>1. Fits(q)
    BY DEF OwnerKnown
  <2> QED BY <1>2, <1>4, <2>1, OthersFit
<1> QED BY <1>3, <1>4, <1>6 DEF OwnerKnown

LEMMA OwnerNext == Tables /\ OwnerKnown /\ [Next]_vars => OwnerKnown'
<1> SUFFICES ASSUME Tables, OwnerKnown, [Next]_vars PROVE OwnerKnown'
  OBVIOUS
<1>0. TypeOK /\ LocksHold /\ NoRow /\ ReqKnown /\ Early' /\ Early
  BY EarlyNext DEF Tables, OwnerKnown
<1>1. ASSUME NEW u \in Users, NEW c \in Channels, Create(u, c) PROVE OwnerKnown'
  <2>1. \A q \in Requests : req'[q] = req[q] /\ (req[q] # Nil => At(q, "depart", "scrub"))
    BY <1>0, <1>1 DEF Create, Early
  <2>2. \A q \in Requests : Fits(q)'
    BY <2>1 DEF Fits, At, Removing
  <2>3. Apart' \/ crossed'
    BY <1>1, <2>1 DEF Create, OwnerKnown, Apart, history
  <2>4. OneOwner'
    BY <1>0, <1>1, GroupAssumption DEF Create, NoRow, Members, OneOwner, TypeOK
  <2> QED BY <1>0, <2>2, <2>3, <2>4 DEF OwnerKnown
<1>2. ASSUME NEW u \in Users, Join(u) PROVE OwnerKnown'
  <2>1. req' = req /\ owner' = owner /\ (Calm' => Calm) /\ crossed' = crossed
    BY <1>2 DEF Join, Calm
  <2>2. Members \subseteq Members' /\ OneOwner'
    BY <1>0, <1>2, GroupAssumption DEF Join, Members, OneOwner, OwnerKnown, TypeOK
  <2>3. Calm' => \A q \in Requests : Fits(q)'
    BY <2>1, <2>2, OthersFit DEF OwnerKnown
  <2>4. Apart' \/ crossed'
    BY <2>1 DEF OwnerKnown, Apart
  <2> QED BY <1>0, <2>2, <2>3, <2>4 DEF OwnerKnown
<1>3. ASSUME NEW r \in Requests, NEW a \in Users, NEW t \in Users, NEW c \in Channels \union {Nil},
             \/ StartKick(r, a, t) \/ StartRole(r, a, t) \/ StartTransfer(r, a, t)
             \/ StartLeave(r, a) \/ StartDelete(r, a) \/ StartChannel(r, a) \/ StartDeparture(r, a)
             \/ StartDrop(r, a, c)
      PROVE  OwnerKnown'
  <2>1. CASE StartKick(r, a, t)
    BY <1>0, <2>1, OwnerStart DEF StartKick
  <2>2. CASE StartRole(r, a, t)
    BY <1>0, <2>2, OwnerStart DEF StartRole
  <2>3. CASE StartTransfer(r, a, t)
    <3>1. Calm => a = owner
      BY <2>3 DEF StartTransfer, OwnerKnown, OneOwner, Calm
    <3>2. Start(r, "transfer", "checked", a, t, Nil)
      BY <2>3 DEF StartTransfer
    <3> QED BY <1>0, <3>1, <3>2, OwnerStart
  <2>4. CASE StartLeave(r, a)
    BY <1>0, <2>4, OwnerStart DEF StartLeave
  <2>5. CASE StartDelete(r, a)
    BY <1>0, <2>5, OwnerStart DEF StartDelete
  <2>6. CASE StartChannel(r, a)
    BY <1>0, <2>6, OwnerStart DEF StartChannel
  <2>7. CASE StartDeparture(r, a)
    <3>1. \/ Start(r, "depart", "checked", a, a, Nil) /\ a = owner
          \/ Start(r, "depart", "scrub", a, a, Nil)
      BY <2>7 DEF StartDeparture
    <3> QED BY <1>0, <3>1, OwnerStart
  <2>8. CASE StartDrop(r, a, c)
    BY <1>0, <2>8, OwnerStart DEF StartDrop
  <2> QED BY <1>3, <2>1, <2>2, <2>3, <2>4, <2>5, <2>6, <2>7, <2>8
<1>4. ASSUME NEW r \in Requests, ReadOwner(r) \/ ReadTarget(r) \/ CountChannels(r) PROVE OwnerKnown'
  <2> DEFINE x == [req[r] EXCEPT !.at = "read"]
  <2>1. req[r] # Nil /\ Goto(r, "read") /\ UNCHANGED <<row, role, crossed>>
    BY <1>4 DEF ReadOwner, ReadTarget, CountChannels, At, history
  <2>2. /\ req' = [req EXCEPT ![r] = x] /\ req'[r] = x /\ x.op = req[r].op /\ x.at = "read"
        /\ req'[r].to = req[r].to /\ req'[r].who = req[r].who
    <3>1. req'[r] = x
      BY <1>0, <2>1, Staged, Changed
    <3> QED BY <1>0, <2>1, <3>1, Staged
  <2>3. Calm => Fits(r)'
    <3>0. owner' = owner /\ Members' = Members
      BY <2>1 DEF row, Members
    <3>1. CASE ReadOwner(r)
      BY <2>2, <3>0, <3>1 DEF ReadOwner, Fits, At, Removing
    <3>2. CASE ReadTarget(r)
      BY <2>2, <3>0, <3>2 DEF ReadTarget, Fits, At, Removing, OwnerKnown
    <3>3. CASE CountChannels(r)
      BY <2>2, <3>0, <3>3 DEF CountChannels, Fits, At, Removing
    <3> QED BY <1>4, <3>1, <3>2, <3>3
  <2> HIDE DEF x
  <2> QED BY <1>0, <2>1, <2>2, <2>3, OwnerQuiet
<1>5. ASSUME NEW r \in Requests,
             \/ WriteDrop(r) \/ CommitChannel(r) \/ Scrub(r) \/ Abort(r)
      PROVE  OwnerKnown'
  <2>1. req' = [req EXCEPT ![r] = Nil] /\ UNCHANGED <<row, role, crossed>>
    BY <1>5 DEF WriteDrop, CommitChannel, Scrub, Abort, Finish, history
  <2>2. Fits(r)'
    BY <1>0, <2>1, Changed DEF Fits, At, Removing
  <2> QED BY <1>0, <2>1, <2>2, OwnerQuiet
<1>6. ASSUME NEW r \in Requests, NEW c \in Channels, OpenChannel(r, c) PROVE OwnerKnown'
  <2> DEFINE x == [req[r] EXCEPT !.at = "writing", !.ch = c, !.users = Members]
  <2>1. /\ req[r] \in RequestRecords /\ req[r] # Nil /\ req[r].op = "channel"
        /\ req' = [req EXCEPT ![r] = x] /\ UNCHANGED <<row, role, crossed>>
    BY <1>0, <1>6 DEF OpenChannel, At, TypeOK, history
  <2>2. x.op = "channel"
    BY <2>1 DEF RequestRecords
  <2> HIDE DEF x
  <2>3. Fits(r)'
    BY <1>0, <2>1, <2>2, Changed DEF Fits, At, Removing
  <2> QED BY <1>0, <2>1, <2>2, <2>3, OwnerQuiet
<1>7. ASSUME NEW r \in Requests, Remove(r) PROVE OwnerKnown'
  <2> DEFINE x == [req[r] EXCEPT !.at = "writing", !.convs = Open]
  <2>1. /\ req[r] \in RequestRecords /\ req[r] # Nil /\ (At(r, "kick", "read") \/ At(r, "leave", "read"))
        /\ req' = [req EXCEPT ![r] = x] /\ UNCHANGED <<row, role, crossed>>
    BY <1>0, <1>7 DEF Remove, At, TypeOK, history
  <2>2. x.op = req[r].op /\ x.to = req[r].to /\ x.at = "writing"
    BY <2>1 DEF RequestRecords
  <2> HIDE DEF x
  <2>3. req'[r] = x
    BY <1>0, <2>1, Changed
  <2>4. Calm => req[r].to # owner
    BY <2>1 DEF OwnerKnown, Fits
  <2>5. Calm => Fits(r)'
    <3>1. req'[r].op \in {"kick", "leave"} /\ req'[r].at = "writing" /\ req'[r].to = req[r].to /\ owner' = owner
      BY <2>1, <2>2, <2>3 DEF At, row
    <3> SUFFICES ASSUME Calm PROVE Fits(r)'
      OBVIOUS
    <3>2. req'[r].to # owner'
      BY <2>4, <3>1
    <3>3. /\ ~At(r, "transfer", "checked")' /\ ~At(r, "transfer", "read")'
          /\ ~At(r, "depart", "checked")' /\ ~At(r, "depart", "read")'
      BY <3>1 DEF At
    <3> QED BY <3>2, <3>3 DEF Fits
  <2> QED BY <1>0, <2>1, <2>2, <2>5, OwnerQuiet
<1>8. ASSUME NEW r \in Requests, PickHeir(r) PROVE OwnerKnown'
  <2>1. PICK h \in (Members \ {req[r].who}) \union {req[r].who} : req' = [req EXCEPT ![r].at = "read", ![r].to = h]
    BY <1>8 DEF PickHeir
  <2> DEFINE x == [req[r] EXCEPT !.at = "read", !.to = h]
  <2>2. /\ req[r] \in RequestRecords /\ req[r] # Nil /\ At(r, "depart", "checked")
        /\ req' = [req EXCEPT ![r] = x] /\ UNCHANGED <<row, role, crossed>>
    BY <1>0, <1>8, <2>1 DEF PickHeir, At, TypeOK, history
  <2>3. x.op = "depart" /\ x.to = h /\ x.at = "read" /\ x.who = req[r].who /\ req[r].op = "depart"
    BY <2>2 DEF RequestRecords, At
  <2> HIDE DEF x
  <2>4. req'[r] = x
    BY <1>0, <2>2, Changed
  <2>5. Calm => req[r].who = owner
    BY <2>2 DEF OwnerKnown, Fits
  <2>6. owner' = owner /\ Members' = Members
    BY <2>2 DEF row, Members
  <2>7. Calm => Fits(r)'
    BY <2>1, <2>3, <2>4, <2>5, <2>6 DEF Fits, At, Removing
  <2> QED BY <1>0, <2>2, <2>3, <2>7, OwnerQuiet
<1>9. ASSUME NEW r \in Requests, SetRole(r) PROVE OwnerKnown'
  <2>1. req' = [req EXCEPT ![r] = Nil] /\ UNCHANGED <<row, crossed>>
    BY <1>9 DEF SetRole, Finish, history
  <2>2. req'[r] = Nil /\ \A q \in Requests : q # r => req'[q] = req[q]
    BY <1>0, <2>1, Changed
  <2>3. Members' = Members /\ OneOwner'
    BY <1>0, <1>9, GroupAssumption DEF SetRole, Members, OneOwner, OwnerKnown, TypeOK, row, history
  <2>4. ~crossed' => Apart'
    BY <1>0, <2>1, ApartKept DEF OwnerKnown
  <2>5. ASSUME Calm', NEW q \in Requests PROVE Fits(q)'
    <3>1. CASE q = r
      BY <2>2, <3>1, UnrelatedFit
    <3>2. CASE q # r
      <4>1. Fits(q) /\ owner' = owner
        BY <2>1, <2>5 DEF OwnerKnown, Calm, row
      <4> QED BY <2>2, <2>3, <3>2, <4>1, OthersFit
    <3> QED BY <3>1, <3>2
  <2> QED BY <1>0, <2>3, <2>4, <2>5 DEF OwnerKnown
<1>10. ASSUME NEW r \in Requests, CommitRemoval(r) PROVE OwnerKnown'
  <2> DEFINE t == req[r].to
  <2>1. /\ req' = [req EXCEPT ![r] = Nil] /\ UNCHANGED <<life, owner, archived, crossed>>
        /\ role' = [role EXCEPT ![t] = Absent] /\ Removing(r)
    BY <1>10 DEF CommitRemoval, Finish
  <2>2. req'[r] = Nil /\ \A q \in Requests : q # r => req'[q] = req[q]
    BY <1>0, <2>1, Changed
  <2>3. Calm' => Calm /\ t # owner
    BY <2>1 DEF Calm, OwnerKnown, Fits
  <2>4. OneOwner'
    BY <1>0, <2>1, <2>3, GroupAssumption DEF OneOwner, OwnerKnown, Calm, TypeOK
  <2>5. ~crossed' => Apart'
    BY <1>0, <2>1, ApartKept DEF OwnerKnown
  <2>6. ASSUME Calm', NEW q \in Requests PROVE Fits(q)'
    <3>1. CASE req'[q] = Nil \/ req'[q].op \notin Ownership \union {"kick", "leave"}
      BY <3>1, UnrelatedFit
    <3>2. CASE req'[q] # Nil /\ req'[q].op \in Ownership
      <4>1. q # r /\ req[q] # Nil /\ req[q].op \in Ownership /\ req[r] # Nil
        BY <2>1, <2>2, <3>2 DEF Removing
      <4>2. Apart /\ req[r].op \in {"kick", "leave"}
        BY <2>1, <2>6 DEF OwnerKnown, Calm, Removing
      <4> QED BY <4>1, <4>2, Alone
    <3>3. CASE req'[q] # Nil /\ req'[q].op \in {"kick", "leave"}
      <4>1. q # r /\ req'[q] = req[q] /\ Fits(q)
        BY <2>2, <2>3, <2>6, <3>3 DEF OwnerKnown
      <4> QED BY <2>1, <3>3, <4>1 DEF Fits, At, Removing
    <3> QED BY <3>1, <3>2, <3>3
  <2> QED BY <1>0, <2>4, <2>5, <2>6 DEF OwnerKnown
<1>11. ASSUME NEW r \in Requests, WriteDelete(r) PROVE OwnerKnown'
  <2>1. req' = [req EXCEPT ![r] = Nil] /\ life' = "deleted" /\ crossed' = crossed
    BY <1>11 DEF WriteDelete, Finish, history
  <2>2. ~crossed' => Apart'
    BY <1>0, <2>1, ApartKept DEF OwnerKnown
  <2> QED BY <1>0, <2>1, <2>2 DEF OwnerKnown, OneOwner, Calm
<1>12. ASSUME NEW r \in Requests, WriteTransfer(r) PROVE OwnerKnown'
  <2> DEFINE n == req[r].to
             o == req[r].who
  <2>1. /\ req' = [req EXCEPT ![r] = Nil] /\ UNCHANGED <<life, archived, crossed>>
        /\ At(r, "transfer", "read") /\ owner' = n
        /\ role' = [u \in Users |-> IF u \notin Members THEN Absent
                                    ELSE IF u = n THEN 2 ELSE IF u = o THEN 1 ELSE role[u]]
    BY <1>12 DEF WriteTransfer, Finish, history
  <2>2. req'[r] = Nil /\ \A q \in Requests : q # r => req'[q] = req[q]
    BY <1>0, <2>1, Changed
  <2>3. Calm' => Calm /\ o = owner /\ n \in Members
    BY <2>1 DEF Calm, OwnerKnown, Fits
  <2>4. OneOwner'
    <3> SUFFICES ASSUME Calm' PROVE owner' \in Users /\ \A u \in Users : role'[u] = 2 <=> u = owner'
      BY DEF OneOwner, Calm
    <3>1. \A u \in Users : role[u] = 2 => u = o
      BY <2>3 DEF OwnerKnown, OneOwner, Calm
    <3>2. n \in Users /\ n \in Members
      BY <2>3 DEF Members
    <3> QED BY <2>1, <3>1, <3>2, GroupAssumption
  <2>5. ~crossed' => Apart'
    BY <1>0, <2>1, ApartKept DEF OwnerKnown
  <2>6. ASSUME Calm', NEW q \in Requests PROVE Fits(q)'
    <3>1. req'[q] = Nil \/ req'[q].op \notin Ownership \union {"kick", "leave"}
      <4>1. CASE q = r \/ req[q] = Nil
        BY <2>2, <4>1
      <4>2. CASE q # r /\ req[q] # Nil
        <5>1. Apart /\ req[r] # Nil /\ req[r].op \in Ownership
          BY <2>1, <2>3, <2>6 DEF OwnerKnown, Calm, At, Ownership
        <5> QED BY <2>2, <4>2, <5>1, Alone
      <4> QED BY <4>1, <4>2
    <3> QED BY <3>1, UnrelatedFit
  <2> QED BY <1>0, <2>4, <2>5, <2>6 DEF OwnerKnown
<1>13. ASSUME NEW r \in Requests, PassOn(r) \/ Archive(r) PROVE OwnerKnown'
  <2> DEFINE u == req[r].who
             h == req[r].to
  <2>1. At(r, "depart", "read") /\ Goto(r, "scrub") /\ req[r] # Nil /\ crossed' = crossed /\ life' = life
    BY <1>13 DEF PassOn, Archive, At
  <2>2. req'[r].op = "depart" /\ req'[r].at = "scrub" /\ \A q \in Requests : q # r => req'[q] = req[q]
    BY <1>0, <2>1, Staged, Changed DEF At
  <2>3. ~crossed' => Apart'
    BY <1>0, <2>1, Staged, ApartKept DEF OwnerKnown
  <2>4. Calm' => Calm
    BY <1>13 DEF PassOn, Archive, Calm
  <2>5. ASSUME Calm', NEW q \in Requests PROVE Fits(q)'
    <3>1. CASE q = r
      BY <2>2, <3>1 DEF Fits, At, Removing
    <3>2. CASE q # r
      <4>1. req'[q] = Nil \/ req'[q].op \notin Ownership \union {"kick", "leave"}
        <5>1. CASE req[q] = Nil
          BY <2>2, <3>2, <5>1
        <5>2. CASE req[q] # Nil
          <6>1. Apart /\ req[r].op \in Ownership
            BY <2>1, <2>4, <2>5 DEF OwnerKnown, Calm, At, Ownership
          <6> QED BY <2>1, <2>2, <3>2, <5>2, <6>1, Alone
        <5> QED BY <5>1, <5>2
      <4> QED BY <4>1, UnrelatedFit
    <3> QED BY <3>1, <3>2
  <2>6. OneOwner'
    <3> SUFFICES ASSUME Calm' PROVE owner' \in Users /\ \A v \in Users : role'[v] = 2 <=> v = owner'
      BY DEF OneOwner, Calm
    <3>1. Calm /\ u = owner /\ (h = u \/ h \in Members) /\ \A v \in Users : role[v] = 2 => v = u
      BY <2>1, <2>4 DEF OwnerKnown, Fits, OneOwner, Calm
    <3>2. PassOn(r)
      BY <1>13, <3>1 DEF Archive, Calm
    <3>3. /\ h # u /\ owner' = h
          /\ role' = [v \in Users |-> IF v = u \/ v \notin Members THEN Absent
                                      ELSE IF v = h THEN 2 ELSE role[v]]
      BY <3>1, <3>2 DEF PassOn, Calm
    <3>4. h \in Users /\ h \in Members
      BY <3>1, <3>3 DEF Members
    <3> QED BY <3>1, <3>3, <3>4, GroupAssumption
  <2> QED BY <1>0, <2>3, <2>5, <2>6 DEF OwnerKnown
<1>14. CASE UNCHANGED vars
  BY <1>0, <1>14 DEF vars, row, history, OwnerKnown, OneOwner, Apart, Calm, Fits, At, Removing, Members
<1> QED
  <2>1. ASSUME NEW r \in Requests, NEW a \in Users, NEW t \in Users,
               StartKick(r, a, t) \/ StartRole(r, a, t) \/ StartTransfer(r, a, t)
        PROVE  OwnerKnown'
    BY <1>3, <2>1
  <2>2. ASSUME NEW r \in Requests, NEW a \in Users,
               \/ StartLeave(r, a) \/ StartDelete(r, a) \/ StartChannel(r, a) \/ StartDeparture(r, a)
        PROVE  OwnerKnown'
    BY <1>3, <2>2
  <2>3. ASSUME NEW r \in Requests, NEW a \in Users, NEW c \in Channels, StartDrop(r, a, c)
        PROVE  OwnerKnown'
    BY <1>3, <2>3
  <2> QED BY <1>1, <1>2, <1>4, <1>5, <1>6, <1>7, <1>8, <1>9, <1>10, <1>11, <1>12, <1>13, <1>14,
          <2>1, <2>2, <2>3 DEF Next

\* A group has one owner, and only he has the owner's role, as long as no
\* change of ownership overlapped another or a removal.
THEOREM GroupOneOwner == Spec => []OneOwner
<1>1. Spec => []OwnerKnown
  BY TablesAlways, OwnerInit, OwnerNext, PTL DEF Spec
<1> QED BY <1>1, PTL DEF OwnerKnown

-----------------------------------------------------------------------------
(* A channel remains: one deletion at a time counts more than one channel  *)
(* and deletes one.                                                        *)

DropsKnown ==
  life = "live" /\ ~dropsMet =>
    /\ channels # {}
    /\ \A r \in Requests : At(r, "drop", "read") => channels \ {req[r].ch} # {}
    /\ \A q, r \in Requests : At(q, "drop", "read") /\ At(r, "drop", "read") => q = r

LEMMA DropsInit == Init => DropsKnown
BY DEF Init, DropsKnown

\* No deletion reaches its second step, and no channel goes.
LEMMA DropsQuiet ==
  ASSUME DropsKnown, life' = "live" => life = "live", dropsMet' = dropsMet, channels \subseteq channels',
         \A q \in Requests : At(q, "drop", "read")' => At(q, "drop", "read") /\ req'[q] = req[q]
  PROVE  DropsKnown'
BY DEF DropsKnown

\* The request that moves is not a deletion of a channel that goes on to it.
LEMMA DropsOther ==
  ASSUME TypeOK, NEW r \in Requests, NEW x, req' = [req EXCEPT ![r] = x],
         x = Nil \/ x.op # "drop" \/ x.at # "read"
  PROVE  \A q \in Requests : At(q, "drop", "read")' => At(q, "drop", "read") /\ req'[q] = req[q]
BY Changed DEF At

LEMMA DropsNext == TypeOK /\ Early /\ DropsKnown /\ [Next]_vars => DropsKnown'
<1> SUFFICES ASSUME TypeOK, Early, DropsKnown, [Next]_vars PROVE DropsKnown'
  OBVIOUS
<1>1. ASSUME NEW u \in Users, NEW c \in Channels, Create(u, c) PROVE DropsKnown'
  <2>1. channels' = {c} /\ req' = req /\ life = "none"
    BY <1>1 DEF Create
  <2>2. \A q \in Requests : ~At(q, "drop", "read")'
    BY <2>1 DEF Early, At
  <2> QED BY <2>1, <2>2 DEF DropsKnown
<1>2. ASSUME NEW u \in Users, Join(u) PROVE DropsKnown'
  BY <1>2, DropsQuiet DEF Join, At
<1>3. ASSUME NEW r \in Requests, NEW op, NEW stage, stage # "read", NEW who, NEW to, NEW ch,
             Start(r, op, stage, who, to, ch)
      PROVE  DropsKnown'
  <2> DEFINE x == [op |-> op, at |-> stage, who |-> who, to |-> to, ch |-> ch, convs |-> {}, users |-> {}]
  <2>1. req' = [req EXCEPT ![r] = x] /\ x.at # "read" /\ life' = life /\ dropsMet' = dropsMet /\ channels' = channels
    BY <1>3 DEF Start, row
  <2> HIDE DEF x
  <2> QED BY <2>1, DropsOther, DropsQuiet
<1>4. ASSUME NEW r \in Requests, NEW a \in Users, NEW t \in Users, NEW c \in Channels \union {Nil},
             \/ StartKick(r, a, t) \/ StartRole(r, a, t) \/ StartTransfer(r, a, t)
             \/ StartLeave(r, a) \/ StartDelete(r, a) \/ StartChannel(r, a) \/ StartDeparture(r, a)
             \/ StartDrop(r, a, c)
      PROVE  DropsKnown'
  <2>1. CASE StartKick(r, a, t)
    BY <1>3, <2>1 DEF StartKick
  <2>2. CASE StartRole(r, a, t)
    BY <1>3, <2>2 DEF StartRole
  <2>3. CASE StartTransfer(r, a, t)
    BY <1>3, <2>3 DEF StartTransfer
  <2>4. CASE StartLeave(r, a)
    BY <1>3, <2>4 DEF StartLeave
  <2>5. CASE StartDelete(r, a)
    BY <1>3, <2>5 DEF StartDelete
  <2>6. CASE StartChannel(r, a)
    BY <1>3, <2>6 DEF StartChannel
  <2>7. CASE StartDeparture(r, a)
    <3>1. Start(r, "depart", "checked", a, a, Nil) \/ Start(r, "depart", "scrub", a, a, Nil)
      BY <2>7 DEF StartDeparture
    <3> QED BY <1>3, <3>1
  <2>8. CASE StartDrop(r, a, c)
    BY <1>3, <2>8 DEF StartDrop
  <2> QED BY <1>4, <2>1, <2>2, <2>3, <2>4, <2>5, <2>6, <2>7, <2>8
<1>5. ASSUME NEW r \in Requests,
             \/ ReadOwner(r) \/ ReadTarget(r) \/ PickHeir(r) \/ Remove(r) \/ PassOn(r) \/ Archive(r)
             \/ \E c \in Channels : OpenChannel(r, c)
      PROVE  DropsKnown'
  <2>1. /\ req[r] \in RequestRecords /\ req[r].op # "drop"
        /\ life' = life /\ dropsMet' = dropsMet /\ channels' = channels
    BY <1>5 DEF ReadOwner, ReadTarget, PickHeir, Remove, PassOn, Archive, OpenChannel, At, row, history, TypeOK
  <2>2. PICK x : req' = [req EXCEPT ![r] = x] /\ x.op = req[r].op
    <3>1. CASE ReadOwner(r) \/ ReadTarget(r)
      <4> DEFINE y == [req[r] EXCEPT !.at = "read"]
      <4>1. y.op = req[r].op
        BY <2>1 DEF RequestRecords
      <4> QED BY <3>1, <4>1 DEF ReadOwner, ReadTarget, Goto
    <3>2. CASE PassOn(r) \/ Archive(r)
      <4> DEFINE y == [req[r] EXCEPT !.at = "scrub"]
      <4>1. y.op = req[r].op
        BY <2>1 DEF RequestRecords
      <4> QED BY <3>2, <4>1 DEF PassOn, Archive, Goto
    <3>3. CASE PickHeir(r)
      <4>1. PICK h : req' = [req EXCEPT ![r].at = "read", ![r].to = h]
        BY <3>3 DEF PickHeir
      <4> DEFINE y == [req[r] EXCEPT !.at = "read", !.to = h]
      <4>2. y.op = req[r].op /\ req' = [req EXCEPT ![r] = y]
        BY <2>1, <4>1 DEF RequestRecords
      <4> QED BY <4>2
    <3>4. CASE Remove(r)
      <4> DEFINE y == [req[r] EXCEPT !.at = "writing", !.convs = Open]
      <4>1. y.op = req[r].op /\ req' = [req EXCEPT ![r] = y]
        BY <2>1, <3>4 DEF RequestRecords, Remove
      <4> QED BY <4>1
    <3>5. ASSUME NEW c \in Channels, OpenChannel(r, c) PROVE \E x : req' = [req EXCEPT ![r] = x] /\ x.op = req[r].op
      <4> DEFINE y == [req[r] EXCEPT !.at = "writing", !.ch = c, !.users = Members]
      <4>1. y.op = req[r].op /\ req' = [req EXCEPT ![r] = y]
        BY <2>1, <3>5 DEF RequestRecords, OpenChannel
      <4> QED BY <4>1
    <3> QED BY <1>5, <3>1, <3>2, <3>3, <3>4, <3>5
  <2>3. x.op # "drop"
    BY <2>1, <2>2
  <2> QED BY <2>1, <2>2, <2>3, DropsOther, DropsQuiet
<1>6. ASSUME NEW r \in Requests,
             \/ CommitRemoval(r) \/ SetRole(r) \/ WriteTransfer(r) \/ CommitChannel(r) \/ Scrub(r) \/ Abort(r)
      PROVE  DropsKnown'
  <2>1. req' = [req EXCEPT ![r] = Nil] /\ life' = life /\ dropsMet' = dropsMet /\ channels \subseteq channels'
    BY <1>6 DEF CommitRemoval, SetRole, WriteTransfer, CommitChannel, Scrub, Abort, Finish, row, history
  <2> QED BY <2>1, DropsOther, DropsQuiet
<1>7. ASSUME NEW r \in Requests, WriteDelete(r) PROVE DropsKnown'
  BY <1>7 DEF WriteDelete, DropsKnown
<1>8. ASSUME NEW r \in Requests, CountChannels(r) PROVE DropsKnown'
  <2> DEFINE x == [req[r] EXCEPT !.at = "read"]
  <2>1. /\ req[r] \in RequestRecords /\ req' = [req EXCEPT ![r] = x] /\ life' = life /\ channels' = channels
        /\ dropsMet' = (dropsMet \/ \E q \in Requests : At(q, "drop", "read"))
    BY <1>8 DEF CountChannels, At, Goto, TypeOK, row
  <2>2. x.ch = req[r].ch
    BY <2>1 DEF RequestRecords
  <2>3. req'[r].ch = req[r].ch /\ \A q \in Requests : q # r => req'[q] = req[q]
    BY <2>1, <2>2, Changed
  <2>4. channels \ {req[r].ch} # {}
    <3>1. Cardinality(channels) > 1
      BY <1>8 DEF CountChannels
    <3>2. Cardinality({}) = 0 /\ Cardinality({req[r].ch}) = 1
      BY FS_EmptySet, FS_Singleton
    <3>3. channels # {} /\ channels # {req[r].ch}
      BY <3>1, <3>2
    <3> QED BY <3>3
  <2> HIDE DEF x
  <2>5. ~dropsMet' => \A q \in Requests : At(q, "drop", "read")' => q = r
    BY <2>1, <2>3 DEF At
  <2> QED BY <2>1, <2>3, <2>4, <2>5 DEF DropsKnown
<1>9. ASSUME NEW r \in Requests, WriteDrop(r) PROVE DropsKnown'
  <2>1. /\ req' = [req EXCEPT ![r] = Nil] /\ life' = life /\ dropsMet' = dropsMet
        /\ channels' = channels \ {req[r].ch} /\ At(r, "drop", "read")
    BY <1>9 DEF WriteDrop, Finish, row, history
  <2>2. life = "live" /\ ~dropsMet => \A q \in Requests : ~At(q, "drop", "read")'
    BY <2>1, Changed DEF DropsKnown, At
  <2> QED BY <2>1, <2>2 DEF DropsKnown
<1>10. CASE UNCHANGED vars
  BY <1>10, DropsQuiet DEF vars, row, history, At
<1> QED
  <2>1. ASSUME NEW r \in Requests, NEW a \in Users, NEW t \in Users,
               StartKick(r, a, t) \/ StartRole(r, a, t) \/ StartTransfer(r, a, t)
        PROVE  DropsKnown'
    BY <1>4, <2>1
  <2>2. ASSUME NEW r \in Requests, NEW a \in Users,
               \/ StartLeave(r, a) \/ StartDelete(r, a) \/ StartChannel(r, a) \/ StartDeparture(r, a)
        PROVE  DropsKnown'
    BY <1>4, <2>2
  <2>3. ASSUME NEW r \in Requests, NEW a \in Users, NEW c \in Channels, StartDrop(r, a, c)
        PROVE  DropsKnown'
    BY <1>4, <2>3
  <2> QED BY <1>1, <1>2, <1>5, <1>6, <1>7, <1>8, <1>9, <1>10, <2>1, <2>2, <2>3 DEF Next

\* A group keeps a channel unless two deletions overlapped.
THEOREM GroupChannelRemains == Spec => []ChannelRemains
<1>1. DropsKnown => ChannelRemains
  BY DEF DropsKnown, ChannelRemains
<1>2. Spec => [](TypeOK /\ Early)
  <2>1. Spec => []OwnerKnown
    BY TablesAlways, OwnerInit, OwnerNext, PTL DEF Spec
  <2>2. Tables /\ OwnerKnown => TypeOK /\ Early
    BY DEF Tables, OwnerKnown
  <2> QED BY <2>1, <2>2, TablesAlways, PTL
<1>3. TypeOK /\ Early /\ DropsKnown /\ [Next]_vars => DropsKnown'
  BY DropsNext
<1> QED BY <1>1, <1>2, <1>3, DropsInit, PTL DEF Spec
=============================================================================
