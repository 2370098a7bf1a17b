---------------------------- MODULE ClientProofs ----------------------------
(* Proofs about the client: its pages and windows, and how it learns the   *)
(* messages of a conversation, for any numbers of users, rooms,            *)
(* conversations, groups, messages and requests.  Each part is about a     *)
(* specification of its own: they share no variable that more than one of  *)
(* them writes.                                                            *)
EXTENDS MessageSync, Friends, LiveRooms, Composer, MessageSearch, Panels,
        FiniteSetTheorems, SequenceTheorems, TLAPS

-----------------------------------------------------------------------------
(* Friendships: the two rows of a pair, and the sidebar.                   *)

FriendsSpec == FriendsInit /\ [][FriendsNext]_friendsVars

(* The two rows of a pair fit, and a request that is being sent is still   *)
(* one that may be sent and meets the other's request as it was, unless    *)
(* something was written beside such a request.                            *)
Fits(a, b) ==
  {a, b} \notin crossed =>
    /\ row[<<a, b>>] = "accepted" => row[<<b, a>>] = "accepted"
    /\ row[<<a, b>>] = "blocked" => row[<<b, a>>] = "none"
    /\ sends[<<a, b>>] # Nobody =>
         CanSend(a, b) /\ (sends[<<a, b>>] = "mutual" <=> row[<<b, a>>] = "pending")
RowsFit == \A p \in Pairs : Fits(p[1], p[2])

(* The rows and the sends without the client.                              *)
Rows == /\ row \in [Pairs -> Relations] /\ sends \in [Pairs -> {Nobody, "plain", "mutual"}]
        /\ crossed \subseteq SUBSET People

LEMMA PairsMade ==
  ASSUME NEW a \in People, NEW b \in People, a # b
  PROVE  /\ <<a, b>> \in Pairs /\ <<b, a>> \in Pairs /\ <<a, b>> # <<b, a>> /\ {b, a} = {a, b}
         /\ \A q \in Pairs : q # <<a, b>> /\ q # <<b, a>> =>
              <<q[2], q[1]>> \in Pairs /\ <<q[2], q[1]>> # <<a, b>> /\ <<q[2], q[1]>> # <<b, a>>
  BY DEF Pairs

LEMMA PairsSplit ==
  ASSUME NEW p \in Pairs
  PROVE  p = <<p[1], p[2]>> /\ p[1] \in People /\ p[2] \in People /\ p[1] # p[2]
  BY DEF Pairs

(* A step writes at most the two rows of a pair.                           *)
RestKept(a, b) == \A q \in Pairs : q # <<a, b>> /\ q # <<b, a>> => row'[q] = row[q] /\ sends'[q] = sends[q]

(* The rows of a and b fit after the step as they did before.              *)
PairKept(a, b) ==
  Rows' /\ RestKept(a, b) /\ crossed \subseteq crossed' /\ Fits(a, b)' /\ Fits(b, a)'

LEMMA Written ==
  ASSUME Rows, NEW a \in People, NEW b \in People, a # b, NEW r \in Relations, NEW s \in Relations, Write(a, b, r, s)
  PROVE  /\ row' \in [Pairs -> Relations] /\ row'[<<a, b>>] = r /\ row'[<<b, a>>] = s
         /\ \A q \in Pairs : q # <<a, b>> /\ q # <<b, a>> => row'[q] = row[q]
  <1>1. <<a, b>> \in Pairs /\ <<b, a>> \in Pairs /\ <<a, b>> # <<b, a>>
    BY PairsMade
  <1> DEFINE p == <<a, b>>
             q == <<b, a>>
  <1> HIDE DEF p, q
  <1>2. p \in Pairs /\ q \in Pairs /\ p # q /\ row' = [row EXCEPT ![p] = r, ![q] = s]
    BY <1>1 DEF p, q, Write
  <1>3. row' \in [Pairs -> Relations] /\ row'[p] = r /\ row'[q] = s /\ \A x \in Pairs : x # p /\ x # q => row'[x] = row[x]
    BY <1>2 DEF Rows
  <1> QED
    BY <1>3 DEF p, q

(* What the server does to the rows of a and b, in one operation or in one  *)
(* half of a request.                                                      *)
PairStep(a, b) ==
  \/ SendReads(a, b) \/ SendWrites(a, b) \/ Accept(a, b) \/ Drop(a, b)
  \/ Block(a, b) \/ Unblock(a, b) \/ Unfriend(a, b) \/ Lapse7(a, b)

(* Rows of a pair that agree.                                              *)
Agree(r, s) ==
  /\ r = "accepted" <=> s = "accepted"
  /\ r = "blocked" => s = "none"
  /\ s = "blocked" => r = "none"

(* Both rows are written at once, and requests that are under way are noted. *)
LEMMA AtOnce ==
  ASSUME Rows, NEW a \in People, NEW b \in People, a # b, Fits(a, b), Fits(b, a), NEW r \in Relations, NEW s \in Relations,
         {a, b} \notin crossed => Agree(r, s),
         WriteAtOnce(a, b, r, s)
  PROVE  PairKept(a, b)
  <1>1. /\ row' \in [Pairs -> Relations] /\ row'[<<a, b>>] = r /\ row'[<<b, a>>] = s
        /\ \A q \in Pairs : q # <<a, b>> /\ q # <<b, a>> => row'[q] = row[q]
    BY Written DEF WriteAtOnce
  <1>2. /\ sends' = sends /\ crossed \subseteq crossed' /\ crossed' \subseteq crossed \union {{a, b}}
        /\ {a, b} \notin crossed' => sends[<<a, b>>] = Nobody /\ sends[<<b, a>>] = Nobody
    BY DEF WriteAtOnce, NoteCrossing
  <1>3. {a, b} = {b, a} /\ {a, b} \in SUBSET People
    OBVIOUS
  <1> QED
    BY <1>1, <1>2, <1>3 DEF Rows, RestKept, Fits, Agree, PairKept

LEMMA ReadsKept ==
  ASSUME Rows, NEW a \in People, NEW b \in People, a # b, Fits(a, b), Fits(b, a), SendReads(a, b)
  PROVE  PairKept(a, b)
  <1>0. <<a, b>> \in Pairs /\ <<b, a>> \in Pairs /\ <<a, b>> # <<b, a>>
    BY PairsMade
  <1>1. PICK m \in {"mutual", "plain"} :
          sends' = [sends EXCEPT ![<<a, b>>] = m] /\ (m = "mutual" <=> row[<<b, a>>] = "pending")
    BY DEF SendReads
  <1>2. sends' \in [Pairs -> {Nobody, "plain", "mutual"}] /\ sends'[<<a, b>>] = m
        /\ \A q \in Pairs : q # <<a, b>> => sends'[q] = sends[q]
    BY <1>0, <1>1 DEF Rows
  <1>3. row' = row /\ crossed' = crossed /\ CanSend(a, b)
    BY DEF SendReads
  <1>4. CanSend(a, b)' /\ (CanSend(b, a) => CanSend(b, a)')
    BY <1>3 DEF CanSend, BlockedEither
  <1> QED
    BY <1>0, <1>1, <1>2, <1>3, <1>4 DEF Rows, RestKept, Fits, PairKept

LEMMA WritesKept ==
  ASSUME Rows, NEW a \in People, NEW b \in People, a # b, Fits(a, b), Fits(b, a), SendWrites(a, b)
  PROVE  PairKept(a, b)
  <1>0. <<a, b>> \in Pairs /\ <<b, a>> \in Pairs /\ <<a, b>> # <<b, a>> /\ {b, a} = {a, b} /\ {a, b} \in SUBSET People
    BY PairsMade
  <1>1. /\ sends' = [sends EXCEPT ![<<a, b>>] = Nobody] /\ sends[<<a, b>>] # Nobody
        /\ crossed' = IF sends[<<b, a>>] # Nobody THEN crossed \union {{a, b}} ELSE crossed
    BY DEF SendWrites
  <1>2. /\ sends' \in [Pairs -> {Nobody, "plain", "mutual"}] /\ sends'[<<a, b>>] = Nobody
        /\ \A q \in Pairs : q # <<a, b>> => sends'[q] = sends[q]
    BY <1>0, <1>1 DEF Rows
  <1>3. /\ crossed \subseteq crossed' /\ crossed' \subseteq SUBSET People
        /\ {a, b} \notin crossed' => {a, b} \notin crossed /\ sends[<<b, a>>] = Nobody
    BY <1>0, <1>1 DEF Rows
  <1> DEFINE mine == row[<<a, b>>]  theirs == row[<<b, a>>]
  <1>4. mine \in Relations /\ theirs \in Relations
    BY <1>0 DEF Rows
  <1>5. PICK r \in Relations, s \in Relations :
          /\ Write(a, b, r, s)
          /\ \/ r = "accepted" /\ sends[<<a, b>>] = "mutual" /\ s = (IF theirs = "none" THEN "none" ELSE "accepted")
             \/ sends[<<a, b>>] # "mutual" /\ r = (IF mine \in {"none", "lapsed"} THEN "pending" ELSE mine) /\ s = theirs
    BY <1>4 DEF SendWrites, Relations
  <1>6. /\ row' \in [Pairs -> Relations] /\ row'[<<a, b>>] = r /\ row'[<<b, a>>] = s
        /\ \A q \in Pairs : q # <<a, b>> /\ q # <<b, a>> => row'[q] = row[q]
    BY <1>5, Written
  <1>7. {a, b} \notin crossed => CanSend(a, b) /\ (sends[<<a, b>>] = "mutual" <=> theirs = "pending")
    BY <1>1 DEF Fits
  <1>8. {a, b} \notin crossed => Agree(r, s)
    BY <1>5, <1>7 DEF CanSend, BlockedEither, Agree
  <1> QED
    BY <1>0, <1>2, <1>3, <1>6, <1>8 DEF Agree, Rows, RestKept, Fits, PairKept

LEMMA StepsKept ==
  ASSUME Rows, NEW a \in People, NEW b \in People, a # b, Fits(a, b), Fits(b, a), PairStep(a, b)
  PROVE  PairKept(a, b)
  <1> DEFINE mine == row[<<a, b>>]
             theirs == row[<<b, a>>]
  <1>0. /\ mine \in Relations /\ theirs \in Relations /\ {b, a} = {a, b}
        /\ "none" \in Relations /\ "accepted" \in Relations /\ "blocked" \in Relations
        /\ "rejected" \in Relations /\ "lapsed" \in Relations
    BY PairsMade DEF Rows, Relations
  <1>1. {a, b} \notin crossed => Agree(mine, theirs)
    BY <1>0 DEF Fits, Agree
  <1> HIDE DEF mine, theirs
  <1>2. ASSUME NEW r \in Relations, NEW s \in Relations, WriteAtOnce(a, b, r, s),
               {a, b} \notin crossed => Agree(r, s)
        PROVE  PairKept(a, b)
    BY <1>2, AtOnce
  <1>3. CASE SendReads(a, b)
    BY <1>3, ReadsKept
  <1>4. CASE SendWrites(a, b)
    BY <1>4, WritesKept
  <1>5. CASE Accept(a, b) \/ Block(a, b) \/ Unfriend(a, b)
    BY <1>0, <1>2, <1>5 DEF Agree, Accept, Block, Unfriend
  <1>6. CASE Drop(a, b) /\ theirs = "pending"
    <2>1. WriteAtOnce(a, b, mine, "rejected")
      BY <1>6 DEF Drop, mine, theirs
    <2> QED
      BY <1>0, <1>1, <1>2, <1>6, <2>1 DEF Agree
  <1>7. CASE Drop(a, b) /\ theirs # "pending"
    <2>1. WriteAtOnce(a, b, "none", theirs) /\ mine = "pending"
      BY <1>7 DEF Drop, CanDrop, mine, theirs
    <2> QED
      BY <1>0, <1>1, <1>2, <1>7, <2>1 DEF Agree
  <1>8. CASE Unblock(a, b)
    <2>1. WriteAtOnce(a, b, "none", theirs) /\ mine = "blocked"
      BY <1>8 DEF Unblock, mine, theirs
    <2> QED
      BY <1>0, <1>1, <1>2, <2>1 DEF Agree
  <1>9. CASE Lapse7(a, b)
    <2>1. WriteAtOnce(a, b, "lapsed", theirs) /\ mine = "rejected"
      BY <1>9 DEF Lapse7, mine, theirs
    <2> QED
      BY <1>0, <1>1, <1>2, <2>1 DEF Agree
  <1> QED
    BY <1>3, <1>4, <1>5, <1>6, <1>7, <1>8, <1>9 DEF PairStep

LEMMA PairsKept ==
  ASSUME Rows, RowsFit, NEW a \in People, NEW b \in People, a # b, PairStep(a, b)
  PROVE  Rows' /\ RowsFit'
  <1>0. <<a, b>> \in Pairs /\ <<b, a>> \in Pairs
    BY PairsMade
  <1>1. Fits(a, b) /\ Fits(b, a)
    BY <1>0 DEF RowsFit
  <1>2. Rows' /\ RestKept(a, b) /\ crossed \subseteq crossed' /\ Fits(a, b)' /\ Fits(b, a)'
    BY <1>1, StepsKept DEF PairKept
  <1>3. ASSUME NEW p \in Pairs PROVE Fits(p[1], p[2])'
    <2>1. CASE p = <<a, b>> \/ p = <<b, a>>
      BY <1>2, <2>1
    <2>2. CASE p # <<a, b>> /\ p # <<b, a>>
      <3> DEFINE c == p[1]  d == p[2]
      <3>1. p = <<c, d>> /\ <<d, c>> \in Pairs /\ <<d, c>> # <<a, b>> /\ <<d, c>> # <<b, a>>
        BY <2>2, PairsMade, PairsSplit
      <3>2. Fits(c, d)
        BY DEF RowsFit
      <3> HIDE DEF c, d
      <3>3. /\ row'[<<c, d>>] = row[<<c, d>>] /\ row'[<<d, c>>] = row[<<d, c>>]
            /\ sends'[<<c, d>>] = sends[<<c, d>>]
        BY <1>2, <2>2, <3>1 DEF RestKept
      <3>4. CanSend(c, d)' <=> CanSend(c, d)
        BY <3>3 DEF CanSend, BlockedEither
      <3>5. Fits(c, d)'
        BY <1>2, <3>2, <3>3, <3>4 DEF Fits
      <3> QED
        BY <3>5 DEF c, d
    <2> QED
      BY <2>1, <2>2
  <1> QED
    BY <1>2, <1>3 DEF RowsFit

(* Every call but a read is to somebody else.                              *)
Addressed == \A k \in asked : k.op # "poll" => k.with # Me

LEMMA FriendsStep ==
  ASSUME FriendsNext, asked \subseteq Asked, Addressed
  PROVE  \/ UNCHANGED <<row, sends, crossed>>
         \/ \E a \in People, b \in People : a # b /\ PairStep(a, b)
  <1>1. CASE Elsewhere
    <2>1. PICK p \in Pairs :
            \/ p[1] # Me /\ (SendReads(p[1], p[2]) \/ SendWrites(p[1], p[2]) \/ Accept(p[1], p[2])
                             \/ Drop(p[1], p[2]) \/ Block(p[1], p[2]))
            \/ Unblock(p[1], p[2]) \/ Unfriend(p[1], p[2]) \/ Lapse7(p[1], p[2])
      BY <1>1 DEF Elsewhere
    <2>2. PairStep(p[1], p[2])
      BY <2>1 DEF PairStep
    <2> QED
      BY <2>2, PairsSplit
  <1>2. ASSUME NEW k \in asked, Served1(k)
        PROVE  \/ UNCHANGED <<row, sends, crossed>>
               \/ \E a \in People, b \in People : a # b /\ PairStep(a, b)
    <2>1. k.with \in People /\ Me \in People /\ (k.op # "poll" => k.with # Me)
      BY DEF Asked, People, Addressed
    <2>2. NoWrite \/ (k.op # "poll" /\ PairStep(Me, k.with))
      BY <1>2 DEF Served1, PairStep
    <2>3. CASE NoWrite
      BY <2>3 DEF NoWrite
    <2>4. CASE k.op # "poll" /\ PairStep(Me, k.with)
      BY <2>1, <2>4
    <2> QED
      BY <2>2, <2>3, <2>4
  <1>3. Elsewhere \/ (\E k \in asked : Served1(k)) \/ NoWrite
    BY DEF FriendsNext, Sidebar, AddFriend, PressEntry, BlockFriend, PollCount, PollFriends, OpenWindow,
           CloseWindow, Quiet, Goes1, Answered1, CountCame, FriendsCame, NoAnswer, EndOf
  <1> QED
    BY <1>1, <1>2, <1>3 DEF NoWrite

(* The sidebar is changed field by field.                                  *)
LEMMA SideFields ==
  ASSUME NEW s \in Sides
  PROVE  /\ ListsLoaded(s) \in Sides
         /\ \A v \in SUBSET Others : [s EXCEPT !.friends = v] \in Sides
         /\ \A v \in 0..Cardinality(Others) : [s EXCEPT !.badge = v] \in Sides
         /\ \A v \in BOOLEAN : [s EXCEPT !.open = v] \in Sides
         /\ \A v \in Others \union {Nobody} : [s EXCEPT !.busy = v] \in Sides
  BY DEF Sides, ListsLoaded, Incoming, Outgoing

LEMMA AskedFields ==
  /\ \A k \in Asked : k.read \in SUBSET Others
  /\ \A o \in Others, op \in {"add", "accept", "drop", "block"} : Call0(op, o) \in Asked /\ Call0(op, o).with = o
  /\ \A t \in {"count", "friends"}, v \in SUBSET Others : [op |-> "poll", with |-> Me, at |-> t, read |-> v] \in Asked
  BY DEF Asked, Call0, People

LEMMA AskedBecomes ==
  ASSUME NEW k \in Asked, NEW v \in SUBSET Others, NEW t \in {"ok", "failed", "friends"}
  PROVE  LET j == [k EXCEPT !.at = t, !.read = v] IN j \in Asked /\ j.op = k.op /\ j.with = k.with
  BY DEF Asked

LEMMA BadgeFits == \A v \in SUBSET Others : Cardinality(v) \in 0..Cardinality(Others)
  BY FriendsAssumption, FS_Subset, FS_CardinalityType

(* A call that moves on stays addressed.                                   *)
LEMMA Becoming ==
  ASSUME asked \subseteq Asked, Addressed, NEW k \in asked, NEW v \in SUBSET Others, NEW t \in {"ok", "failed", "friends"},
         Becomes(k, t, v)
  PROVE  asked' \subseteq Asked /\ Addressed'
  <1> DEFINE j == [k EXCEPT !.at = t, !.read = v]
  <1>1. j \in Asked /\ j.op = k.op /\ j.with = k.with
    BY AskedBecomes
  <1>2. asked' = (asked \ {k}) \union {j}
    BY DEF Becomes
  <1> HIDE DEF j
  <1> QED
    BY <1>1, <1>2 DEF Addressed

LEMMA Asking ==
  ASSUME asked \subseteq Asked, Addressed, NEW k \in Asked, k.op # "poll" => k.with # Me, AskFor(k)
  PROVE  asked' \subseteq Asked /\ Addressed'
  BY DEF AskFor, Addressed

LEMMA ClientTyped ==
  ASSUME FriendsTypeOK, Addressed, FriendsNext
  PROVE  side' \in Sides /\ asked' \subseteq Asked /\ Addressed'
  <1> USE DEF FriendsTypeOK
  <1>1. Incoming \in SUBSET Others /\ FriendsOf \in SUBSET Others /\ Me \notin Others
    BY FriendsAssumption DEF Incoming, FriendsOf
  <1>2. ASSUME UNCHANGED <<side, asked>> PROVE side' \in Sides /\ asked' \subseteq Asked /\ Addressed'
    BY <1>2 DEF Addressed
  <1>3. ASSUME NEW o \in Others, NEW op \in {"accept", "drop"},
               AddFriend(o) \/ PressEntry(op, o) \/ BlockFriend(o)
        PROVE  side' \in Sides /\ asked' \subseteq Asked /\ Addressed'
    <2>1. PICK act \in {"add", "accept", "drop", "block"} : AskFor(Call0(act, o))
      BY <1>3 DEF AddFriend, PressEntry, BlockFriend
    <2> DEFINE k == Call0(act, o)
    <2>2. k \in Asked /\ k.with # Me
      BY <1>1, AskedFields
    <2> HIDE DEF k
    <2>3. asked' \subseteq Asked /\ Addressed'
      BY <2>1, <2>2, Asking DEF k
    <2>4. side' = side \/ side' = [side EXCEPT !.busy = o]
      BY <1>3 DEF AddFriend, PressEntry, BlockFriend
    <2> QED
      BY <2>3, <2>4, SideFields
  <1>4. ASSUME PollCount \/ PollFriends \/ CloseWindow
        PROVE  side' \in Sides /\ asked' \subseteq Asked /\ Addressed'
    <2>1. PICK t \in {"count", "friends"}, v \in SUBSET Others : Poll(t, v)
      BY <1>1, <1>4 DEF PollCount, PollFriends, CloseWindow
    <2> DEFINE k == [op |-> "poll", with |-> Me, at |-> t, read |-> v]
    <2>2. k \in Asked /\ k.op = "poll" /\ AskFor(k)
      BY <2>1, AskedFields DEF Poll
    <2> HIDE DEF k
    <2>3. asked' \subseteq Asked /\ Addressed'
      BY <2>2, Asking
    <2>4. side' = side \/ side' = ListsLoaded([side EXCEPT !.open = FALSE])
      BY <1>4 DEF PollCount, PollFriends, CloseWindow
    <2> QED
      BY <2>3, <2>4, SideFields
  <1>5. CASE OpenWindow
    BY <1>5, SideFields DEF OpenWindow, Quiet, Addressed
  <1>6. ASSUME NEW k \in asked, Served1(k) \/ Goes1(k) \/ Answered1(k)
        PROVE  side' \in Sides /\ asked' \subseteq Asked /\ Addressed'
    <2>1. k.read \in SUBSET Others /\ Freed(k) \in Sides
      BY AskedFields, SideFields DEF Freed
    <2>2. \/ UNCHANGED asked \/ asked' = asked \ {k}
          \/ \E t \in {"ok", "failed", "friends"}, v \in SUBSET Others : Becomes(k, t, v)
      BY <1>1, <1>6 DEF Served1, Goes1, Answered1, CountCame, FriendsCame, NoAnswer, EndOf
    <2>3. asked' \subseteq Asked /\ Addressed'
      <3>1. CASE UNCHANGED asked \/ asked' = asked \ {k}
        BY <3>1 DEF Addressed
      <3> QED
        BY <2>2, <3>1, Becoming
    <2>4. \/ side' \in {side, Freed(k), ListsLoaded(Freed(k)), [side EXCEPT !.badge = Cardinality(k.read)]}
          \/ side' \in {[Freed(k) EXCEPT !.friends = k.read], ListsLoaded([Freed(k) EXCEPT !.friends = k.read])}
      BY <1>6 DEF Served1, Goes1, Answered1, CountCame, FriendsCame, NoAnswer
    <2> QED
      BY <2>1, <2>3, <2>4, SideFields, BadgeFits
  <1>7. Elsewhere => UNCHANGED <<side, asked>>
    BY DEF Elsewhere
  <1> QED
    BY <1>2, <1>3, <1>4, <1>5, <1>6, <1>7 DEF FriendsNext, Sidebar

(* What is invariant of the friendships.                                   *)
FriendsInv == FriendsTypeOK /\ Addressed /\ RowsFit

LEMMA FriendsInductive == FriendsSpec => []FriendsInv
  <1>1. FriendsInit => FriendsInv
    <2> SUFFICES ASSUME FriendsInit PROVE FriendsInv
      OBVIOUS
    <2>1. row \in [Pairs -> Relations] /\ sends \in [Pairs -> {Nobody, "plain", "mutual"}] /\ crossed = {} /\ asked = {}
      BY DEF FriendsInit, Relations
    <2>2. side \in Sides
      BY FriendsAssumption, FS_CardinalityType DEF FriendsInit, Sides
    <2>3. RowsFit
      BY PairsSplit DEF FriendsInit, RowsFit, Fits
    <2> QED
      BY <2>1, <2>2, <2>3 DEF FriendsInv, FriendsTypeOK, Addressed
  <1>2. FriendsInv /\ [FriendsNext]_friendsVars => FriendsInv'
    <2> SUFFICES ASSUME FriendsInv, [FriendsNext]_friendsVars PROVE FriendsInv'
      OBVIOUS
    <2>1. CASE UNCHANGED friendsVars
      BY <2>1 DEF friendsVars, FriendsInv, FriendsTypeOK, Addressed, RowsFit, Fits, CanSend, BlockedEither
    <2>2. CASE FriendsNext
      <3>1. side' \in Sides /\ asked' \subseteq Asked /\ Addressed'
        BY <2>2, ClientTyped DEF FriendsInv
      <3>2. Rows' /\ RowsFit'
        <4>1. Rows /\ RowsFit
          BY DEF FriendsInv, FriendsTypeOK, Rows
        <4>2. CASE UNCHANGED <<row, sends, crossed>>
          BY <4>1, <4>2 DEF Rows, RowsFit, Fits, CanSend, BlockedEither
        <4> QED
          BY <2>2, <4>1, <4>2, FriendsStep, PairsKept DEF FriendsInv, FriendsTypeOK
      <3> QED
        BY <3>1, <3>2 DEF FriendsInv, FriendsTypeOK, Rows
    <2> QED
      BY <2>1, <2>2
  <1> QED
    BY <1>1, <1>2, PTL DEF FriendsSpec

\* The rows of the friendships, the sidebar and its calls stay what they are
\* declared to be.
THEOREM FriendsTypes == FriendsSpec => []FriendsTypeOK
  <1>1. FriendsInv => FriendsTypeOK
    BY DEF FriendsInv
  <1> QED
    BY <1>1, FriendsInductive, PTL

\* However requests, acceptances, blocks and removals between two users are
\* ordered, friends are friends both ways and nothing of a user stands at one
\* who has blocked him, unless something was written while a request between
\* the two was being sent.
THEOREM RelationsAlwaysAgree == FriendsSpec => []RelationsAgree
  <1>1. FriendsInv => RelationsAgree
    <2> SUFFICES ASSUME FriendsInv, NEW p \in Pairs PROVE
          /\ row[p] = "accepted" /\ {p[1], p[2]} \notin crossed => row[<<p[2], p[1]>>] = "accepted"
          /\ row[p] = "blocked" /\ {p[1], p[2]} \notin crossed => row[<<p[2], p[1]>>] = "none"
      BY DEF RelationsAgree, FriendsBothWays, BlockSilences
    <2> QED
      BY PairsSplit DEF FriendsInv, RowsFit, Fits
  <1> QED
    BY <1>1, FriendsInductive, PTL

-----------------------------------------------------------------------------
(* Live rooms: the list and the follow button.                             *)

RoomsSpec == RoomsInit /\ [][RoomsNext]_roomsVars

(* The list: what is asked for is what its filter says, and so, as long as *)
(* no request was under way when the filter changed, is what is read again *)
(* and what it shows once the first answer is in.                          *)
ListTold(d) ==
  /\ d.asked \in {Nil, d.filter}
  /\ ~d.slow => /\ d.refresh \subseteq {d.filter}
                /\ d.first => d.filter = AnyFilter
                /\ ~d.first /\ d.asked = Nil /\ ~d.failed => d.shows = d.filter

(* The button, pressed beside no other request: while the status is asked  *)
(* for there is no press, and one press says the opposite of what the      *)
(* button shows, until it is served.                                       *)
HeartTold ==
  active # Nil /\ ~raced =>
    /\ heart.status # "none" => presses = {}
    /\ heart.status = "yes" => active \in follows
    /\ heart.status = "no" => active \notin follows
    /\ \A p, q \in presses : p = q
    /\ \A p \in presses :
         /\ p.mine /\ p.room = active
         /\ p.done => (p.op = "follow" <=> active \in follows)
         /\ ~p.done => ((p.op = "follow" <=> ~heart.shows) /\ (heart.shows <=> active \in follows))
    /\ heart.status = "none" /\ presses = {} => (heart.shows <=> active \in follows)

RoomsInv == RoomsTypeOK /\ (active = Nil => ListTold(disc)) /\ HeartTold

LEMMA ListStarts == Opened \in Lists /\ ListTold(Opened) /\ AnyFilter \in Filters
  <1>1. AnyFilter \in Filters
    BY RoomsAssumption DEF AnyFilter
  <1> QED
    BY <1>1 DEF Opened, Lists, ListTold

LEMMA ListFields ==
  ASSUME NEW d \in Lists
  PROVE  /\ d.filter \in Filters /\ d.asked \in Filters \union {Nil} /\ d.refresh \in SUBSET Filters
         /\ d.shows \in Filters \union {Nil} /\ d.first \in BOOLEAN /\ d.failed \in BOOLEAN /\ d.slow \in BOOLEAN
  BY DEF Lists

LEMMA ListChanges ==
  ASSUME NEW d \in Lists, NEW e, ListTold(d),
         \/ \E f \in Filters : f # d.filter /\ e = [d EXCEPT !.filter = f, !.asked = f,
                                                     !.slow = @ \/ d.first \/ d.refresh # {}]
         \/ d.first /\ e = [d EXCEPT !.first = FALSE, !.shows = AnyFilter]
         \/ d.first /\ e = [d EXCEPT !.first = FALSE, !.failed = TRUE]
         \/ e = [d EXCEPT !.refresh = @ \union {d.filter}]
         \/ d.asked # Nil /\ e = [d EXCEPT !.shows = d.asked, !.asked = Nil]
         \/ d.asked # Nil /\ e = [d EXCEPT !.asked = Nil, !.failed = TRUE]
         \/ \E f \in d.refresh : e = [d EXCEPT !.shows = f, !.refresh = @ \ {f}]
         \/ \E f \in d.refresh : e = [d EXCEPT !.refresh = @ \ {f}]
  PROVE  e \in Lists /\ ListTold(e)
  <1>0. AnyFilter \in Filters /\ Nil \notin Filters
    BY ListStarts, RoomsAssumption
  <1>1. CASE \E f \in Filters : f # d.filter /\ e = [d EXCEPT !.filter = f, !.asked = f,
                                                     !.slow = @ \/ d.first \/ d.refresh # {}]
    <2>1. PICK f \in Filters : e = [d EXCEPT !.filter = f, !.asked = f, !.slow = @ \/ d.first \/ d.refresh # {}]
      BY <1>1
    <2>2. /\ e.filter = f /\ e.asked = f /\ e.refresh = d.refresh /\ e.first = d.first
          /\ e.shows = d.shows /\ e.failed = d.failed /\ e.slow = (d.slow \/ d.first \/ d.refresh # {})
      BY <2>1 DEF Lists
    <2>3. e \in Lists
      BY <2>1, ListFields DEF Lists
    <2> QED
      BY <1>0, <2>2, <2>3, ListFields DEF ListTold
  <1>2. CASE d.first /\ e = [d EXCEPT !.first = FALSE, !.shows = AnyFilter]
    BY <1>0, <1>2 DEF ListTold, Lists
  <1>3. CASE d.first /\ e = [d EXCEPT !.first = FALSE, !.failed = TRUE]
    BY <1>0, <1>3 DEF ListTold, Lists
  <1>4. CASE e = [d EXCEPT !.refresh = @ \union {d.filter}]
    BY <1>0, <1>4 DEF ListTold, Lists
  <1>5. CASE d.asked # Nil /\ e = [d EXCEPT !.shows = d.asked, !.asked = Nil]
    BY <1>0, <1>5 DEF ListTold, Lists
  <1>6. CASE d.asked # Nil /\ e = [d EXCEPT !.asked = Nil, !.failed = TRUE]
    BY <1>0, <1>6 DEF ListTold, Lists
  <1>7. CASE \E f \in d.refresh : e = [d EXCEPT !.shows = f, !.refresh = @ \ {f}]
    BY <1>0, <1>7 DEF ListTold, Lists
  <1>8. CASE \E f \in d.refresh : e = [d EXCEPT !.refresh = @ \ {f}]
    BY <1>0, <1>8 DEF ListTold, Lists
  <1> QED
    BY <1>1, <1>2, <1>3, <1>4, <1>5, <1>6, <1>7, <1>8

LEMMA ListKept ==
  ASSUME RoomsInv, List
  PROVE  RoomsInv'
  <1>1. active = Nil /\ active' = Nil /\ disc \in Lists /\ ListTold(disc)
    BY DEF List, Reopen, FirstCame, RefreshList, FilterAnswered, ChangeFilter, RefreshAnswered, InList,
           RoomsInv, RoomsTypeOK, Usable
  <1>2. disc' \in Lists /\ ListTold(disc')
    <2>1. CASE disc' = Opened
      BY <2>1, ListStarts
    <2> DEFINE d == disc
               e == disc'
    <2>2. \/ e = Opened
          \/ \E f \in Filters : f # d.filter /\ e = [d EXCEPT !.filter = f, !.asked = f,
                                                     !.slow = @ \/ d.first \/ d.refresh # {}]
          \/ d.first /\ e = [d EXCEPT !.first = FALSE, !.shows = AnyFilter]
          \/ d.first /\ e = [d EXCEPT !.first = FALSE, !.failed = TRUE]
          \/ e = [d EXCEPT !.refresh = @ \union {d.filter}]
          \/ d.asked # Nil /\ e = [d EXCEPT !.shows = d.asked, !.asked = Nil]
          \/ d.asked # Nil /\ e = [d EXCEPT !.asked = Nil, !.failed = TRUE]
          \/ \E f \in d.refresh : e = [d EXCEPT !.shows = f, !.refresh = @ \ {f}]
          \/ \E f \in d.refresh : e = [d EXCEPT !.refresh = @ \ {f}]
      BY DEF List, Reopen, FirstCame, RefreshList, FilterAnswered, ChangeFilter, RefreshAnswered, InList
    <2>3. d \in Lists /\ ListTold(d)
      BY <1>1
    <2> HIDE DEF d, e
    <2>4. e = Opened \/ (e \in Lists /\ ListTold(e))
      BY <2>2, <2>3, ListChanges
    <2> QED
      BY <2>1, <2>4 DEF e
  <1>3. UNCHANGED <<active, follows, heart, presses, raced>>
    BY DEF List, Reopen, FirstCame, RefreshList, FilterAnswered, ChangeFilter, RefreshAnswered, InList
  <1> QED
    BY <1>1, <1>2, <1>3 DEF RoomsInv, RoomsTypeOK, HeartTold, ListTold

LEMMA PressFields ==
  /\ \A p \in Presses : p.room \in Rooms /\ p.done \in BOOLEAN /\ p.mine \in BOOLEAN
  /\ \A r \in Rooms, o \in {"follow", "unfollow"} : [op |-> o, room |-> r, done |-> FALSE, mine |-> TRUE] \in Presses
  BY DEF Presses

LEMMA PressDone ==
  ASSUME NEW p \in Presses
  PROVE  LET q == [p EXCEPT !.done = TRUE] IN q \in Presses /\ q.op = p.op /\ q.room = p.room /\ q.done /\ q.mine = p.mine
  BY DEF Presses

LEMMA HeartFields ==
  /\ \A h \in Hearts, s \in {"none", "asked", "yes", "no"} :
       [h EXCEPT !.status = s] \in Hearts /\ [h EXCEPT !.status = s].status = s /\ [h EXCEPT !.status = s].shows = h.shows
  /\ \A h \in Hearts, b \in BOOLEAN :
       [h EXCEPT !.shows = b] \in Hearts /\ [h EXCEPT !.shows = b].status = h.status /\ [h EXCEPT !.shows = b].shows = b
  /\ \A b \in BOOLEAN : [shows |-> b, status |-> "none"] \in Hearts
  BY DEF Hearts

LEMMA OpenKept ==
  ASSUME RoomsInv, NEW r \in Rooms, Open(r)
  PROVE  RoomsInv'
  <1>1. heart' \in Hearts /\ heart'.status = "asked"
    BY HeartFields DEF Open, RoomsInv, RoomsTypeOK
  <1>2. active' = r /\ disc' = Nil /\ raced' = (presses # {}) /\ UNCHANGED <<follows, presses>> /\ r # Nil
    BY RoomsAssumption DEF Open
  <1> QED
    BY <1>1, <1>2 DEF RoomsInv, RoomsTypeOK, HeartTold

LEMMA LeaveKept ==
  ASSUME RoomsInv, Leave
  PROVE  RoomsInv'
  <1>1. presses' \subseteq Presses
    BY DEF Leave, RoomsInv, RoomsTypeOK, Presses
  <1> QED
    BY <1>1, ListStarts, HeartFields DEF Leave, RoomsInv, RoomsTypeOK, HeartTold

LEMMA FollowKept ==
  ASSUME RoomsInv, Follow
  PROVE  RoomsInv'
  <1>0. UNCHANGED <<active, disc>> /\ active \in Rooms \union {Nil} /\ Nil \notin Rooms
    BY RoomsAssumption DEF Follow, StatusRead, StatusShown, Press, PressServed, PressFails, PressShown, Follows,
                           RoomsInv, RoomsTypeOK
  <1>1. CASE StatusRead
    <2>1. PICK s \in {"yes", "no"} : heart' = [heart EXCEPT !.status = s] /\ (s = "yes" <=> active \in follows)
      BY <1>1 DEF StatusRead, Follows
    <2>2. heart' \in Hearts /\ heart'.status = s /\ heart'.shows = heart.shows
      BY <2>1 DEF RoomsInv, RoomsTypeOK, Hearts
    <2>3. heart.status = "asked" /\ UNCHANGED <<follows, presses>> /\ raced' = raced
      BY <1>1 DEF StatusRead, Follows, RoomsInv, RoomsTypeOK
    <2> QED
      BY <1>0, <2>1, <2>2, <2>3 DEF RoomsInv, RoomsTypeOK, HeartTold, ListTold
  <1>2. CASE StatusShown
    <2>1. heart' = [shows |-> heart.status = "yes", status |-> "none"] /\ heart.status \in {"yes", "no"}
      BY <1>2 DEF StatusShown, Follows
    <2>2. heart' \in Hearts /\ heart'.status = "none" /\ heart'.shows = (heart.status = "yes")
      BY <2>1, HeartFields
    <2>3. raced' = (raced \/ presses # {}) /\ UNCHANGED <<follows, presses>>
      BY <1>2 DEF StatusShown, Follows
    <2> QED
      BY <1>0, <2>1, <2>2, <2>3 DEF RoomsInv, RoomsTypeOK, HeartTold, ListTold
  <1>3. CASE Press
    <2>1. active \in Rooms /\ heart.shows \in BOOLEAN
      BY <1>0, <1>3 DEF Press, RoomsInv, RoomsTypeOK, Hearts
    <2>2. PICK o \in {"follow", "unfollow"} :
            /\ o = "follow" <=> ~heart.shows
            /\ presses' = presses \union {[op |-> o, room |-> active, done |-> FALSE, mine |-> TRUE]}
      BY <1>3, <2>1 DEF Press, Follows
    <2> DEFINE p == [op |-> o, room |-> active, done |-> FALSE, mine |-> TRUE]
    <2>3. p \in Presses /\ p.op = o /\ p.room = active /\ ~p.done /\ p.mine /\ presses' = presses \union {p}
      BY <2>1, <2>2, PressFields
    <2> HIDE DEF p
    <2>4. raced' = (raced \/ heart.status # "none" \/ presses # {}) /\ UNCHANGED <<follows, heart>>
      BY <1>3 DEF Press, Follows
    <2> QED
      BY <1>0, <2>1, <2>2, <2>3, <2>4 DEF RoomsInv, RoomsTypeOK, HeartTold, ListTold
  <1>4. ASSUME NEW p \in presses, PressServed(p) PROVE RoomsInv'
    <2> DEFINE q == [p EXCEPT !.done = TRUE]
    <2>1. q \in Presses /\ q.op = p.op /\ q.room = p.room /\ q.done /\ q.mine = p.mine /\ p \in Presses
      BY PressDone DEF RoomsInv, RoomsTypeOK
    <2>2. presses' = (presses \ {p}) \union (IF p.mine THEN {q} ELSE {})
      BY <1>4 DEF PressServed, Follows
    <2> HIDE DEF q
    <2>3. /\ ~p.done /\ heart' = heart /\ raced' = raced
          /\ follows' = IF p.op = "follow" THEN follows \union {p.room} ELSE follows \ {p.room}
      BY <1>4 DEF PressServed, Follows, RoomsInv, RoomsTypeOK
    <2>4. follows' \subseteq Rooms /\ presses' \subseteq Presses
      BY <2>1, <2>2, <2>3, PressFields DEF RoomsInv, RoomsTypeOK
    <2>5. HeartTold'
      BY <1>0, <2>1, <2>2, <2>3 DEF RoomsInv, HeartTold
    <2> QED
      BY <1>0, <2>3, <2>4, <2>5 DEF RoomsInv, RoomsTypeOK, ListTold
  <1>5. ASSUME NEW p \in presses, PressFails(p) PROVE RoomsInv'
    <2>1. presses' = presses \ {p} /\ raced' = raced /\ UNCHANGED <<follows, heart>> /\ ~p.done
      BY <1>5 DEF PressFails, Follows, RoomsInv, RoomsTypeOK
    <2> QED
      BY <1>0, <2>1 DEF RoomsInv, RoomsTypeOK, HeartTold, ListTold
  <1>6. ASSUME NEW p \in presses, PressShown(p) PROVE RoomsInv'
    <2>1. presses' = presses \ {p} /\ raced' = raced /\ UNCHANGED follows /\ p.done
          /\ heart' = [heart EXCEPT !.shows = (p.op = "follow")]
      BY <1>6 DEF PressShown, Follows, RoomsInv, RoomsTypeOK
    <2>2. heart' \in Hearts /\ heart'.status = heart.status /\ heart'.shows = (p.op = "follow")
      BY <2>1 DEF RoomsInv, RoomsTypeOK, Hearts
    <2> QED
      BY <1>0, <2>1, <2>2 DEF RoomsInv, RoomsTypeOK, HeartTold, ListTold
  <1> QED
    BY <1>1, <1>2, <1>3, <1>4, <1>5, <1>6 DEF Follow

LEMMA RoomsInductive == RoomsSpec => []RoomsInv
  <1>1. RoomsInit => RoomsInv
    <2>1. RoomsInit => heart \in Hearts
      BY DEF RoomsInit, Hearts
    <2> QED
      BY <2>1, ListStarts DEF RoomsInit, RoomsInv, RoomsTypeOK, HeartTold
  <1>2. RoomsInv /\ [RoomsNext]_roomsVars => RoomsInv'
    <2>1. CASE UNCHANGED roomsVars
      BY <2>1 DEF roomsVars, RoomsInv, RoomsTypeOK, HeartTold, ListTold
    <2>2. CASE RoomsNext
      BY <2>2, OpenKept, LeaveKept, ListKept, FollowKept DEF RoomsNext
    <2> QED
      BY <2>1, <2>2
  <1> QED
    BY <1>1, <1>2, PTL DEF RoomsSpec

\* The list, the follow button and the follows stay what they are declared
\* to be.
THEOREM RoomsTypes == RoomsSpec => []RoomsTypeOK
  <1>1. RoomsInv => RoomsTypeOK
    BY DEF RoomsInv
  <1> QED
    BY <1>1, RoomsInductive, PTL

\* Whatever is filtered, refreshed, opened and pressed in whatever order, the
\* list at rest shows what its filter asks for and the follow button what the
\* server keeps, unless a request was under way at the change or the press.
THEOREM RoomsAlwaysAgree == RoomsSpec => []RoomsAgree
  <1>1. RoomsInv => RoomsAgree
    BY DEF RoomsInv, RoomsAgree, FollowShown, ListFitsFilter, HeartTold, ListTold, RoomsTypeOK, Lists
  <1> QED
    BY <1>1, RoomsInductive, PTL

-----------------------------------------------------------------------------
(* The box and the editor of a conversation.                               *)

ComposerSpec == ComposerInit /\ [][ComposerNext]_composerVars

(* Nothing is quoted or edited here that is of another conversation.       *)
OfThisConv ==
  /\ Here => view.reply \in {view.at, NoConv}
  /\ view.edit = view.draft

(* A text that nothing befell is in the box until the server has it, and a *)
(* message under way is of the text in the box, or the box is empty or     *)
(* will be cleared.                                                        *)
NotLost ==
  /\ \A t \in 1..typed : t \in gone \/ view.box = t \/ copies[t] > 0
  /\ \A p \in posts : p.text # 0 => view.box \in {0, p.text} \union gone
  /\ \A p \in posts : p.stored => p.text # 0 /\ copies[p.text] > 0

(* A text that was not sent again is under way once, and not stored before; *)
(* one that is stored and still in the box is about to be answered.         *)
NotTwice ==
  /\ view.box <= typed /\ \A p \in posts : p.text <= typed
  /\ \A t \in Texts : t > typed => copies[t] = 0
  /\ \A t \in Texts : t \notin repeated =>
       /\ copies[t] < 2
       /\ \A p, q \in posts : p.text = t /\ q.text = t => p = q
       /\ \A p \in posts : p.text = t /\ ~p.stored => copies[t] = 0
       /\ view.box = t /\ copies[t] > 0 => \E p \in posts : p.text = t /\ p.stored

ComposerInv == ComposerTypeOK /\ OfThisConv /\ NothingStrays /\ NotLost /\ NotTwice

(* What an action does to the box, the messages and the histories is told  *)
(* apart from what it does to the conversation, the quotation and the editor. *)
LEMMA ViewFields ==
  ASSUME NEW v \in Views
  PROVE  /\ v.at \in MaybeConv /\ v.box \in 0..MaxTexts /\ v.sending \in BOOLEAN
         /\ v.reply \in MaybeConv /\ v.edit \in MaybeConv /\ v.draft \in MaybeConv
  BY DEF Views

LEMMA PostFields ==
  ASSUME NEW p \in Posts
  PROVE  /\ p.text \in 0..MaxTexts /\ p.to \in Convs /\ p.reply \in MaybeConv /\ p.stored \in BOOLEAN
         /\ LET q == [p EXCEPT !.stored = TRUE]
            IN  q \in Posts /\ q.text = p.text /\ q.to = p.to /\ q.reply = p.reply /\ q.stored
  BY DEF Posts

LEMMA PostMade ==
  ASSUME view \in Views, NEW x \in 0..MaxTexts, Here, Post(x)
  PROVE  \E p \in Posts : /\ posts' = posts \union {p} /\ p.text = x /\ p.to = view.at
                          /\ p.reply = view.reply /\ ~p.stored
  <1>1. PICK i \in Slots : posts' = posts \union {[slot |-> i, text |-> x, to |-> view.at, reply |-> view.reply, stored |-> FALSE]}
    BY DEF Post
  <1>2. view.at \in Convs /\ view.reply \in MaybeConv
    BY ViewFields DEF Here, MaybeConv
  <1>3. [slot |-> i, text |-> x, to |-> view.at, reply |-> view.reply, stored |-> FALSE] \in Posts
    BY <1>2 DEF Posts
  <1> QED
    BY <1>1, <1>3

(* Steps that leave the box and the messages.                              *)
LEMMA BoxRests ==
  ASSUME ComposerInv, UNCHANGED <<posts, copies, typed, gone, repeated>>, view'.box = view.box
  PROVE  NotLost' /\ NotTwice' /\ (\A p \in posts : p.reply \in {p.to, NoConv})'
  BY DEF ComposerInv, NotLost, NotTwice, NothingStrays

LEMMA ViewChanges ==
  ASSUME ComposerInv, UNCHANGED <<posts, copies, typed, gone, repeated, saves>>,
         view'.box = view.box, view' \in Views, OfThisConv'
  PROVE  ComposerInv'
  BY BoxRests DEF ComposerInv, ComposerTypeOK, NothingStrays

LEMMA GoesKept ==
  ASSUME ComposerInv, Goes
  PROVE  ComposerInv'
  <1> USE DEF ComposerInv, ComposerTypeOK
  <1>1. ASSUME Vanish PROVE ComposerInv'
    <2>1. view' = [view EXCEPT !.at = NoConv] /\ ViewOnly
      BY <1>1 DEF Vanish
    <2>2. view' \in Views /\ view'.box = view.box /\ view'.at = NoConv /\ view'.edit = view.edit /\ view'.draft = view.draft
      BY <2>1 DEF Views, MaybeConv
    <2> QED
      BY <2>1, <2>2, ViewChanges DEF OfThisConv, ViewOnly, Here
  <1>2. ASSUME NEW c \in Convs, Enter(c) PROVE ComposerInv'
    <2>1. view' = [view EXCEPT !.at = c, !.reply = NoConv] /\ ViewOnly
      BY <1>2 DEF Enter
    <2>2. view' \in Views /\ view'.box = view.box /\ view'.reply = NoConv /\ view'.edit = view.edit /\ view'.draft = view.draft
      BY <2>1 DEF Views, MaybeConv
    <2> QED
      BY <2>1, <2>2, ViewChanges DEF OfThisConv, ViewOnly
  <1> QED
    BY <1>1, <1>2 DEF Goes

LEMMA QuoteKept ==
  ASSUME ComposerInv, Quote \/ Unquote
  PROVE  ComposerInv'
  <1> USE DEF ComposerInv, ComposerTypeOK
  <1>1. PICK m \in {view.at, NoConv} : view' = [view EXCEPT !.reply = m] /\ ViewOnly
    BY DEF Quote, Unquote
  <1>2. m \in MaybeConv
    BY ViewFields DEF MaybeConv
  <1>3. view' \in Views /\ view'.box = view.box /\ view'.at = view.at /\ view'.reply = m
        /\ view'.edit = view.edit /\ view'.draft = view.draft
    BY <1>1, <1>2 DEF Views
  <1> QED
    BY <1>1, <1>3, ViewChanges DEF OfThisConv, ViewOnly

LEMMA EditorKept ==
  ASSUME ComposerInv, EditorNext
  PROVE  ComposerInv'
  <1> USE DEF ComposerInv, ComposerTypeOK
  <1>1. ASSUME NEW m \in MaybeConv, view' = [view EXCEPT !.edit = m, !.draft = m]
        PROVE  view' \in Views /\ view'.box = view.box /\ OfThisConv'
    <2>1. view' \in Views /\ view'.box = view.box /\ view'.at = view.at /\ view'.reply = view.reply /\ view'.edit = view'.draft
      BY <1>1 DEF Views
    <2> QED
      BY <2>1 DEF OfThisConv, Here
  <1>2. CASE StartEdit
    BY <1>1, <1>2, ViewFields, ViewChanges DEF StartEdit, ViewOnly
  <1>3. CASE CancelEdit
    BY <1>1, <1>3, ViewChanges DEF CancelEdit, ViewOnly, MaybeConv
  <1>4. CASE SaveEdit
    <2>1. view.edit \in Convs /\ view.draft = view.edit
      BY <1>4, ViewFields DEF SaveEdit, Here, OfThisConv, MaybeConv
    <2>2. saves' = saves \union {[of |-> view.edit, text |-> view.draft]} /\ UNCHANGED <<view, posts, copies, typed, gone, repeated>>
      BY <1>4 DEF SaveEdit
    <2>3. saves' \subseteq [of : Convs, text : MaybeConv] /\ \A s \in saves' : s.text = s.of
      BY <2>1, <2>2 DEF NothingStrays, MaybeConv
    <2> QED
      BY <2>2, <2>3, BoxRests DEF OfThisConv, Here, NothingStrays
  <1>5. ASSUME NEW s \in saves, Edited(s) \/ NotEdited(s) PROVE ComposerInv'
    <2>1. view' = view \/ view' = [view EXCEPT !.edit = NoConv, !.draft = NoConv]
      BY <1>5 DEF Edited, NotEdited
    <2>2. view' \in Views /\ view'.box = view.box /\ OfThisConv'
      BY <1>1, <2>1 DEF OfThisConv, Here, MaybeConv
    <2>3. saves' \subseteq saves /\ UNCHANGED <<posts, copies, typed, gone, repeated>>
      BY <1>5 DEF Edited, NotEdited
    <2> QED
      BY <2>2, <2>3, BoxRests DEF NothingStrays
  <1> QED
    BY <1>2, <1>3, <1>4, <1>5 DEF EditorNext

(* The box is written in or emptied by the user.                           *)
LEMMA BoxEdited ==
  ASSUME ComposerInv, Type \/ Erase
  PROVE  ComposerInv'
  <1> USE DEF ComposerInv, ComposerTypeOK
  <1> USE ComposerAssumption
  <1>1. PICK x \in 0..MaxTexts : view' = [view EXCEPT !.box = x] /\ UNCHANGED <<posts, saves, copies, repeated>>
    BY DEF Type, Erase
  <1>2. view' \in Views /\ view'.box = x /\ view'.at = view.at /\ view'.reply = view.reply
        /\ view'.edit = view.edit /\ view'.draft = view.draft
    BY <1>1 DEF Views
  <1>3. OfThisConv' /\ NothingStrays'
    BY <1>1, <1>2 DEF OfThisConv, NothingStrays, Here
  <1>4. view.box \in 0..MaxTexts /\ \A p \in posts : p.text \in 0..MaxTexts
    BY ViewFields, PostFields
  <1>5. CASE Type
    <2>1. /\ typed < MaxTexts /\ typed' = typed + 1 /\ x = typed + 1
          /\ view.box = 0 \/ posts # {}
          /\ gone' = IF posts = {} THEN gone ELSE gone \union {typed + 1, view.box}
      BY <1>2, <1>5, <1>1 DEF Type, Views
    <2>2. typed' \in 0..MaxTexts /\ gone' \subseteq 0..MaxTexts
      BY <1>4, <2>1
    <2>3. NotLost'
      BY <1>1, <1>2, <1>4, <2>1 DEF NotLost
    <2>4. NotTwice'
      BY <1>1, <1>2, <1>4, <2>1 DEF NotTwice, Texts
    <2> QED
      BY <1>1, <1>2, <1>3, <2>2, <2>3, <2>4
  <1>6. CASE Erase
    <2>1. x = 0 /\ typed' = typed /\ gone' = gone \union {view.box}
      BY <1>1, <1>2, <1>6 DEF Erase, Views
    <2>2. NotLost' /\ NotTwice'
      BY <1>1, <1>2, <1>4, <2>1 DEF NotLost, NotTwice, Texts
    <2> QED
      BY <1>1, <1>2, <1>3, <1>4, <2>1, <2>2
  <1> QED
    BY <1>5, <1>6

(* A message goes: a text, or a file.                                      *)
LEMMA PostKept ==
  ASSUME ComposerInv, NEW x \in 0..MaxTexts, Here, Post(x), UNCHANGED <<saves, copies, typed, gone>>,
         view' = view \/ view' = [view EXCEPT !.sending = TRUE],
         \/ x = 0 /\ repeated' = repeated
         \/ /\ x = view.box /\ x # 0
            /\ repeated' = IF \E p \in posts : p.text # 0 THEN repeated \union {x} ELSE repeated
  PROVE  ComposerInv'
  <1> USE DEF ComposerInv, ComposerTypeOK
  <1> USE ComposerAssumption
  <1>1. view' \in Views /\ view'.box = view.box /\ view'.at = view.at /\ view'.reply = view.reply
        /\ view'.edit = view.edit /\ view'.draft = view.draft
    BY DEF Views
  <1>2. PICK n \in Posts : posts' = posts \union {n} /\ n.text = x /\ n.to = view.at /\ n.reply = view.reply /\ ~n.stored
    BY PostMade
  <1>3. OfThisConv' /\ NothingStrays'
    BY <1>1, <1>2 DEF OfThisConv, NothingStrays, Here
  <1>4. view.box \in 0..MaxTexts /\ \A p \in posts : p.text \in 0..MaxTexts
    BY ViewFields, PostFields
  <1>5. NotLost'
    BY <1>1, <1>2, <1>4 DEF NotLost
  <1>6. NotTwice'
    BY <1>1, <1>2, <1>4 DEF NotTwice, Texts
  <1> QED
    BY <1>1, <1>2, <1>3, <1>5, <1>6 DEF Texts

LEMMA StoredKept ==
  ASSUME ComposerInv, NEW p \in posts, Stored(p)
  PROVE  ComposerInv'
  <1> USE DEF ComposerInv, ComposerTypeOK
  <1> DEFINE q == [p EXCEPT !.stored = TRUE]
             t == p.text
  <1>1. q \in Posts /\ q.text = t /\ q.to = p.to /\ q.reply = p.reply /\ q.stored /\ t \in 0..MaxTexts
    BY PostFields
  <1>2. posts' = (posts \ {p}) \union {q}
    BY DEF Stored
  <1> HIDE DEF q
  <1>3. t \in Texts /\ ~p.stored /\ UNCHANGED <<view, saves, typed, gone, repeated>>
    BY <1>1, ComposerAssumption DEF Stored, Texts
  <1>4. /\ copies' \in [Texts -> 0..2] /\ copies'[t] = (IF copies[t] < 2 THEN copies[t] + 1 ELSE copies[t])
        /\ \A u \in Texts : u # t => copies'[u] = copies[u]
    BY <1>3 DEF Stored
  <1>5. OfThisConv' /\ NothingStrays'
    BY <1>1, <1>2, <1>3 DEF OfThisConv, NothingStrays, Here
  <1>6. \A r \in posts : r.text \in 0..MaxTexts
    BY PostFields
  <1> HIDE DEF t
  <1>7. \A u \in Texts : copies[u] \in 0..2 /\ copies'[u] \in 0..2 /\ copies[u] <= copies'[u]
    BY <1>3, <1>4
  <1>8. copies'[t] > 0
    BY <1>3, <1>4
  <1>9. p.text = t /\ 1..typed \subseteq Texts
    BY ComposerAssumption DEF t, Texts
  <1>10. NotLost'
    <2>1. \A r \in posts' : r.stored => r.text # 0 /\ copies'[r.text] > 0
      BY <1>1, <1>2, <1>3, <1>6, <1>7, <1>8, <1>9 DEF NotLost, Texts
    <2>2. \A r \in posts' : r.text # 0 => view.box \in {0, r.text} \union gone
      BY <1>1, <1>2, <1>9 DEF NotLost
    <2>3. \A u \in 1..typed : u \in gone \/ view.box = u \/ copies'[u] > 0
      BY <1>7, <1>9 DEF NotLost
    <2> QED
      BY <1>3, <2>1, <2>2, <2>3 DEF NotLost
  <1>11. NotTwice'
    <2>1. view.box <= typed /\ \A r \in posts' : r.text <= typed
      BY <1>1, <1>2, <1>9 DEF NotTwice
    <2>2. \A u \in Texts : u > typed => copies'[u] = 0
      <3>1. t <= typed
        BY <1>9 DEF NotTwice
      <3> QED
        BY <1>3, <1>4, <3>1, ComposerAssumption DEF NotTwice, Texts
    <2>3. ASSUME NEW u \in Texts, u \notin repeated
          PROVE  /\ copies'[u] < 2
                 /\ \A r, s \in posts' : r.text = u /\ s.text = u => r = s
                 /\ \A r \in posts' : r.text = u /\ ~r.stored => copies'[u] = 0
                 /\ view.box = u /\ copies'[u] > 0 => \E r \in posts' : r.text = u /\ r.stored
      <3>1. CASE u = t
        BY <1>1, <1>2, <1>3, <1>4, <1>9, <2>3, <3>1 DEF NotTwice
      <3>2. CASE u # t
        BY <1>1, <1>2, <1>4, <1>9, <2>3, <3>2 DEF NotTwice
      <3> QED
        BY <3>1, <3>2
    <2> QED
      BY <1>3, <2>1, <2>2, <2>3 DEF NotTwice
  <1> QED
    BY <1>1, <1>2, <1>3, <1>4, <1>5, <1>10, <1>11

LEMMA AnsweredKept ==
  ASSUME ComposerInv, NEW p \in posts, Answered(p) \/ NotAnswered(p)
  PROVE  ComposerInv'
  <1> USE DEF ComposerInv, ComposerTypeOK
  <1>1. /\ posts' = posts \ {p} /\ UNCHANGED <<saves, copies, typed, gone>>
        /\ p.text \in 0..MaxTexts /\ p.stored \in BOOLEAN /\ view.box \in 0..MaxTexts
    BY PostFields, ViewFields DEF Answered, NotAnswered
  <1>2. /\ view' \in Views /\ view'.at = view.at /\ view'.edit = view.edit /\ view'.draft = view.draft
        /\ view'.reply \in {view.reply, NoConv}
        /\ \/ view'.box = view.box /\ repeated' = repeated /\ p.text = 0
           \/ view'.box = 0 /\ repeated' = repeated /\ p.stored
           \/ view'.box = view.box /\ repeated' = IF p.stored THEN repeated \union {p.text} ELSE repeated
    <2>1. CASE Answered(p)
      <3>1. CASE p.text = 0
        BY <2>1, <3>1 DEF Answered, Views, MaybeConv
      <3>2. CASE p.text # 0
        <4>1. view' = [view EXCEPT !.box = 0, !.reply = NoConv, !.sending = FALSE] /\ p.stored /\ repeated' = repeated
          BY <2>1, <3>2 DEF Answered
        <4>2. /\ view'.at = view.at /\ view'.edit = view.edit /\ view'.draft = view.draft
              /\ view'.reply = NoConv /\ view'.box = 0
          BY <4>1 DEF Views
        <4>3. 0 \in 0..MaxTexts /\ NoConv \in MaybeConv
          BY ComposerAssumption DEF MaybeConv
        <4>4. view' \in Views
          BY <4>1, <4>3 DEF Views
        <4> QED
          BY <4>1, <4>2, <4>4
      <3> QED
        BY <3>1, <3>2
    <2>2. CASE NotAnswered(p)
      BY <2>2 DEF NotAnswered, Views
    <2> QED
      BY <2>1, <2>2
  <1>3. OfThisConv' /\ NothingStrays'
    BY <1>1, <1>2 DEF OfThisConv, NothingStrays, Here
  <1>4. \A r \in posts : r.text \in 0..MaxTexts
    BY PostFields
  <1>5. NotLost'
    BY <1>1, <1>2, <1>4 DEF NotLost
  <1>6. NotTwice'
    BY <1>1, <1>2, <1>4 DEF NotTwice, NotLost, Texts
  <1>7. repeated' \subseteq Texts \union {0}
    <2>1. p.text \in Texts \union {0}
      BY <1>1, ComposerAssumption DEF Texts
    <2> QED
      BY <1>2, <2>1
  <1> QED
    BY <1>1, <1>2, <1>3, <1>5, <1>6, <1>7

LEMMA ComposerStep ==
  ASSUME ComposerInv, ComposerNext
  PROVE  ComposerInv'
  <1>1. ASSUME NEW e \in BOOLEAN, Send(e) PROVE ComposerInv'
    <2>1. view.box \in 0..MaxTexts
      BY ViewFields DEF ComposerInv, ComposerTypeOK
    <2> QED
      BY <1>1, <2>1, PostKept DEF Send
  <1>2. CASE Upload
    BY <1>2, PostKept, ComposerAssumption DEF Upload
  <1> QED
    BY <1>1, <1>2, GoesKept, QuoteKept, EditorKept, BoxEdited, StoredKept, AnsweredKept DEF ComposerNext, BoxNext

LEMMA ComposerInductive == ComposerSpec => []ComposerInv
  <1>1. ComposerInit => ComposerInv
    <2> SUFFICES ASSUME ComposerInit PROVE ComposerInv
      OBVIOUS
    <2>1. view \in Views /\ view.box = 0 /\ view.at = NoConv /\ view.edit = view.draft
      BY ComposerAssumption DEF ComposerInit, Views, MaybeConv
    <2>2. posts = {} /\ saves = {} /\ typed = 0 /\ gone = {} /\ repeated = {} /\ copies = [t \in Texts |-> 0]
      BY DEF ComposerInit
    <2>3. NotTwice
      BY <2>1, <2>2 DEF NotTwice
    <2> QED
      BY <2>1, <2>2, <2>3, ComposerAssumption DEF ComposerInv, ComposerTypeOK, OfThisConv, Here, NothingStrays, NotLost
  <1>2. ComposerInv /\ [ComposerNext]_composerVars => ComposerInv'
    <2>1. CASE UNCHANGED composerVars
      BY <2>1 DEF composerVars, ComposerInv, ComposerTypeOK, OfThisConv, Here, NothingStrays, NotLost, NotTwice
    <2> QED
      BY <2>1, ComposerStep
  <1> QED
    BY <1>1, <1>2, PTL DEF ComposerSpec

\* The box, the messages under way and what is stored stay what they are
\* declared to be.
THEOREM ComposerTypes == ComposerSpec => []ComposerTypeOK
  <1>1. ComposerInv => ComposerTypeOK
    BY DEF ComposerInv
  <1> QED
    BY <1>1, ComposerInductive, PTL

\* Wherever the user goes meanwhile, a reply quotes a message of the
\* conversation it is sent to and an edit gives a message its own text.
THEOREM NothingEverStrays == ComposerSpec => []NothingStrays
  <1>1. ComposerInv => NothingStrays
    BY DEF ComposerInv
  <1> QED
    BY <1>1, ComposerInductive, PTL

\* Whatever is typed and sent, in any conversations and with any answers, a
\* text is in the box, under way or stored, and stored only once, unless it
\* was written on beside a message under way or sent again.
THEOREM TextsArriveOnce == ComposerSpec => []EveryTextOnce
  <1>1. ComposerInv => EveryTextOnce
    BY ComposerAssumption DEF ComposerInv, ComposerTypeOK, EveryTextOnce, NotLost, NotTwice, Texts
  <1> QED
    BY <1>1, ComposerInductive, PTL

-----------------------------------------------------------------------------
(* Search: the window and the jump to what it found.                       *)

SearchSpec == SearchInit /\ [][SearchNext]_searchVars

(* Unless a search was overtaken, only the query that is shown is searched *)
(* for, after its pause; and before and after that the hits are its hits   *)
(* or none.                                                                *)
WindowTold ==
  /\ search.pause => search.open
  /\ search.open /\ ~overtaken =>
       /\ asking \subseteq {search.q}
       /\ search.pause => asking = {}
       /\ ~search.pause /\ asking = {} => search.hits \in {search.q, 0} /\ ~search.busy
  /\ search.hits > 0 => search.active \in 0..search.hits - 1

(* The frame of an effect that still runs finds the message.               *)
FrameFinds == hop.live = "frame" => hop.has /\ hop.shown

SearchInv == SearchTypeOK /\ WindowTold /\ FrameFinds /\ JumpLands

LEMMA WindowFields ==
  ASSUME NEW s \in Searches
  PROVE  /\ s.open \in BOOLEAN /\ s.q \in Queries /\ s.pause \in BOOLEAN /\ s.busy \in BOOLEAN
         /\ s.hits \in Queries /\ s.active \in -1..MaxHits
  BY DEF Searches

LEMMA Turned ==
  ASSUME NEW h \in Hops
  PROVE  LET e == Runs(h)
         IN /\ e \in Hops /\ e.wanted = h.wanted /\ e.shown = h.shown
            /\ e.wanted /\ e.shown => e.live # "none"
            /\ e.live = "frame" => e.has /\ e.shown
  <1> DEFINE e == Runs(h)
             l == IF ~(h.wanted /\ h.shown) THEN "none" ELSE IF h.has THEN "frame" ELSE "around"
             o == h.old \/ h.live # "none"
  <1>1. e = [h EXCEPT !.old = o, !.live = l] /\ l \in {"none", "around", "frame"} /\ o \in BOOLEAN
    BY DEF Runs, Hops
  <1>2. /\ e \in Hops /\ e.wanted = h.wanted /\ e.shown = h.shown /\ e.has = h.has /\ e.live = l
    <2> HIDE DEF e, l, o
    <2> QED
      BY <1>1 DEF Hops
  <1> QED
    BY <1>2

(* The window, by its actions.                                             *)
LEMMA WindowKept ==
  ASSUME SearchTypeOK, WindowTold,
         \/ OpenSearch \/ CloseSearch \/ AskServer \/ OpenHit
         \/ \E q \in Queries : TypeQuery(q)
         \/ \E q \in asking : HitsCame(q) \/ HitsFailed(q)
         \/ \E b \in BOOLEAN : Arrow(b)
  PROVE  search' \in Searches /\ asking' \subseteq Queries /\ overtaken' \in BOOLEAN /\ WindowTold'
  <1> USE SearchAssumption DEF SearchTypeOK
  <1> DEFINE G == search' \in Searches /\ asking' \subseteq Queries /\ overtaken' \in BOOLEAN /\ WindowTold'
  <1>0. 0 \in Queries /\ 0 \in -1..MaxHits /\ \A n \in Queries : n \in Int /\ 0 <= n /\ n <= MaxHits
    BY DEF Queries
  <1>f. /\ search.open \in BOOLEAN /\ search.q \in Queries /\ search.pause \in BOOLEAN /\ search.busy \in BOOLEAN
        /\ search.hits \in Queries /\ search.active \in -1..MaxHits
    BY WindowFields
  <1>1. CASE OpenSearch
    <2>1. /\ search'.open /\ search'.q = 0 /\ ~search'.pause /\ ~search'.busy /\ search'.hits = 0
          /\ search' \in Searches /\ overtaken' \in BOOLEAN /\ (overtaken' <=> asking # {}) /\ asking' = asking
      BY <1>0, <1>1 DEF OpenSearch, Searches
    <2> QED
      BY <2>1 DEF WindowTold
  <1>2. CASE CloseSearch \/ OpenHit
    <2>1. search' = Closed(search) /\ UNCHANGED <<asking, overtaken>>
      BY <1>2 DEF CloseSearch, OpenHit
    <2>2. /\ search' \in Searches /\ ~search'.open /\ ~search'.pause /\ search'.hits = search.hits
          /\ search'.active = search.active
      BY <2>1 DEF Closed, Searches
    <2> QED
      BY <2>1, <2>2 DEF WindowTold
  <1>3. CASE AskServer
    <2>1. /\ search' \in Searches /\ search'.open = search.open /\ search'.q = search.q /\ ~search'.pause
          /\ search'.hits = search.hits /\ search'.active = search.active
          /\ search.pause /\ asking' = asking \union {search.q} /\ overtaken' = overtaken
      BY <1>3 DEF AskServer, Searches
    <2> QED
      BY <1>f, <2>1 DEF WindowTold
  <1>4. ASSUME NEW q \in Queries, TypeQuery(q) PROVE G
    <2>1. PICK h \in {search.hits, 0} :
            search' = [search EXCEPT !.q = q, !.pause = (q # 0), !.busy = (q # 0), !.hits = h] /\ (q = 0 => h = 0)
      BY <1>4 DEF TypeQuery
    <2>2. /\ search' \in Searches /\ search'.open = search.open /\ search'.q = q /\ (search'.pause <=> q # 0)
          /\ search'.hits = h /\ search'.active = search.active
      BY <1>0, <1>f, <2>1 DEF Searches
    <2>3. search.open /\ overtaken' \in BOOLEAN /\ (overtaken' <=> asking # {}) /\ asking' = asking
      BY <1>4 DEF TypeQuery
    <2> QED
      BY <1>f, <2>1, <2>2, <2>3 DEF WindowTold
  <1>5. ASSUME NEW q \in asking, HitsCame(q) PROVE G
    <2>1. /\ search' \in Searches /\ search'.open = search.open /\ search'.q = search.q /\ search'.pause = search.pause
          /\ ~search'.busy /\ search'.hits = q /\ search'.active = 0
          /\ asking' = asking \ {q} /\ overtaken' = overtaken /\ q \in Queries
      BY <1>0, <1>5 DEF HitsCame, Searches
    <2>2. q > 0 => 0 \in 0..q - 1
      BY <1>0, <2>1
    <2> QED
      BY <1>f, <2>1, <2>2 DEF WindowTold
  <1>6. ASSUME NEW q \in asking, HitsFailed(q) PROVE G
    <2>1. /\ search' \in Searches /\ search'.open = search.open /\ search'.q = search.q /\ search'.pause = search.pause
          /\ ~search'.busy /\ search'.hits = 0
          /\ asking' = asking \ {q} /\ overtaken' = overtaken
      BY <1>0, <1>6 DEF HitsFailed, Searches
    <2> QED
      BY <1>f, <2>1 DEF WindowTold
  <1>7. ASSUME NEW b \in BOOLEAN, Arrow(b) PROVE G
    <2>1. PICK a \in Int :
            /\ search' = [search EXCEPT !.active = a] /\ a \in -1..MaxHits
            /\ search.hits > 0 => a \in 0..search.hits - 1
      <3>1. CASE b
        BY <1>0, <1>f, <1>7, <3>1 DEF Arrow, WindowTold
      <3>2. CASE ~b
        BY <1>0, <1>f, <1>7, <3>2 DEF Arrow, WindowTold
      <3> QED
        BY <3>1, <3>2
    <2>2. /\ search' \in Searches /\ search'.open = search.open /\ search'.q = search.q /\ search'.pause = search.pause
          /\ search'.busy = search.busy /\ search'.hits = search.hits /\ search'.active = a
      BY <2>1 DEF Searches
    <2>3. UNCHANGED <<asking, overtaken>>
      BY <1>7 DEF Arrow
    <2> QED
      BY <2>1, <2>2, <2>3 DEF WindowTold
  <1> QED
    BY <1>1, <1>2, <1>3, <1>4, <1>5, <1>6, <1>7

(* The jump, by its actions.                                               *)
LEMMA HopKept ==
  ASSUME SearchTypeOK, FrameFinds, JumpLands,
         \/ OpenHit \/ LeaveConv \/ NewMessage \/ AroundCame \/ AroundFailed \/ DrawFrame \/ OldFrame
         \/ \E b \in BOOLEAN : HistoryPage(b)
  PROVE  hop' \in Hops /\ missed' \in BOOLEAN /\ FrameFinds' /\ JumpLands'
  <1> USE DEF SearchTypeOK
  <1>1. ASSUME NEW h \in Hops, hop' = Runs(h) PROVE hop' \in Hops /\ FrameFinds' /\ JumpLands'
    BY <1>1, Turned DEF FrameFinds, JumpLands
  <1>2. CASE OpenHit \/ LeaveConv \/ NewMessage \/ AroundCame \/ \E b \in BOOLEAN : HistoryPage(b)
    <2>1. PICK w \in BOOLEAN, s \in BOOLEAN, m \in BOOLEAN, y \in BOOLEAN :
            hop' = Runs([hop EXCEPT !.wanted = w, !.shown = s, !.has = m, !.history = y])
      <3>1. hop = [hop EXCEPT !.wanted = @, !.shown = @, !.has = @, !.history = @]
            /\ hop.wanted \in BOOLEAN /\ hop.shown \in BOOLEAN /\ hop.has \in BOOLEAN /\ hop.history \in BOOLEAN
        BY DEF Hops
      <3>2. CASE OpenHit
        <4>1. hop' = Runs([hop EXCEPT !.wanted = TRUE, !.shown = TRUE, !.has = hop.has, !.history = @ \/ ~hop.shown])
          BY <3>1, <3>2 DEF OpenHit, Hops
        <4> QED
          BY <3>1, <4>1
      <3>3. CASE LeaveConv
        <4>1. hop' = Runs([hop EXCEPT !.wanted = hop.wanted, !.shown = FALSE, !.has = hop.has, !.history = FALSE])
          BY <3>1, <3>3 DEF LeaveConv, Hops
        <4> QED
          BY <3>1, <4>1
      <3>4. CASE NewMessage
        BY <3>1, <3>4 DEF NewMessage
      <3>5. CASE AroundCame
        <4>1. hop' = Runs([hop EXCEPT !.wanted = hop.wanted, !.shown = hop.shown, !.has = TRUE, !.history = hop.history])
          BY <3>1, <3>5 DEF AroundCame, Hops
        <4> QED
          BY <3>1, <4>1
      <3>6. ASSUME NEW b \in BOOLEAN, HistoryPage(b)
            PROVE  hop' = Runs([hop EXCEPT !.wanted = hop.wanted, !.shown = hop.shown, !.has = (b /\ hop.has), !.history = FALSE])
        BY <3>1, <3>6 DEF HistoryPage, Hops
      <3> QED
        BY <1>2, <3>1, <3>2, <3>3, <3>4, <3>5, <3>6
    <2>2. [hop EXCEPT !.wanted = w, !.shown = s, !.has = m, !.history = y] \in Hops
      BY DEF Hops
    <2>3. missed' \in BOOLEAN
      BY <1>2 DEF OpenHit, LeaveConv, NewMessage, AroundCame, HistoryPage
    <2> QED
      BY <1>1, <2>1, <2>2, <2>3
  <1>3. CASE AroundFailed
    BY <1>3 DEF AroundFailed, Hops, FrameFinds, JumpLands
  <1>4. CASE DrawFrame
    BY <1>4 DEF DrawFrame, Framed, Hops, FrameFinds, JumpLands
  <1>5. CASE OldFrame
    BY <1>5 DEF OldFrame, Framed, Hops, FrameFinds, JumpLands
  <1> QED
    BY <1>2, <1>3, <1>4, <1>5

LEMMA SearchInductive == SearchSpec => []SearchInv
  <1>1. SearchInit => SearchInv
    <2> SUFFICES ASSUME SearchInit PROVE SearchInv
      OBVIOUS
    <2>1. 0 \in Queries /\ 0 \in -1..MaxHits
      BY SearchAssumption DEF Queries
    <2>2. search \in Searches /\ search.hits = 0 /\ ~search.open /\ ~search.pause
      BY <2>1 DEF SearchInit, Searches
    <2>3. hop \in Hops /\ hop.live = "none" /\ ~hop.wanted
      BY DEF SearchInit, Hops
    <2>4. asking = {} /\ overtaken = FALSE /\ missed = FALSE
      BY DEF SearchInit
    <2>5. WindowTold
      BY <2>2 DEF WindowTold
    <2>6. SearchTypeOK
      BY <2>2, <2>3, <2>4 DEF SearchTypeOK
    <2>7. FrameFinds /\ JumpLands
      BY <2>3 DEF FrameFinds, JumpLands
    <2> QED
      BY <2>5, <2>6, <2>7 DEF SearchInv
  <1>2. SearchInv /\ [SearchNext]_searchVars => SearchInv'
    <2> SUFFICES ASSUME SearchInv, [SearchNext]_searchVars PROVE SearchInv'
      OBVIOUS
    <2>1. CASE UNCHANGED searchVars
      BY <2>1 DEF searchVars, SearchInv, SearchTypeOK, WindowTold, FrameFinds, JumpLands
    <2>2. CASE OpenHit
      BY <2>2, WindowKept, HopKept DEF SearchInv, SearchTypeOK
    <2>3. CASE \/ OpenSearch \/ CloseSearch \/ AskServer
               \/ \E q \in Queries : TypeQuery(q)
               \/ \E q \in asking : HitsCame(q) \/ HitsFailed(q)
               \/ \E b \in BOOLEAN : Arrow(b)
      <3>1. NoHop
        BY <2>3 DEF OpenSearch, CloseSearch, AskServer, TypeQuery, HitsCame, HitsFailed, Arrow
      <3>2. search' \in Searches /\ asking' \subseteq Queries /\ overtaken' \in BOOLEAN /\ WindowTold'
        BY <2>3, WindowKept DEF SearchInv
      <3> QED
        BY <3>1, <3>2 DEF NoHop, SearchInv, SearchTypeOK, FrameFinds, JumpLands
    <2>4. CASE \/ LeaveConv \/ NewMessage \/ AroundCame \/ AroundFailed \/ DrawFrame \/ OldFrame
               \/ \E b \in BOOLEAN : HistoryPage(b)
      <3>1. NoSearch
        BY <2>4 DEF LeaveConv, NewMessage, AroundCame, AroundFailed, DrawFrame, OldFrame, HistoryPage
      <3>2. hop' \in Hops /\ missed' \in BOOLEAN /\ FrameFinds' /\ JumpLands'
        BY <2>4, HopKept DEF SearchInv
      <3> QED
        BY <3>1, <3>2 DEF NoSearch, SearchInv, SearchTypeOK, WindowTold
    <2> QED
      BY <2>1, <2>2, <2>3, <2>4 DEF SearchNext
  <1> QED
    BY <1>1, <1>2, PTL DEF SearchSpec

\* The search window and the jump stay what they are declared to be.
THEOREM SearchTypes == SearchSpec => []SearchTypeOK
  <1>1. SearchInv => SearchTypeOK
    BY DEF SearchInv
  <1> QED
    BY <1>1, SearchInductive, PTL

\* However many pages of messages and hits there are, the hits at rest are
\* those of the query, the one Enter opens is among them, and a jump to it
\* does not hang in a conversation that is shown.
THEOREM SearchAlwaysLeads == SearchSpec => []SearchLeadsThere
  <1>1. SearchInv => SearchLeadsThere
    BY DEF SearchInv, SearchTypeOK, SearchLeadsThere, HitsMatch, WindowTold
  <1> QED
    BY <1>1, SearchInductive, PTL

-----------------------------------------------------------------------------
(* The windows of a group.                                                 *)

PanelsSpec == PanelsInit /\ [][PanelsNext]_panelsVars

(* What is read in an open window is read for its group, and what it shows *)
(* while nothing is read is that group's, unless it is mixed up.           *)
ReadHere(r) == \A g \in Groups : <<r, g>> \in reads => g = at
MembersTold ==
  panel = "members" /\ at # NoGroup /\ "members" \notin mixed =>
    ReadHere("members") /\ (~Reading("members") => shown.of = at)
FilesTold ==
  panel = "files" /\ at # NoGroup /\ "files" \notin mixed =>
    ReadHere("files") /\ (~Reading("files") => shown.files = at)
(* The switch stands as it was moved while the server is asked, and is not *)
(* read meanwhile.                                                         *)
MuteTold ==
  panel = "members" /\ at # NoGroup /\ "mute" \notin mixed =>
    /\ ReadHere("mute")
    /\ Muting => ~Reading("mute")
    /\ \A a \in acts : a.op = "mute" => a.to = at /\ (a.on <=> shown.mute)
    /\ ~Reading("mute") /\ ~Muting => (shown.mute <=> at \in muted)
(* The form, the buttons that wait, and the windows that are not mounted.  *)
FormTold ==
  /\ at # NoGroup => shown.form # NoGroup
  /\ at # NoGroup /\ "form" \notin mixed => shown.form = at /\ shown.code = at
  /\ \A a, b \in acts : a = b
  /\ \A a \in acts : a.here => at # NoGroup /\ ("form" \notin mixed => a.to = at)
  /\ at = NoGroup => reads = {}

PanelsInv == PanelsTypeOK /\ MembersTold /\ FilesTold /\ MuteTold /\ FormTold

LEMMA ContentFields ==
  ASSUME NEW s \in Contents
  PROVE  /\ s.of \in MaybeGroup /\ s.files \in MaybeGroup /\ s.mute \in BOOLEAN
         /\ s.form \in MaybeGroup /\ s.code \in MaybeGroup /\ s.sure \in BOOLEAN
  BY DEF Contents

LEMMA ContentChanges ==
  ASSUME NEW s \in Contents, NEW g \in MaybeGroup, NEW b \in BOOLEAN
  PROVE  /\ LET n == [s EXCEPT !.of = g]
            IN  n \in Contents /\ n.of = g /\ n.files = s.files /\ n.mute = s.mute /\ n.form = s.form /\ n.code = s.code
         /\ LET n == [s EXCEPT !.files = g]
            IN  n \in Contents /\ n.of = s.of /\ n.files = g /\ n.mute = s.mute /\ n.form = s.form /\ n.code = s.code
         /\ LET n == [s EXCEPT !.mute = b]
            IN  n \in Contents /\ n.of = s.of /\ n.files = s.files /\ n.mute = b /\ n.form = s.form /\ n.code = s.code
         /\ LET n == [s EXCEPT !.code = g]
            IN  n \in Contents /\ n.of = s.of /\ n.files = s.files /\ n.mute = s.mute /\ n.form = s.form /\ n.code = g
         /\ LET n == [s EXCEPT !.sure = b]
            IN  n \in Contents /\ n.of = s.of /\ n.files = s.files /\ n.mute = s.mute /\ n.form = s.form /\ n.code = s.code
         /\ LET n == [Empty EXCEPT !.form = g, !.code = g]
            IN  n \in Contents /\ n.form = g /\ n.code = g
         /\ Empty \in Contents
  BY DEF Contents, Empty, MaybeGroup

LEMMA ActFields ==
  ASSUME NEW a \in Acts
  PROVE  /\ a.to \in Groups /\ a.from \in Groups /\ a.on \in BOOLEAN /\ a.here \in BOOLEAN
         /\ LET b == [a EXCEPT !.here = FALSE]
            IN  b \in Acts /\ ~b.here /\ b.op = a.op /\ b.to = a.to /\ b.on = a.on
  BY DEF Acts

LEMMA WhatIsRead ==
  ASSUME NEW p
  PROVE  /\ ReadsOf(p) \subseteq {"members", "mute", "files"}
         /\ p = "members" => "members" \in ReadsOf(p) /\ "mute" \in ReadsOf(p)
         /\ p = "files" => "files" \in ReadsOf(p)
  BY DEF ReadsOf

(* A window that is open begins to read, for the group that is shown now.  *)
LEMMA Begun ==
  ASSUME PanelsTypeOK, NEW g \in Groups, at' = g, UNCHANGED acts,
         reads' = reads \union {<<r, g>> : r \in ReadsOf(panel')},
         \A r \in ReadsOf(panel') : r \notin mixed' => ~Reading(r) /\ (r = "mute" => ~Muting)
  PROVE  MembersTold' /\ FilesTold' /\ MuteTold'
  <1>1. ASSUME NEW r \in ReadsOf(panel'), r \notin mixed'
        PROVE  ReadHere(r)' /\ Reading(r)' /\ (r = "mute" => ~Muting')
    <2>1. \A h \in Groups : <<r, h>> \in reads' <=> h = g
      <3>1. \A h \in Groups : <<r, h>> \notin reads
        BY <1>1 DEF Reading
      <3> QED
        BY <1>1, <3>1
    <2> QED
      BY <1>1, <2>1 DEF ReadHere, Reading, Muting
  <1>2. MembersTold' /\ FilesTold'
    BY <1>1, WhatIsRead DEF MembersTold, FilesTold
  <1>3. MuteTold'
    <2> SUFFICES ASSUME panel' = "members", "mute" \notin mixed' PROVE
          ReadHere("mute")' /\ Reading("mute")' /\ ~Muting'
      BY DEF MuteTold, Muting
    <2> QED
      BY <1>1, WhatIsRead
  <1> QED
    BY <1>2, <1>3

(* The reads that a step begins, as types.                                 *)
LEMMA ReadsTyped ==
  ASSUME PanelsTypeOK, NEW g \in Groups, NEW p, NEW what, what = ReadsOf(p) \/ what = {"members"},
         reads' = reads \union {<<r, g>> : r \in what}, mixed' \subseteq mixed \union what \union {"form"}
  PROVE  /\ reads' \subseteq {"members", "mute", "files"} \X Groups
         /\ mixed' \subseteq {"members", "mute", "files", "form"}
  <1>1. what \subseteq {"members", "mute", "files"}
    BY WhatIsRead
  <1> QED
    BY <1>1 DEF PanelsTypeOK

LEMMA SwitchKept ==
  ASSUME PanelsInv, NEW g \in MaybeGroup, Switch(g)
  PROVE  PanelsInv'
  <1> USE PanelsAssumption DEF PanelsInv, PanelsTypeOK
  <1>0. at' = g /\ g # at /\ UNCHANGED <<panel, muted>>
    BY DEF Switch
  <1>1. CASE g = NoGroup
    <2>1. shown' = Empty /\ reads' = {} /\ mixed' = {} /\ acts' = {[a EXCEPT !.here = FALSE] : a \in acts}
      BY <1>1 DEF Switch
    <2>2. acts' \subseteq Acts /\ (\A a \in acts' : ~a.here) /\ \A a, b \in acts' : a = b
      <3>1. \A a \in acts : [a EXCEPT !.here = FALSE] \in Acts /\ ~[a EXCEPT !.here = FALSE].here
        BY ActFields
      <3> QED
        BY <2>1, <3>1 DEF FormTold
    <2>3. shown' \in Contents
      BY <2>1 DEF Empty, Contents, MaybeGroup
    <2> QED
      BY <1>0, <1>1, <2>1, <2>2, <2>3 DEF MembersTold, FilesTold, MuteTold, FormTold, MaybeGroup
  <1>2. CASE g # NoGroup
    <2>0. g \in Groups /\ acts' = acts /\ reads' = reads \union {<<r, g>> : r \in ReadsOf(panel)}
      BY <1>2 DEF Switch, Begin, MaybeGroup
    <2>1. /\ \A r \in ReadsOf(panel) : r \notin mixed' => ~Reading(r) /\ (r = "mute" => ~Muting)
          /\ mixed' \subseteq mixed \union ReadsOf(panel) \union {"form"}
          /\ at # NoGroup => "form" \in mixed'
      BY <1>2 DEF Switch, Begin
    <2>2. MembersTold' /\ FilesTold' /\ MuteTold'
      BY <1>0, <2>0, <2>1, Begun
    <2>3. reads' \subseteq {"members", "mute", "files"} \X Groups /\ mixed' \subseteq {"members", "mute", "files", "form"}
      BY <2>0, <2>1, ReadsTyped
    <2>4. CASE at = NoGroup
      <3>1. shown' = [Empty EXCEPT !.form = g, !.code = g]
        BY <1>2, <2>4 DEF Switch
      <3>2. shown' \in Contents /\ shown'.form = g /\ shown'.code = g
        BY <3>1 DEF Empty, Contents, MaybeGroup
      <3> QED
        BY <1>0, <1>2, <2>0, <2>2, <2>3, <2>4, <3>2, ActFields DEF FormTold
    <2>5. CASE at # NoGroup
      <3>1. PICK n \in MaybeGroup : shown' = [shown EXCEPT !.files = n]
        <4>1. shown.files \in MaybeGroup /\ NoGroup \in MaybeGroup
          BY ContentFields DEF MaybeGroup
        <4> QED
          BY <1>2, <2>5, <4>1 DEF Switch
      <3>2. shown' \in Contents /\ shown'.form = shown.form
        BY <3>1 DEF Contents
      <3> QED
        BY <1>0, <1>2, <2>0, <2>1, <2>2, <2>3, <2>5, <3>2 DEF FormTold
    <2> QED
      BY <2>4, <2>5
  <1> QED
    BY <1>1, <1>2

LEMMA OpenPanelKept ==
  ASSUME PanelsInv, NEW p \in {"members", "files", "edit"}, OpenPanel(p)
  PROVE  PanelsInv'
  <1> USE PanelsAssumption DEF PanelsInv, PanelsTypeOK
  <1>1. /\ at \in Groups /\ at # NoGroup /\ panel' = p /\ UNCHANGED <<at, muted, acts>>
        /\ reads' = reads \union {<<r, at>> : r \in ReadsOf(p)}
        /\ mixed' = (mixed \ ReadsOf(p)) \union {r \in ReadsOf(p) : Reading(r) \/ (r = "mute" /\ Muting)}
    BY DEF OpenPanel, Begin, MaybeGroup
  <1>2. MembersTold' /\ FilesTold' /\ MuteTold'
    BY <1>1, Begun
  <1>3. reads' \subseteq {"members", "mute", "files"} \X Groups /\ mixed' \subseteq {"members", "mute", "files", "form"}
    BY <1>1, ReadsTyped
  <1>4. "form" \notin mixed' => "form" \notin mixed
    BY <1>1, WhatIsRead
  <1>5. PICK n \in MaybeGroup : shown' = [shown EXCEPT !.files = n]
    <2>1. shown.files \in MaybeGroup /\ NoGroup \in MaybeGroup /\ shown = [shown EXCEPT !.files = @]
      BY DEF MaybeGroup, Contents
    <2> QED
      BY <2>1 DEF OpenPanel
  <1>6. shown' \in Contents /\ shown'.form = shown.form /\ shown'.code = shown.code
    BY <1>5 DEF Contents
  <1> QED
    BY <1>1, <1>2, <1>3, <1>4, <1>6 DEF FormTold

LEMMA CloseKept ==
  ASSUME PanelsInv, ClosePanel
  PROVE  PanelsInv'
  BY DEF ClosePanel, PanelsInv, PanelsTypeOK, MembersTold, FilesTold, MuteTold, FormTold

LEMMA AnswerKept ==
  ASSUME PanelsInv, NEW r, NEW g, <<r, g>> \in reads, ReadCame(r, g) \/ ReadFailed(r, g)
  PROVE  PanelsInv'
  <1> USE PanelsAssumption DEF PanelsInv, PanelsTypeOK
  <1>1. r \in {"members", "mute", "files"} /\ g \in Groups
    OBVIOUS
  <1>2. reads' = reads \ {<<r, g>>} /\ UNCHANGED <<at, panel, muted, acts>>
    BY DEF ReadCame, ReadFailed
  <1>3. \A h \in Groups, s \in {"members", "mute", "files"} :
          <<s, h>> \in reads' <=> <<s, h>> \in reads /\ ~(s = r /\ h = g)
    BY <1>2
  <1>4. \A s \in {"members", "mute", "files"} : /\ ReadHere(s) => ReadHere(s)'
                                                /\ s # r => (Reading(s)' <=> Reading(s))
                                                /\ Reading(s)' => Reading(s)
    BY <1>2, <1>3 DEF ReadHere, Reading
  <1>5. Reading(r) /\ (ReadHere(r) => g = at)
    BY <1>1 DEF Reading, ReadHere
  <1>6. Muting' <=> Muting
    BY <1>2 DEF Muting
  <1>7. CASE ReadFailed(r, g)
    <2>1. mixed' = mixed \union {r} /\ shown' = shown
      BY <1>7 DEF ReadFailed
    <2> QED
      BY <1>1, <1>2, <1>4, <1>6, <2>1 DEF MembersTold, FilesTold, MuteTold, FormTold
  <1>8. CASE ReadCame(r, g)
    <2>0. mixed' = mixed /\ g \in MaybeGroup
      BY <1>1, <1>8 DEF ReadCame, MaybeGroup
    <2>1. CASE r = "members"
      <3>1. shown' = [shown EXCEPT !.of = g]
        BY <1>8, <2>1 DEF ReadCame
      <3>2. /\ shown' \in Contents /\ shown'.of = g /\ shown'.files = shown.files /\ shown'.mute = shown.mute
            /\ shown'.form = shown.form /\ shown'.code = shown.code
        BY <2>0, <3>1 DEF Contents
      <3> QED
        BY <1>2, <1>4, <1>5, <1>6, <2>0, <2>1, <3>2 DEF MembersTold, FilesTold, MuteTold, FormTold
    <2>2. CASE r = "files"
      <3>1. shown' = [shown EXCEPT !.files = g]
        BY <1>8, <2>2 DEF ReadCame
      <3>2. /\ shown' \in Contents /\ shown'.of = shown.of /\ shown'.files = g /\ shown'.mute = shown.mute
            /\ shown'.form = shown.form /\ shown'.code = shown.code
        BY <2>0, <3>1 DEF Contents
      <3> QED
        BY <1>2, <1>4, <1>5, <1>6, <2>0, <2>2, <3>2 DEF MembersTold, FilesTold, MuteTold, FormTold
    <2>3. CASE r = "mute"
      <3>1. PICK b \in BOOLEAN : shown' = [shown EXCEPT !.mute = b] /\ (b <=> g \in muted)
        <4> DEFINE c == g \in muted
        <4>1. shown' = [shown EXCEPT !.mute = c]
          BY <1>8, <2>3 DEF ReadCame
        <4>2. c \in BOOLEAN /\ (c <=> g \in muted)
          OBVIOUS
        <4> HIDE DEF c
        <4> QED
          BY <4>1, <4>2
      <3>2. /\ shown' \in Contents /\ shown'.of = shown.of /\ shown'.files = shown.files
            /\ shown'.mute \in BOOLEAN /\ (shown'.mute <=> g \in muted)
            /\ shown'.form = shown.form /\ shown'.code = shown.code
        BY <3>1 DEF Contents
      <3>3. MembersTold' /\ FilesTold' /\ FormTold'
        BY <1>2, <1>4, <2>0, <2>3, <3>2 DEF MembersTold, FilesTold, FormTold
      <3>4. MuteTold'
        BY <1>2, <1>4, <1>5, <1>6, <2>0, <2>3, <3>2 DEF MuteTold, Muting
      <3> QED
        BY <1>2, <2>0, <3>2, <3>3, <3>4
    <2> QED
      BY <1>1, <2>1, <2>2, <2>3
  <1> QED
    BY <1>7, <1>8

(* A button is pressed; all but the switch only wait.                      *)
LEMMA Asked1 ==
  ASSUME PanelsInv, at # NoGroup, NEW op \in {"role", "kick", "leave", "mute", "save", "rotate", "dissolve"},
         NEW from \in Groups, NEW on \in BOOLEAN, Ask(op, from, on)
  PROVE  \E a \in Acts : /\ acts = {} /\ acts' = {a} /\ a.op = op /\ a.to = at /\ a.on = on
                         /\ UNCHANGED <<at, panel, muted, reads>>
  <1>1. at \in Groups
    BY DEF PanelsInv, PanelsTypeOK, MaybeGroup
  <1>2. [op |-> op, to |-> at, from |-> from, on |-> on, here |-> TRUE] \in Acts
    BY <1>1 DEF Acts
  <1> QED
    BY <1>2 DEF Ask

LEMMA WaitKept ==
  ASSUME PanelsInv, at # NoGroup, NEW op \in {"role", "kick", "leave", "save", "rotate", "dissolve"},
         NEW from \in Groups, Ask(op, from, FALSE), UNCHANGED <<shown, mixed>>
  PROVE  PanelsInv'
  <1>1. PICK a \in Acts : /\ acts = {} /\ acts' = {a} /\ a.op = op /\ a.to = at
                          /\ UNCHANGED <<at, panel, muted, reads>>
    <2>1. op \in {"role", "kick", "leave", "mute", "save", "rotate", "dissolve"} /\ FALSE \in BOOLEAN
      OBVIOUS
    <2>2. \E a \in Acts : /\ acts = {} /\ acts' = {a} /\ a.op = op /\ a.to = at /\ a.on = FALSE
                          /\ UNCHANGED <<at, panel, muted, reads>>
      BY <2>1, Asked1
    <2> QED
      BY <2>2
  <1>2. Muting' <=> Muting
    BY <1>1 DEF Muting
  <1> QED
    BY <1>1, <1>2 DEF PanelsInv, PanelsTypeOK, MembersTold, FilesTold, MuteTold, FormTold, ReadHere, Reading

LEMMA SetMuteKept ==
  ASSUME PanelsInv, NEW on \in BOOLEAN, SetMute(on)
  PROVE  PanelsInv'
  <1>1. at # NoGroup /\ at \in Groups
    BY DEF SetMute, MembersOpen, PanelsInv, PanelsTypeOK, MaybeGroup
  <1>2. PICK a \in Acts : /\ acts = {} /\ acts' = {a} /\ a.op = "mute" /\ a.to = at /\ a.on = on
                          /\ UNCHANGED <<at, panel, muted, reads>>
    BY <1>1, Asked1 DEF SetMute
  <1>3. shown' = [shown EXCEPT !.mute = on] /\ mixed' = IF Reading("mute") THEN mixed \union {"mute"} ELSE mixed
    BY DEF SetMute
  <1>4. /\ shown' \in Contents /\ shown'.of = shown.of /\ shown'.files = shown.files /\ shown'.mute = on
        /\ shown'.form = shown.form /\ shown'.code = shown.code
    BY <1>3 DEF Contents, PanelsInv, PanelsTypeOK
  <1>5. \A r \in {"members", "mute", "files"} : (ReadHere(r)' <=> ReadHere(r)) /\ (Reading(r)' <=> Reading(r))
    BY <1>2 DEF ReadHere, Reading
  <1>6. MembersTold' /\ FilesTold' /\ FormTold'
    <2>1. \A r \in {"members", "files", "form"} : r \in mixed' <=> r \in mixed
      BY <1>3
    <2>2. MembersTold' /\ FilesTold'
      BY <1>2, <1>4, <1>5, <2>1 DEF PanelsInv, MembersTold, FilesTold
    <2>3. FormTold'
      BY <1>1, <1>2, <1>4, <2>1 DEF PanelsInv, FormTold
    <2> QED
      BY <2>2, <2>3
  <1>7. MuteTold'
    BY <1>2, <1>3, <1>4, <1>5 DEF PanelsInv, MuteTold, Muting
  <1>8. mixed' \subseteq {"members", "mute", "files", "form"}
    BY <1>3 DEF PanelsInv, PanelsTypeOK
  <1> QED
    BY <1>2, <1>4, <1>6, <1>7, <1>8 DEF PanelsInv, PanelsTypeOK

LEMMA ButtonKept ==
  ASSUME PanelsInv,
         \/ \E op \in {"role", "kick"} : OnMember(op)
         \/ \E b \in BOOLEAN : SetMute(b) \/ AskDissolve(b)
         \/ LeaveGroup \/ SaveForm \/ RotateCode \/ Dissolve
  PROVE  PanelsInv'
  <1>1. ASSUME NEW b \in BOOLEAN, AskDissolve(b) PROVE PanelsInv'
    <2>1. shown' = [shown EXCEPT !.sure = b] /\ UNCHANGED <<at, panel, muted, reads, acts, mixed>>
      BY <1>1 DEF AskDissolve
    <2>2. /\ shown' \in Contents /\ shown'.of = shown.of /\ shown'.files = shown.files /\ shown'.mute = shown.mute
          /\ shown'.form = shown.form /\ shown'.code = shown.code
      BY <2>1 DEF Contents, PanelsInv, PanelsTypeOK
    <2> QED
      BY <2>1, <2>2 DEF PanelsInv, PanelsTypeOK, MembersTold, FilesTold, MuteTold, FormTold, ReadHere, Reading, Muting
  <1>2. at # NoGroup => at \in Groups /\ shown.form \in Groups
    BY ContentFields DEF PanelsInv, PanelsTypeOK, FormTold, MaybeGroup
  <1>3. shown.of # NoGroup => shown.of \in Groups
    BY ContentFields DEF PanelsInv, PanelsTypeOK, MaybeGroup
  <1>4. ASSUME NEW op \in {"role", "kick"}, OnMember(op) PROVE PanelsInv'
    BY <1>3, <1>4, WaitKept DEF OnMember, MembersOpen
  <1>5. CASE LeaveGroup
    BY <1>3, <1>5, WaitKept DEF LeaveGroup, MembersOpen
  <1>6. CASE SaveForm \/ RotateCode \/ Dissolve
    BY <1>2, <1>6, WaitKept DEF SaveForm, RotateCode, Dissolve, Editing
  <1> QED
    BY <1>1, <1>4, <1>5, <1>6, SetMuteKept

LEMMA ActEnds ==
  ASSUME PanelsInv, NEW a \in acts, Done(a) \/ NotDone(a)
  PROVE  PanelsInv'
  <1> USE PanelsAssumption DEF PanelsInv, PanelsTypeOK
  <1>0. acts' = {} /\ ~Muting' /\ a \in Acts /\ a.to \in Groups /\ a.here \in BOOLEAN /\ a.on \in BOOLEAN
        /\ (\A b \in acts : b = a)
    BY ActFields DEF Done, NotDone, Muting, FormTold
  <1>1. CASE NotDone(a)
    <2>1. /\ UNCHANGED <<at, panel, shown, muted, reads>>
          /\ mixed' = IF a.op = "mute" THEN mixed \union {"mute"} ELSE mixed
      BY <1>1 DEF NotDone
    <2>2. MembersTold' /\ FilesTold' /\ FormTold'
      BY <1>0, <2>1 DEF MembersTold, FilesTold, FormTold, ReadHere, Reading
    <2>3. MuteTold'
      BY <1>0, <2>1 DEF MuteTold, ReadHere, Reading, Muting
    <2>4. mixed' \subseteq {"members", "mute", "files", "form"}
      BY <2>1
    <2> QED
      BY <1>0, <2>1, <2>2, <2>3, <2>4
  <1>2. CASE Done(a) /\ a.op \in {"leave", "dissolve"}
    <2>1. at' = NoGroup /\ panel' = "none" /\ shown' = Empty /\ reads' = {} /\ mixed' = {} /\ muted' = muted
      BY <1>2 DEF Done
    <2>2. shown' \in Contents
      BY <2>1 DEF Empty, Contents, MaybeGroup
    <2> QED
      BY <1>0, <2>1, <2>2 DEF MembersTold, FilesTold, MuteTold, FormTold, MaybeGroup
  <1>3. CASE Done(a) /\ a.op \in {"role", "kick"} /\ a.here
    <2>1. /\ UNCHANGED <<at, panel, muted, shown>> /\ reads' = reads \union {<<r, a.to>> : r \in {"members"}}
          /\ mixed' = (mixed \ {"members"}) \union {r \in {"members"} : a.to # at \/ Reading(r) \/ (r = "mute" /\ Muting)}
      BY <1>3 DEF Done, Begin
    <2>2. at # NoGroup /\ ~Muting
      BY <1>0, <1>3 DEF FormTold, Muting
    <2>3. reads' = reads \union {<<"members", a.to>>} /\ mixed' \subseteq mixed \union {"members"}
          /\ (mixed' \ {"members"} = mixed \ {"members"}) /\ ("members" \notin mixed' => a.to = at /\ ~Reading("members"))
      BY <2>1
    <2>4. MembersTold'
      <3> SUFFICES ASSUME "members" \notin mixed' PROVE ReadHere("members")' /\ Reading("members")'
        BY DEF MembersTold
      <3>1. \A h \in Groups : <<"members", h>> \notin reads
        BY <2>3 DEF Reading
      <3> QED
        BY <1>0, <2>1, <2>3, <3>1 DEF ReadHere, Reading
    <2>5. \A r \in {"mute", "files"} : (ReadHere(r)' <=> ReadHere(r)) /\ (Reading(r)' <=> Reading(r)) /\ (r \in mixed' <=> r \in mixed)
      BY <2>1, <2>3 DEF ReadHere, Reading
    <2>6. FilesTold' /\ MuteTold'
      BY <1>0, <2>1, <2>2, <2>5 DEF FilesTold, MuteTold
    <2>7. "form" \in mixed' <=> "form" \in mixed
      BY <2>3
    <2>8. FormTold'
      BY <1>0, <2>1, <2>2, <2>7 DEF FormTold
    <2>9. reads' \subseteq {"members", "mute", "files"} \X Groups /\ mixed' \subseteq {"members", "mute", "files", "form"}
      BY <1>0, <2>3
    <2> QED
      BY <1>0, <2>1, <2>4, <2>6, <2>8, <2>9
  <1>4. CASE Done(a) /\ a.op \notin {"leave", "dissolve"} /\ ~(a.op \in {"role", "kick"} /\ a.here)
    <2>1. /\ UNCHANGED <<at, panel, reads, mixed>>
          /\ shown' = (IF a.op = "rotate" /\ a.here THEN [shown EXCEPT !.code = a.to] ELSE shown)
          /\ muted' = IF a.op = "mute" THEN (IF a.on THEN muted \union {a.to} ELSE muted \ {a.to}) ELSE muted
      BY <1>4 DEF Done
    <2>2. /\ shown' \in Contents /\ shown'.of = shown.of /\ shown'.files = shown.files /\ shown'.mute = shown.mute
          /\ shown'.form = shown.form /\ (shown'.code = shown.code \/ (shown'.code = a.to /\ a.here))
      <3>1. CASE shown' = shown
        BY <3>1
      <3>2. CASE shown' = [shown EXCEPT !.code = a.to] /\ a.here
        <4>1. a.to \in MaybeGroup
          BY <1>0 DEF MaybeGroup
        <4> QED
          BY <3>2, <4>1 DEF Contents
      <3> QED
        BY <2>1, <3>1, <3>2
    <2>3. \A r \in {"members", "mute", "files"} : (ReadHere(r)' <=> ReadHere(r)) /\ (Reading(r)' <=> Reading(r))
      BY <2>1 DEF ReadHere, Reading
    <2>4. MembersTold' /\ FilesTold'
      BY <2>1, <2>2, <2>3 DEF MembersTold, FilesTold
    <2>5. FormTold'
      BY <1>0, <2>1, <2>2 DEF FormTold
    <2>6. MuteTold'
      <3>1. CASE a.op = "mute"
        BY <1>0, <2>1, <2>2, <2>3, <3>1 DEF MuteTold, Muting
      <3>2. CASE a.op # "mute"
        <4>1. ~Muting /\ muted' = muted
          BY <1>0, <2>1, <3>2 DEF Muting
        <4> QED
          BY <1>0, <2>1, <2>2, <2>3, <4>1 DEF MuteTold
      <3> QED
        BY <3>1, <3>2
    <2>7. muted' \subseteq Groups
      BY <1>0, <2>1
    <2> QED
      BY <1>0, <2>1, <2>2, <2>4, <2>5, <2>6, <2>7
  <1> QED
    BY <1>1, <1>2, <1>3, <1>4

LEMMA PanelsInductive == PanelsSpec => []PanelsInv
  <1>1. PanelsInit => PanelsInv
    <2>1. Empty \in Contents
      BY PanelsAssumption DEF Empty, Contents, MaybeGroup
    <2> QED
      BY <2>1 DEF PanelsInit, PanelsInv, PanelsTypeOK, MembersTold, FilesTold, MuteTold, FormTold, MaybeGroup
  <1>2. PanelsInv /\ [PanelsNext]_panelsVars => PanelsInv'
    <2> SUFFICES ASSUME PanelsInv, [PanelsNext]_panelsVars PROVE PanelsInv'
      OBVIOUS
    <2>1. CASE UNCHANGED panelsVars
      BY <2>1 DEF panelsVars, PanelsInv, PanelsTypeOK, MembersTold, FilesTold, MuteTold, FormTold, ReadHere, Reading, Muting
    <2>2. ASSUME NEW r \in reads, ReadCame(r[1], r[2]) \/ ReadFailed(r[1], r[2]) PROVE PanelsInv'
      <3>1. <<r[1], r[2]>> \in reads
        BY <2>2 DEF ReadCame, ReadFailed
      <3> QED
        BY <2>2, <3>1, AnswerKept
    <2> QED
      BY <2>1, <2>2, SwitchKept, OpenPanelKept, CloseKept, ButtonKept, ActEnds DEF PanelsNext
  <1> QED
    BY <1>1, <1>2, PTL DEF PanelsSpec

\* The windows of a group, their reads and their buttons stay what they are
\* declared to be.
THEOREM PanelsTypes == PanelsSpec => []PanelsTypeOK
  <1>1. PanelsInv => PanelsTypeOK
    BY DEF PanelsInv
  <1> QED
    BY <1>1, PanelsInductive, PTL

\* For any groups and any order in which windows open and close and answers
\* come, a window at rest shows the members, the switch, the files and the
\* form of its own group, unless a read was overtaken or failed or the form
\* was carried over.
THEOREM PanelsAlwaysShowTheirGroup == PanelsSpec => []PanelsShowTheirGroup
  <1>1. PanelsInv => PanelsShowTheirGroup
    <2> SUFFICES ASSUME PanelsInv PROVE PanelsShowTheirGroup
      OBVIOUS
    <2>1. shown.mute \in BOOLEAN
      BY ContentFields DEF PanelsInv, PanelsTypeOK
    <2> QED
      BY <2>1 DEF PanelsInv, PanelsShowTheirGroup, MembersTold, FilesTold, MuteTold, FormTold
  <1> QED
    BY <1>1, PanelsInductive, PTL

-----------------------------------------------------------------------------
(* The list of messages on screen, and what fetches it. The lists of       *)
(* MessageSync are ordered by rank: how many come before. The first lemmas *)
(* say that the ranks of a finite set are the numbers below its size, so   *)
(* that a list of its elements has each of them once.                      *)

(* A strict order of a set, as a set of pairs.                             *)
StrictOrder(S, R) ==
  /\ \A x \in S : <<x, x>> \notin R
  /\ \A x, y, z \in S : <<x, y>> \in R /\ <<y, z>> \in R => <<x, z>> \in R
  /\ \A x, y \in S : x = y \/ <<x, y>> \in R \/ <<y, x>> \in R

Below(S, R, x) == {y \in S : <<y, x>> \in R}

(* Below an element of a finite set in order there are fewer than all, and *)
(* every number of elements below occurs once.                             *)
LEMMA Ranks ==
  ASSUME NEW S, IsFiniteSet(S), NEW R, StrictOrder(S, R)
  PROVE  /\ Cardinality(S) \in Nat
         /\ \A k \in 1..Cardinality(S) : \E x \in S : Cardinality(Below(S, R, x)) = k - 1
         /\ \A x, y \in S : Cardinality(Below(S, R, x)) = Cardinality(Below(S, R, y))
                              => x = y
         /\ \A x \in S : Cardinality(Below(S, R, x)) \in 0..(Cardinality(S) - 1)
<1> DEFINE below(x) == {y \in S : <<y, x>> \in R}
           n == Cardinality(S)
           rank == [x \in S |-> Cardinality(below(x)) + 1]
<1>1. n \in Nat
  BY FS_CardinalityType
<1>2. \A x \in S : IsFiniteSet(below(x)) /\ Cardinality(below(x)) \in 0..(n - 1)
  <2> SUFFICES ASSUME NEW x \in S
               PROVE  IsFiniteSet(below(x)) /\ Cardinality(below(x)) \in 0..(n - 1)
    OBVIOUS
  <2>1. IsFiniteSet(S \ {x}) /\ Cardinality(S \ {x}) = n - 1
    BY FS_RemoveElement
  <2>2. below(x) \in SUBSET (S \ {x})
    BY DEF StrictOrder
  <2> HIDE DEF below, n
  <2>3. IsFiniteSet(below(x)) /\ Cardinality(below(x)) <= Cardinality(S \ {x})
    BY <2>1, <2>2, FS_Subset
  <2>4. Cardinality(below(x)) \in Nat
    BY <2>3, FS_CardinalityType
  <2> QED
    BY <1>1, <2>1, <2>3, <2>4
<1>3. \A x, y \in S : <<x, y>> \in R => Cardinality(below(x)) < Cardinality(below(y))
  <2> SUFFICES ASSUME NEW x \in S, NEW y \in S, <<x, y>> \in R
               PROVE  Cardinality(below(x)) < Cardinality(below(y))
    OBVIOUS
  <2>1. below(x) \in SUBSET below(y) /\ x \in below(y) /\ x \notin below(x)
    BY DEF StrictOrder
  <2>2. IsFiniteSet(below(y)) /\ Cardinality(below(x)) \in Int /\ Cardinality(below(y)) \in Int
    BY <1>1, <1>2
  <2>3. Cardinality(below(x)) <= Cardinality(below(y)) /\ (Cardinality(below(y)) = Cardinality(below(x)) => below(y) = below(x))
    BY <2>1, <2>2, FS_Subset
  <2>4. below(y) # below(x)
    BY <2>1
  <2> HIDE DEF below
  <2> QED
    BY <2>2, <2>3, <2>4
<1>4. \A x, y \in S : Cardinality(below(x)) = Cardinality(below(y)) => x = y
  <2> SUFFICES ASSUME NEW x \in S, NEW y \in S, Cardinality(below(x)) = Cardinality(below(y)), x # y
               PROVE  FALSE
    OBVIOUS
  <2>1. <<x, y>> \in R \/ <<y, x>> \in R
    BY DEF StrictOrder
  <2>2. Cardinality(below(x)) \in Int /\ Cardinality(below(y)) \in Int
    BY <1>1, <1>2
  <2> HIDE DEF below
  <2> QED
    BY <1>3, <2>1, <2>2
<1> HIDE DEF below
<1>5. rank \in [S -> 1..n]
  BY <1>1, <1>2
<1>6. rank \in Injection(S, 1..n)
  <2>1. \A x, y \in S : rank[x] = rank[y] => x = y
    BY <1>1, <1>2, <1>4
  <2> HIDE DEF rank
  <2> QED
    BY <1>5, <2>1 DEF Injection, IsInjective
<1>7. IsFiniteSet(1..n) /\ Cardinality(1..n) = n
  <2>1. IsFiniteSet(1..n) /\ Cardinality(1..n) = IF 1 > n THEN 0 ELSE n - 1 + 1
    BY <1>1, FS_Interval
  <2> QED
    BY <1>1, <2>1
<1>8. rank \in Surjection(S, 1..n)
  BY <1>6, <1>7, FS_Injection
<1>9. \A k \in 1..n : \E x \in S : Cardinality(below(x)) = k - 1
  <2>1. \A k \in 1..n : \E x \in S : rank[x] = k
    BY <1>8 DEF Surjection
  <2> QED
    BY <1>1, <1>2, <2>1
<1>10. \A x : below(x) = Below(S, R, x)
  BY DEF below, Below
<1> QED
  BY <1>1, <1>2, <1>4, <1>9, <1>10

(* Ordered lists every element of the set once.                            *)
LEMMA OrderedLists ==
  ASSUME NEW S, IsFiniteSet(S), NEW R, StrictOrder(S, R)
  PROVE  /\ Cardinality(S) \in Nat
         /\ Ordered(S, R) \in [1..Cardinality(S) -> S]
         /\ \A i, j \in 1..Cardinality(S) : Ordered(S, R)[i] = Ordered(S, R)[j] => i = j
         /\ \A x \in S : \E k \in 1..Cardinality(S) : Ordered(S, R)[k] = x
<1> DEFINE count(x) == Cardinality(Below(S, R, x))
           n == Cardinality(S)
           f == Ordered(S, R)
<1>1. /\ n \in Nat
      /\ \A k \in 1..n : \E x \in S : count(x) = k - 1
      /\ \A x, y \in S : count(x) = count(y) => x = y
      /\ \A x \in S : count(x) \in 0..(n - 1)
  BY Ranks
<1>2. f = [k \in 1..n |-> CHOOSE x \in S : count(x) = k - 1]
  BY DEF Ordered, Below
<1> HIDE DEF count, f, n
<1>3. \A k \in 1..n : f[k] \in S /\ count(f[k]) = k - 1
  BY <1>1, <1>2
<1>4. f \in [1..n -> S]
  BY <1>2, <1>3
<1>5. \A i, j \in 1..n : f[i] = f[j] => i = j
  BY <1>1, <1>3
<1>6. ASSUME NEW x \in S
      PROVE  \E k \in 1..n : f[k] = x
  <2>1. count(x) + 1 \in 1..n /\ (count(x) + 1) - 1 = count(x)
    BY <1>1
  <2>2. f[count(x) + 1] = x
    BY <1>1, <1>3, <2>1
  <2> QED
    BY <2>1, <2>2
<1> QED
  BY <1>1, <1>4, <1>5, <1>6 DEF f, n

(* Of finitely many elements in order, one is the last.                    *)
LEMMA LastOf ==
  ASSUME NEW S, IsFiniteSet(S), S # {}, NEW R, StrictOrder(S, R)
  PROVE  \E x \in S : \A y \in S : y # x => <<y, x>> \in R
<1> DEFINE below(x) == Below(S, R, x)
           n == Cardinality(S)
<1>1. n \in Nat /\ \A k \in 1..n : \E x \in S : Cardinality(below(x)) = k - 1
  BY Ranks
<1>2. n # 0
  BY FS_EmptySet
<1> HIDE DEF n
<1>3. n \in 1..n
  BY <1>1, <1>2
<1>4. PICK x \in S : Cardinality(below(x)) = n - 1
  <2> HIDE DEF below
  <2> QED
    BY <1>1, <1>3
<1>5. IsFiniteSet(S \ {x}) /\ Cardinality(S \ {x}) = n - 1
  BY FS_RemoveElement DEF n
<1>6. below(x) \in SUBSET (S \ {x})
  BY DEF StrictOrder, Below
<1>7. below(x) = S \ {x}
  <2> HIDE DEF below
  <2> QED
    BY <1>4, <1>5, <1>6, FS_Subset
<1> QED
  BY <1>7 DEF Below

(* The largest of finitely many numbers is one of them.                    *)
LEMMA MaxOf ==
  ASSUME NEW S \in SUBSET Nat, IsFiniteSet(S), S # {}
  PROVE  Max(S) \in S /\ \A x \in S : x <= Max(S)
<1> DEFINE R == {p \in S \X S : p[1] < p[2]}
<1>1. \A x, y \in S : <<x, y>> \in R <=> x < y
  OBVIOUS
<1> HIDE DEF R
<1>2. StrictOrder(S, R)
  BY <1>1 DEF StrictOrder
<1>3. PICK x \in S : \A y \in S : y # x => <<y, x>> \in R
  BY <1>2, LastOf
<1>4. \A y \in S : y # x => y < x
  BY <1>1, <1>3
<1>5. \A y \in S : y \in Nat /\ x \in Nat
  OBVIOUS
<1>6. \A y \in S : x >= y
  BY <1>4, <1>5
<1> QED
  BY <1>5, <1>6 DEF Max

(* The smaller of two numbers.                                             *)
LEMMA MinOfTwo ==
  ASSUME NEW a \in Int, NEW b \in Int
  PROVE  Min({a, b}) = IF a <= b THEN a ELSE b
  BY DEF Min

(* The larger of two numbers.                                              *)
LEMMA MaxOfTwo ==
  ASSUME NEW a \in Int, NEW b \in Int
  PROVE  Max({a, b}) = IF a <= b THEN b ELSE a
  BY DEF Max

(* No two rows of a list are of the same message.                          *)
Distinct(rows) == \A i, j \in DOMAIN rows : rows[i].seq = rows[j].seq => i = j

(* What is known of every list.                                            *)
LEMMA SeqFacts ==
  ASSUME NEW T, NEW q \in Seq(T)
  PROVE  /\ Len(q) \in Nat /\ DOMAIN q = 1..Len(q) /\ \A i \in DOMAIN q : q[i] \in T
         /\ IsFiniteSet(DOMAIN q)
  BY FS_Interval, LenProperties

(* A function over 1..n is a list.                                         *)
LEMMA SeqMade ==
  ASSUME NEW T, NEW n \in Nat, NEW f \in [1..n -> T]
  PROVE  f \in Seq(T) /\ Len(f) = n /\ DOMAIN f = 1..n
<1>1. f \in Seq(T)
  BY SeqDef
<1> QED
  BY <1>1, LenProperties

(* The rows at some places.                                                *)
RowsIn(rows, I) == {rows[i] : i \in I}

(* RowsAt picks places of a list, each once.                               *)
LEMMA RowsPicked ==
  ASSUME NEW T, NEW rows \in Seq(T), NEW I \in SUBSET DOMAIN rows, NEW R, StrictOrder(I, R)
  PROVE  /\ RowsAt(rows, I, R) \in Seq(T)
         /\ Range(RowsAt(rows, I, R)) = RowsIn(rows, I)
         /\ (\A i, j \in I : rows[i].seq = rows[j].seq => i = j) => Distinct(RowsAt(rows, I, R))
<1> DEFINE place == Ordered(I, R)
           n == Cardinality(I)
           q == RowsAt(rows, I, R)
<1>1. IsFiniteSet(I) /\ \A i \in I : rows[i] \in T
  BY SeqFacts, FS_Subset
<1>2. /\ n \in Nat /\ place \in [1..n -> I]
      /\ \A i, j \in 1..n : place[i] = place[j] => i = j
      /\ \A x \in I : \E k \in 1..n : place[k] = x
  BY <1>1, OrderedLists
<1>3. q = [k \in 1..n |-> rows[place[k]]]
  BY <1>2 DEF RowsAt
<1> HIDE DEF place, n, q
<1>4. q \in [1..n -> T]
  BY <1>1, <1>2, <1>3
<1>5. q \in Seq(T) /\ DOMAIN q = 1..n
  BY <1>2, <1>4, SeqMade
<1>6. Range(q) = RowsIn(rows, I)
  <2>1. \A x \in Range(q) : x \in RowsIn(rows, I)
    BY <1>2, <1>3, <1>5 DEF Range, RowsIn
  <2>2. ASSUME NEW x \in RowsIn(rows, I)
        PROVE  x \in Range(q)
    <3>1. PICK i \in I : x = rows[i]
      BY <2>2 DEF RowsIn
    <3>2. PICK k \in 1..n : place[k] = i
      BY <1>2
    <3>3. q[k] = x
      BY <1>3, <3>1, <3>2
    <3> QED
      BY <1>5, <3>3 DEF Range
  <2> QED
    BY <2>1, <2>2
<1>7. ASSUME \A i, j \in I : rows[i].seq = rows[j].seq => i = j
      PROVE  \A i, j \in 1..n : q[i].seq = q[j].seq => i = j
  BY <1>2, <1>3, <1>7
<1> QED
  BY <1>5, <1>6, <1>7 DEF q, Distinct

(* Unknown keeps the rows that are not known.                              *)
LEMMA UnknownKept ==
  ASSUME NEW T, NEW rows \in Seq(T), NEW known
  PROVE  /\ Unknown(rows, known) \in Seq(T)
         /\ SeqsOf(Unknown(rows, known)) = SeqsOf(rows) \ known
         /\ Range(Unknown(rows, known)) \subseteq Range(rows)
         /\ Distinct(rows) => Distinct(Unknown(rows, known))
<1> DEFINE I == {i \in DOMAIN rows : rows[i].seq \notin known}
           R == {p \in I \X I : p[1] < p[2]}
           q == RowsAt(rows, I, R)
<1>1. I \in SUBSET DOMAIN rows /\ I \in SUBSET Nat
  BY SeqFacts
<1>2. StrictOrder(I, R)
  <2>1. \A x, y \in I : <<x, y>> \in R <=> x < y
    OBVIOUS
  <2> HIDE DEF R, I
  <2> QED
    BY <1>1, <2>1 DEF StrictOrder
<1>3. q = Unknown(rows, known)
  BY DEF Unknown
<1>4. /\ q \in Seq(T) /\ Range(q) = RowsIn(rows, I)
      /\ (\A i, j \in I : rows[i].seq = rows[j].seq => i = j) => Distinct(q)
  <2> HIDE DEF R, I
  <2> QED
    BY <1>1, <1>2, RowsPicked
<1> HIDE DEF q
<1>5. SeqsOf(q) = SeqsOf(rows) \ known
  <2>1. SeqsOf(q) = {r.seq : r \in Range(q)}
    BY DEF SeqsOf, Range
  <2>2. {r.seq : r \in RowsIn(rows, I)} = SeqsOf(rows) \ known
    BY DEF SeqsOf, RowsIn
  <2> HIDE DEF I
  <2> QED
    BY <1>4, <2>1, <2>2
<1>6. Distinct(rows) => Distinct(q)
  BY <1>1, <1>4 DEF Distinct
<1>7. Range(q) \subseteq Range(rows)
  BY <1>4 DEF Range, RowsIn
<1> QED
  BY <1>3, <1>4, <1>5, <1>6, <1>7

(* BySeq loses no row and adds none.                                       *)
LEMMA SortKeeps ==
  ASSUME NEW T, \A r \in T : r.seq \in Nat, NEW rows \in Seq(T)
  PROVE  /\ BySeq(rows) \in Seq(T)
         /\ SeqsOf(BySeq(rows)) = SeqsOf(rows)
         /\ Range(BySeq(rows)) = Range(rows)
         /\ Distinct(rows) => Distinct(BySeq(rows))
<1> DEFINE I == DOMAIN rows
           Before(i, j) == rows[i].seq < rows[j].seq \/ (rows[i].seq = rows[j].seq /\ i < j)
           R == {p \in I \X I : Before(p[1], p[2])}
           q == BySeq(rows)
<1>1. I \in SUBSET Nat /\ \A i \in I : rows[i].seq \in Nat
  BY SeqFacts
<1>2. StrictOrder(I, R)
  <2>1. \A x, y \in I : <<x, y>> \in R <=> rows[x].seq < rows[y].seq \/ (rows[x].seq = rows[y].seq /\ x < y)
    OBVIOUS
  <2> DEFINE num(i) == rows[i].seq
  <2>2. /\ \A x, y \in I : <<x, y>> \in R <=> num(x) < num(y) \/ (num(x) = num(y) /\ x < y)
        /\ \A x \in I : x \in Nat /\ num(x) \in Nat
    BY <1>1, <2>1
  <2> HIDE DEF R, I, num
  <2> QED
    BY <2>2 DEF StrictOrder
<1>3. q = RowsAt(rows, I, R)
  BY DEF BySeq
<1>4. /\ q \in Seq(T) /\ Range(q) = RowsIn(rows, I)
      /\ (\A i, j \in I : rows[i].seq = rows[j].seq => i = j) => Distinct(q)
  <2>1. I \in SUBSET DOMAIN rows
    OBVIOUS
  <2> HIDE DEF R, I, q
  <2> QED
    BY <1>2, <1>3, <2>1, RowsPicked
<1> HIDE DEF q
<1>5. SeqsOf(q) = SeqsOf(rows)
  <2>1. SeqsOf(q) = {r.seq : r \in Range(q)}
    BY DEF SeqsOf, Range
  <2>2. SeqsOf(rows) = {r.seq : r \in RowsIn(rows, I)}
    BY DEF SeqsOf, RowsIn
  <2> HIDE DEF I
  <2> QED
    BY <1>4, <2>1, <2>2
<1>6. Distinct(rows) => Distinct(q)
  BY <1>4 DEF Distinct
<1>7. Range(q) = Range(rows)
  BY <1>4 DEF Range, RowsIn
<1> QED
  BY <1>4, <1>5, <1>6, <1>7 DEF q

(* What two lists are together.                                            *)
LEMMA Joined ==
  ASSUME NEW T, NEW s \in Seq(T), NEW t \in Seq(T)
  PROVE  /\ s \o t \in Seq(T)
         /\ SeqsOf(s \o t) = SeqsOf(s) \cup SeqsOf(t)
         /\ Range(s \o t) = Range(s) \cup Range(t)
         /\ Distinct(s) /\ Distinct(t) /\ SeqsOf(s) \cap SeqsOf(t) = {} => Distinct(s \o t)
<1> DEFINE q == s \o t
<1>1. /\ q \in Seq(T) /\ Len(q) = Len(s) + Len(t) /\ Len(s) \in Nat /\ Len(t) \in Nat
      /\ DOMAIN q = 1..Len(q) /\ DOMAIN s = 1..Len(s) /\ DOMAIN t = 1..Len(t)
  BY SeqFacts, ConcatProperties
<1>2. \A i \in 1..Len(s) : i \in DOMAIN q /\ q[i] = s[i]
  BY <1>1, ConcatProperties
<1>3. \A i \in 1..Len(t) : Len(s) + i \in DOMAIN q /\ q[Len(s) + i] = t[i]
  BY <1>1
<1>4. \A k \in DOMAIN q : \/ k \in DOMAIN s /\ q[k] = s[k]
                          \/ k - Len(s) \in DOMAIN t /\ q[k] = t[k - Len(s)]
  BY <1>1
<1> HIDE DEF q
<1>5. Range(q) = Range(s) \cup Range(t)
  <2>1. \A x \in Range(q) : x \in Range(s) \cup Range(t)
    BY <1>4 DEF Range
  <2>2. \A x \in Range(s) \cup Range(t) : x \in Range(q)
    BY <1>1, <1>2, <1>3 DEF Range
  <2> QED
    BY <2>1, <2>2
<1>6. SeqsOf(q) = SeqsOf(s) \cup SeqsOf(t)
  <2>1. \A x \in SeqsOf(q) : x \in SeqsOf(s) \cup SeqsOf(t)
    BY <1>4 DEF SeqsOf
  <2>2. \A x \in SeqsOf(s) : x \in SeqsOf(q)
    BY <1>1, <1>2 DEF SeqsOf
  <2>3. ASSUME NEW x \in SeqsOf(t)
        PROVE  x \in SeqsOf(q)
    <3>1. PICK i \in 1..Len(t) : x = t[i].seq
      BY <1>1, <2>3 DEF SeqsOf
    <3>2. Len(s) + i \in DOMAIN q /\ q[Len(s) + i].seq = x
      BY <1>3, <3>1
    <3> QED
      BY <3>2 DEF SeqsOf
  <2> QED
    BY <2>1, <2>2, <2>3
<1>7. ASSUME Distinct(s), Distinct(t), SeqsOf(s) \cap SeqsOf(t) = {},
             NEW i \in DOMAIN q, NEW j \in DOMAIN q, q[i].seq = q[j].seq
      PROVE  i = j
  <2>1. CASE i \in DOMAIN s /\ j \in DOMAIN s
    BY <1>1, <1>2, <1>7, <2>1 DEF Distinct
  <2>2. CASE i \in DOMAIN s /\ j \notin DOMAIN s
    BY <1>1, <1>2, <1>4, <1>7, <2>2 DEF SeqsOf
  <2>3. CASE i \notin DOMAIN s /\ j \in DOMAIN s
    BY <1>1, <1>2, <1>4, <1>7, <2>3 DEF SeqsOf
  <2>4. CASE i \notin DOMAIN s /\ j \notin DOMAIN s
    <3>1. i - Len(s) = j - Len(s)
      BY <1>4, <1>7, <2>4 DEF Distinct
    <3> QED
      BY <1>1, <3>1
  <2> QED
    BY <2>1, <2>2, <2>3, <2>4
<1>8. Distinct(s) /\ Distinct(t) /\ SeqsOf(s) \cap SeqsOf(t) = {} => Distinct(q)
  BY <1>7 DEF Distinct
<1> QED
  BY <1>1, <1>5, <1>6, <1>8 DEF q

(* SeqsOf is a finite set of numbers.                                      *)
LEMMA SeqsFinite ==
  ASSUME NEW T, \A r \in T : r.seq \in Nat, NEW rows \in Seq(T)
  PROVE  SeqsOf(rows) \in SUBSET Nat /\ IsFiniteSet(SeqsOf(rows))
<1> DEFINE f == [i \in DOMAIN rows |-> rows[i].seq]
<1>1. IsFiniteSet(DOMAIN rows) /\ \A i \in DOMAIN rows : rows[i].seq \in Nat
  BY SeqFacts
<1>2. f \in Surjection(DOMAIN rows, SeqsOf(rows))
  BY DEF SeqsOf, Surjection
<1> HIDE DEF f
<1> QED
  BY <1>1, <1>2, FS_Surjection DEF SeqsOf

-----------------------------------------------------------------------------
(* What the client, the archive and the server list.                       *)

(* What depends on the client alone does not change with the step.         *)
LEMMA SameClient ==
  ASSUME client' = client
  PROVE  Seqs' = Seqs /\ Versions' = Versions /\ Row' = Row /\ Event' = Event /\ Archive' = Archive
  BY DEF Seqs, Versions, Row, Event, Archive

(* The numbers and versions of the client that runs.                       *)
LEMMA ClientKnown ==
  ASSUME client \in Clients
  PROVE  /\ client.sent \in Nat /\ client.versions \in Nat \ {0} /\ Archive \in BOOLEAN
         /\ \A r \in Row : r.seq \in Seqs /\ r.ver \in Versions /\ r.seq \in Nat /\ r.ver \in Nat
         /\ \A n \in Seqs, v \in Versions : [seq |-> n, ver |-> v] \in Row
         /\ Seqs \subseteq Nat /\ Versions \subseteq Nat /\ 1 \in Versions
<1>1. client \in Client
  BY SyncAssumption
<1>2. client.sent \in Nat /\ client.versions \in Nat \ {0} /\ client.archive \in BOOLEAN
  BY <1>1 DEF Client
<1> QED
  BY <1>2 DEF Archive, Row, Seqs, Versions

(* The archive keeps versions.                                             *)
LEMMA ArchivedTyped ==
  ASSUME client \in Clients, NEW old \in [Seqs -> 0..client.versions], NEW rows \in Seq(Row)
  PROVE  Archived(old, rows) \in [Seqs -> 0..client.versions]
<1> SUFFICES ASSUME NEW n \in Seqs, n \in SeqsOf(rows)
             PROVE  VersionIn(rows, n) \in 0..client.versions
  BY ClientKnown DEF Archived
<1>1. \E i \in DOMAIN rows : rows[i].seq = n
  BY DEF SeqsOf
<1>2. VersionIn(rows, n) \in {rows[i].ver : i \in DOMAIN rows}
  BY <1>1 DEF VersionIn
<1>3. \A i \in DOMAIN rows : rows[i] \in Row
  BY SeqFacts
<1> QED
  BY <1>2, <1>3, ClientKnown DEF Versions

(* What the archive answers.                                               *)
LEMMA KeptListed ==
  ASSUME client \in Clients, kept \in [Seqs -> 0..client.versions]
  PROVE  KeptRows \in Seq(Row) /\ Distinct(KeptRows)
<1> DEFINE K == {n \in Seqs : kept[n] > 0}
           R == {p \in K \X K : p[1] > p[2]}
           place == Ordered(K, R)
           n == Cardinality(K)
           m == Min({ArchiveSize, n})
<1>1. K \in SUBSET Seqs /\ IsFiniteSet(K) /\ K \subseteq Nat
  <2>1. IsFiniteSet(Seqs) /\ Seqs \subseteq Nat
    <3>1. 1 \in Int /\ client.sent \in Int
      BY ClientKnown
    <3>2. IsFiniteSet(1..client.sent)
      BY <3>1, FS_Interval
    <3> QED
      BY <3>2, ClientKnown DEF Seqs
  <2> QED
    BY <2>1, FS_Subset
<1>2. StrictOrder(K, R)
  <2>1. \A x, y \in K : <<x, y>> \in R <=> x > y
    OBVIOUS
  <2> HIDE DEF R, K
  <2> QED
    BY <1>1, <2>1 DEF StrictOrder
<1>3. \A x \in K : x \in Seqs /\ kept[x] \in Versions
  BY ClientKnown DEF Versions
<1>4. KeptRows = [k \in 1..m |-> [seq |-> place[k], ver |-> kept[place[k]]]]
  BY DEF KeptRows
<1> HIDE DEF R, K
<1>5. /\ n \in Nat /\ place \in [1..n -> K]
      /\ \A i, j \in 1..n : place[i] = place[j] => i = j
  BY <1>1, <1>2, OrderedLists
<1> HIDE DEF place, n
<1>6. m \in Nat /\ m <= n
  <2>1. ArchiveSize \in Nat
    BY SyncAssumption
  <2> QED
    BY <1>5, <2>1, MinOfTwo
<1> HIDE DEF m
<1>7. KeptRows \in [1..m -> Row]
  BY <1>3, <1>4, <1>5, <1>6, ClientKnown
<1>8. KeptRows \in Seq(Row) /\ DOMAIN KeptRows = 1..m
  BY <1>6, <1>7, SeqMade
<1> QED
  BY <1>4, <1>5, <1>6, <1>8 DEF Distinct

(* What the server lists.                                                  *)
LEMMA ListedAfter ==
  ASSUME client \in Clients, log \in Seq(Versions), Len(log) <= client.sent,
         NEW n \in Nat, n <= Len(log), NEW limit \in Nat
  PROVE  /\ ListAfter(n, limit) \in Seq(Row) /\ Distinct(ListAfter(n, limit))
         /\ SeqsOf(ListAfter(n, limit)) = (n + 1)..(n + Len(ListAfter(n, limit)))
<1> DEFINE m == Min({limit, Len(log) - n})
           q == ListAfter(n, limit)
<1>1. Len(log) \in Nat /\ \A i \in 1..Len(log) : log[i] \in Versions
  BY SeqFacts
<1>2. m \in Nat /\ m <= Len(log) - n
  BY <1>1, MinOfTwo
<1>3. q = [i \in 1..m |-> [seq |-> n + i, ver |-> log[n + i]]]
  BY DEF ListAfter
<1> HIDE DEF m, q
<1>4. \A i \in 1..m : n + i \in 1..Len(log) /\ n + i \in Seqs
  BY <1>1, <1>2, ClientKnown DEF Seqs
<1>5. q \in [1..m -> Row]
  BY <1>1, <1>3, <1>4, ClientKnown
<1>6. q \in Seq(Row) /\ Len(q) = m /\ DOMAIN q = 1..m
  BY <1>2, <1>5, SeqMade
<1>7. Distinct(q)
  BY <1>2, <1>3, <1>6 DEF Distinct
<1>8. SeqsOf(q) = (n + 1)..(n + m)
  <2>1. SeqsOf(q) = {n + i : i \in 1..m}
    BY <1>3, <1>6 DEF SeqsOf
  <2>2. \A x \in (n + 1)..(n + m) : x - n \in 1..m /\ x = n + (x - n)
    BY <1>2
  <2>3. \A i \in 1..m : n + i \in (n + 1)..(n + m)
    BY <1>2
  <2> QED
    BY <2>1, <2>2, <2>3
<1> QED
  BY <1>6, <1>7, <1>8 DEF q

(* The most recent page: all there is, unless it is full.                  *)
LEMMA ListedRecent ==
  ASSUME client \in Clients, log \in Seq(Versions), Len(log) <= client.sent, NEW limit \in Nat
  PROVE  /\ ListRecent(limit) \in Seq(Row) /\ Distinct(ListRecent(limit))
         /\ \/ Len(ListRecent(limit)) = limit
            \/ SeqsOf(ListRecent(limit)) = 1..Len(ListRecent(limit))
<1> DEFINE m == Min({limit, Len(log)})
           q == ListRecent(limit)
<1>1. Len(log) \in Nat /\ \A i \in 1..Len(log) : log[i] \in Versions
  BY SeqFacts
<1>2. m \in Nat /\ m <= Len(log) /\ (m # limit => m = Len(log))
  BY <1>1, MinOfTwo
<1>3. q = [i \in 1..m |-> [seq |-> Len(log) + 1 - i, ver |-> log[Len(log) + 1 - i]]]
  BY DEF ListRecent
<1> HIDE DEF m, q
<1>4. \A i \in 1..m : Len(log) + 1 - i \in 1..Len(log) /\ Len(log) + 1 - i \in Seqs
  BY <1>1, <1>2, ClientKnown DEF Seqs
<1>5. q \in [1..m -> Row]
  BY <1>1, <1>3, <1>4, ClientKnown
<1>6. q \in Seq(Row) /\ Len(q) = m /\ DOMAIN q = 1..m
  BY <1>2, <1>5, SeqMade
<1>7. Distinct(q)
  BY <1>1, <1>2, <1>3, <1>6 DEF Distinct
<1>8. ASSUME m # limit
      PROVE  SeqsOf(q) = 1..m
  <2>1. SeqsOf(q) = {Len(log) + 1 - i : i \in 1..m}
    BY <1>3, <1>6 DEF SeqsOf
  <2>2. \A x \in 1..m : m + 1 - x \in 1..m /\ x = m + 1 - (m + 1 - x)
    BY <1>2
  <2> QED
    BY <1>1, <1>2, <1>8, <2>1, <2>2
<1> QED
  BY <1>6, <1>7, <1>8 DEF q

-----------------------------------------------------------------------------
(* What the operations of the store do to the list, the mark and the       *)
(* archive.                                                                *)

StoreOK == /\ lastSeq \in 0..client.sent /\ msgs \in Seq(Row)
           /\ kept \in [Seqs -> 0..client.versions]

(* Who was on screen is there as it was, and who comes is new.             *)
Stays == \A i \in DOMAIN msgs, j \in DOMAIN msgs' :
           msgs[i].seq = msgs'[j].seq => msgs'[j] = msgs[i]

(* A list that has the rows of another, and new ones, has them unchanged.  *)
LEMMA SameRow ==
  ASSUME NEW T, NEW q \in Seq(T), NEW s \in Seq(T), Distinct(q), Distinct(s),
         \A r \in Range(s) : r \in Range(q) \/ r.seq \notin SeqsOf(q)
  PROVE  \A i \in DOMAIN q, j \in DOMAIN s : q[i].seq = s[j].seq => s[j] = q[i]
<1> SUFFICES ASSUME NEW i \in DOMAIN q, NEW j \in DOMAIN s, q[i].seq = s[j].seq
             PROVE  s[j] = q[i]
  OBVIOUS
<1>1. s[j] \in Range(s) /\ s[j].seq \in SeqsOf(q)
  BY DEF Range, SeqsOf
<1>2. s[j] \in Range(q)
  BY <1>1
<1>3. PICK k \in DOMAIN q : q[k] = s[j]
  BY <1>2 DEF Range
<1> QED
  BY <1>3 DEF Distinct

(* appendMessage for the rows of one answer: each comes once, after those  *)
(* the list has, which stay; the mark moves up to the newest.              *)
LEMMA AppendDoes ==
  ASSUME client \in Clients, client' = client, StoreOK, Distinct(msgs),
         NEW rows \in Seq(Row), Distinct(rows), AppendRows(rows)
  PROVE  /\ StoreOK' /\ Distinct(msgs') /\ Stays
         /\ SeqsOf(msgs') = SeqsOf(msgs) \cup SeqsOf(rows)
         /\ lastSeq <= lastSeq' /\ lastSeq' \in {lastSeq} \cup SeqsOf(rows)
         /\ \A n \in SeqsOf(rows) : n <= lastSeq'
<1> DEFINE u == Unknown(rows, SeqsOf(msgs))
<1>1. /\ u \in Seq(Row) /\ SeqsOf(u) = SeqsOf(rows) \ SeqsOf(msgs) /\ Distinct(u)
      /\ msgs' = msgs \o u /\ msgs \in Seq(Row)
  BY UnknownKept DEF StoreOK, AppendRows
<1> HIDE DEF u
<1>2. /\ msgs' \in Seq(Row) /\ SeqsOf(msgs') = SeqsOf(msgs) \cup SeqsOf(u)
      /\ Range(msgs') = Range(msgs) \cup Range(u) /\ Distinct(msgs')
  BY <1>1, Joined
<1>3. Stays
  <2>1. \A r \in Range(u) : r.seq \notin SeqsOf(msgs)
    BY <1>1 DEF Range, SeqsOf
  <2>2. \A r \in Range(msgs') : r \in Range(msgs) \/ r.seq \notin SeqsOf(msgs)
    BY <1>2, <2>1
  <2>3. msgs \in Seq(Row) /\ msgs' \in Seq(Row) /\ Distinct(msgs')
    BY <1>1, <1>2
  <2> QED
    BY <2>2, <2>3, SameRow DEF Stays
<1>4. /\ SeqsOf(rows) \in SUBSET Nat /\ IsFiniteSet(SeqsOf(rows)) /\ SeqsOf(rows) \subseteq Seqs
      /\ Seqs = 1..client.sent /\ client.sent \in Nat
  <2>1. \A r \in Row : r.seq \in Nat
    BY ClientKnown
  <2>2. \A i \in DOMAIN rows : rows[i].seq \in Seqs
    BY SeqFacts, ClientKnown
  <2> QED
    BY <2>1, <2>2, SeqsFinite, ClientKnown DEF SeqsOf, Seqs
<1> DEFINE S == {lastSeq} \cup SeqsOf(rows)
<1>5. lastSeq \in Nat /\ S \in SUBSET Nat /\ IsFiniteSet(S) /\ S # {}
  <2>1. lastSeq \in Nat
    BY <1>4 DEF StoreOK
  <2>2. S = SeqsOf(rows) \cup {lastSeq}
    OBVIOUS
  <2>3. IsFiniteSet(S)
    BY <1>4, <2>2, FS_AddElement
  <2> QED
    BY <1>4, <2>1, <2>3
<1>6. lastSeq' = Max(S)
  BY DEF AppendRows
<1>7. lastSeq' \in S /\ \A x \in S : x <= lastSeq'
  <2> HIDE DEF S
  <2> QED
    BY <1>5, <1>6, MaxOf
<1>8. lastSeq' \in 0..client.sent
  BY <1>4, <1>7 DEF StoreOK
<1>9. kept' \in [Seqs -> 0..client.versions]
  BY ArchivedTyped DEF AppendRows, StoreOK
<1>10. StoreOK'
  BY <1>2, <1>8, <1>9, SameClient DEF StoreOK
<1> QED
  BY <1>1, <1>2, <1>3, <1>7, <1>10

(* replaceMessage: no message comes or goes, and at most one copy changes. *)
LEMMA ReplaceDoes ==
  ASSUME client \in Clients, client' = client, StoreOK, Distinct(msgs),
         NEW got \in Row, Replace(got)
  PROVE  /\ StoreOK' /\ Distinct(msgs') /\ lastSeq' = lastSeq
         /\ SeqsOf(msgs') = SeqsOf(msgs) /\ DOMAIN msgs' = DOMAIN msgs
         /\ \A i \in DOMAIN msgs : msgs'[i].seq = msgs[i].seq /\ msgs'[i] \in {msgs[i], got}
<1>1. /\ msgs \in Seq(Row) /\ Len(msgs) \in Nat /\ DOMAIN msgs = 1..Len(msgs)
      /\ \A i \in DOMAIN msgs : msgs[i] \in Row
  BY SeqFacts DEF StoreOK
<1>2. msgs' = [i \in 1..Len(msgs) |-> IF msgs[i].seq = got.seq THEN got ELSE msgs[i]]
  BY <1>1 DEF Replace
<1>3. msgs' \in [1..Len(msgs) -> Row]
  BY <1>1, <1>2
<1>4. msgs' \in Seq(Row) /\ DOMAIN msgs' = DOMAIN msgs
  BY <1>1, <1>3, SeqMade
<1>5. \A i \in DOMAIN msgs : msgs'[i].seq = msgs[i].seq /\ msgs'[i] \in {msgs[i], got}
  BY <1>1, <1>2
<1>6. Distinct(msgs') /\ SeqsOf(msgs') = SeqsOf(msgs)
  BY <1>4, <1>5 DEF Distinct, SeqsOf
<1>7. <<got>> \in Seq(Row)
  OBVIOUS
<1>8. kept' \in [Seqs -> 0..client.versions]
  BY <1>7, ArchivedTyped DEF Replace, StoreOK
<1>9. StoreOK' /\ lastSeq' = lastSeq
  BY <1>4, <1>8, SameClient DEF StoreOK, Replace
<1> QED
  BY <1>4, <1>5, <1>6, <1>9

(* mergeMessages: the list gets the messages it did not have, in their     *)
(* place, and keeps its copies of the others.                              *)
LEMMA MergeDoes ==
  ASSUME client \in Clients, client' = client, StoreOK, Distinct(msgs),
         NEW rows \in Seq(Row), Distinct(rows), MergeRows(rows)
  PROVE  /\ StoreOK' /\ Distinct(msgs') /\ Stays /\ lastSeq' = lastSeq
         /\ SeqsOf(msgs') = SeqsOf(msgs) \cup SeqsOf(rows)
<1> DEFINE u == Unknown(rows, SeqsOf(msgs))
           q == msgs \o u
<1>1. /\ u \in Seq(Row) /\ SeqsOf(u) = SeqsOf(rows) \ SeqsOf(msgs) /\ Distinct(u)
      /\ msgs' = BySeq(q) /\ msgs \in Seq(Row)
  BY UnknownKept DEF StoreOK, MergeRows
<1>2. kept' = Archived(kept, u) /\ lastSeq' = lastSeq
  BY DEF MergeRows
<1> HIDE DEF u
<1>3. /\ q \in Seq(Row) /\ SeqsOf(q) = SeqsOf(msgs) \cup SeqsOf(u)
      /\ Range(q) = Range(msgs) \cup Range(u) /\ Distinct(q)
  BY <1>1, Joined
<1>4. \A r \in Row : r.seq \in Nat
  BY ClientKnown
<1> HIDE DEF q
<1>5. /\ msgs' \in Seq(Row) /\ SeqsOf(msgs') = SeqsOf(q) /\ Range(msgs') = Range(q)
      /\ Distinct(msgs')
  BY <1>1, <1>3, <1>4, SortKeeps
<1>6. Stays
  <2>1. \A r \in Range(u) : r.seq \notin SeqsOf(msgs)
    BY <1>1 DEF Range, SeqsOf
  <2>2. \A r \in Range(msgs') : r \in Range(msgs) \/ r.seq \notin SeqsOf(msgs)
    BY <1>3, <1>5, <2>1
  <2> QED
    BY <1>1, <1>5, <2>2, SameRow DEF Stays
<1>7. kept' \in [Seqs -> 0..client.versions]
  BY <1>1, <1>2, ArchivedTyped DEF StoreOK
<1>8. StoreOK'
  BY <1>2, <1>5, <1>7, SameClient DEF StoreOK
<1> QED
  BY <1>1, <1>2, <1>3, <1>5, <1>6, <1>8

(* setMessages: the list is the page, and nothing else.                    *)
LEMMA SetDoes ==
  ASSUME client \in Clients, client' = client, StoreOK,
         NEW rows \in Seq(Row), Distinct(rows), SetRows(rows)
  PROVE  /\ StoreOK' /\ Distinct(msgs') /\ lastSeq' = lastSeq
         /\ SeqsOf(msgs') = SeqsOf(rows)
<1> DEFINE n == Len(rows)
<1>1. n \in Nat /\ DOMAIN rows = 1..n /\ \A i \in 1..n : rows[i] \in Row
  BY SeqFacts
<1>2. msgs' = [i \in 1..n |-> rows[n - i + 1]]
  BY DEF SetRows, Reverse
<1> HIDE DEF n
<1>3. \A i \in 1..n : n - i + 1 \in 1..n /\ n - (n - i + 1) + 1 = i
  BY <1>1
<1>4. msgs' \in [1..n -> Row]
  BY <1>1, <1>2, <1>3
<1>5. msgs' \in Seq(Row) /\ DOMAIN msgs' = 1..n
  BY <1>1, <1>4, SeqMade
<1>6. Distinct(msgs')
  <2> SUFFICES ASSUME NEW i \in 1..n, NEW j \in 1..n, msgs'[i].seq = msgs'[j].seq
               PROVE  i = j
    BY <1>5 DEF Distinct
  <2>1. n - i + 1 = n - j + 1
    BY <1>1, <1>2, <1>3 DEF Distinct
  <2> QED
    BY <1>1, <2>1
<1>7. SeqsOf(msgs') = SeqsOf(rows)
  <2>1. \A x \in SeqsOf(msgs') : x \in SeqsOf(rows)
    BY <1>1, <1>2, <1>3, <1>5 DEF SeqsOf
  <2>2. ASSUME NEW x \in SeqsOf(rows)
        PROVE  x \in SeqsOf(msgs')
    <3>1. PICK i \in 1..n : x = rows[i].seq
      BY <1>1, <2>2 DEF SeqsOf
    <3>2. n - i + 1 \in 1..n /\ msgs'[n - i + 1] = rows[i]
      BY <1>2, <1>3
    <3> QED
      BY <1>5, <3>1, <3>2 DEF SeqsOf
  <2> QED
    BY <2>1, <2>2
<1>8. kept' = Archived(kept, msgs') /\ lastSeq' = lastSeq
  BY DEF SetRows
<1>9. kept' \in [Seqs -> 0..client.versions]
  BY <1>5, <1>8, ArchivedTyped DEF StoreOK
<1>10. StoreOK'
  BY <1>5, <1>8, <1>9, SameClient DEF StoreOK
<1> QED
  BY <1>6, <1>7, <1>8, <1>10

-----------------------------------------------------------------------------
LEMMA ReloadDoes ==
  ASSUME client \in Clients, client' = client, StoreOK, Distinct(msgs), Reload
  PROVE  /\ StoreOK' /\ Distinct(msgs') /\ Stays /\ lastSeq' = lastSeq
         /\ Len(msgs) <= CacheSize => msgs' = msgs
<1> DEFINE n == Len(msgs)
           m == Max({0, Len(msgs) - CacheSize}) + 1
<1>1. n \in Nat /\ DOMAIN msgs = 1..n /\ CacheSize \in Nat /\ \A i \in 1..n : msgs[i] \in Row
  BY SeqFacts, SyncAssumption DEF StoreOK
<1>2. m \in 1..(n + 1) /\ (n <= CacheSize => m = 1)
  BY <1>1, MaxOfTwo
<1>3. msgs' = SubSeq(msgs, m, n) /\ lastSeq' = lastSeq /\ kept' = kept
  BY DEF Reload
<1> HIDE DEF n, m
<1>4. /\ msgs' \in Seq(Row) /\ Len(msgs') = n - m + 1
      /\ \A i \in 1..(n - m + 1) : msgs'[i] = msgs[m + i - 1]
  <2>1. m \in Int /\ n \in Int /\ \A i \in m..n : msgs[i] \in Row
    BY <1>1, <1>2
  <2> QED
    BY <1>1, <1>2, <1>3, <2>1, SubSeqProperties
<1>5. DOMAIN msgs' = 1..(n - m + 1) /\ \A i \in 1..(n - m + 1) : m + i - 1 \in 1..n
  BY <1>1, <1>2, <1>4, SeqFacts
<1>6. Distinct(msgs')
  <2> SUFFICES ASSUME NEW i \in 1..(n - m + 1), NEW j \in 1..(n - m + 1), msgs'[i].seq = msgs'[j].seq
               PROVE  i = j
    BY <1>5 DEF Distinct
  <2>1. m + i - 1 = m + j - 1
    BY <1>1, <1>4, <1>5 DEF Distinct
  <2> QED
    BY <1>1, <1>2, <2>1
<1>7. \A r \in Range(msgs') : r \in Range(msgs)
  BY <1>1, <1>4, <1>5 DEF Range
<1>8. Stays
  BY <1>4, <1>6, <1>7, SameRow DEF Stays, StoreOK
<1>9. n <= CacheSize => msgs' = msgs
  BY <1>1, <1>2, <1>3, SubSeqFull DEF n, StoreOK
<1>10. StoreOK'
  BY <1>3, <1>4, SameClient DEF StoreOK
<1> QED
  BY <1>3, <1>6, <1>8, <1>9, <1>10 DEF n

(* The bus carries events of the messages.                                 *)
LEMMA BusKeepsTypes ==
  ASSUME client' = client, BusTypeOK(Event)
  PROVE  /\ UNCHANGED busVars => BusTypeOK(Event)'
         /\ \A c \in Subs : Subscribe(c) => BusTypeOK(Event)'
         /\ \A c \in Subs : Receive(c) => BusTypeOK(Event)' /\ Head(buf[c]) \in Event
         /\ \A ev \in Event : Publish(Reader, ev) => BusTypeOK(Event)'
<1>1. Event' = Event
  BY SameClient
<1>2. /\ registered \in SUBSET Subs /\ chan \in [Subs -> {"none", "open", "closed"}]
      /\ buf \in [Subs -> Seq(Event)] /\ panicked \in BOOLEAN
      /\ \A c \in Subs : Len(buf[c]) <= BufferCap
      /\ BufferCap \in Nat \ {0}
  BY BusAssumption DEF BusTypeOK
<1>3. UNCHANGED busVars => BusTypeOK(Event)'
  BY <1>1, <1>2 DEF BusTypeOK, busVars
<1>4. ASSUME NEW c \in Subs, Subscribe(c)
      PROVE  BusTypeOK(Event)'
  BY <1>1, <1>2, <1>4 DEF BusTypeOK, Subscribe
<1>5. ASSUME NEW c \in Subs, Receive(c)
      PROVE  BusTypeOK(Event)' /\ Head(buf[c]) \in Event
  <2>1. buf[c] \in Seq(Event) /\ buf[c] # <<>>
    BY <1>2, <1>5 DEF Receive
  <2>2. /\ Head(buf[c]) \in Event /\ Tail(buf[c]) \in Seq(Event)
        /\ Len(Tail(buf[c])) <= BufferCap
    <3>1. Len(Tail(buf[c])) = Len(buf[c]) - 1 /\ Len(buf[c]) \in Nat
      BY <2>1, HeadTailProperties, LenProperties
    <3> QED
      BY <1>2, <2>1, <3>1, HeadTailProperties
  <2>3. buf' = [buf EXCEPT ![c] = Tail(buf[c])]
    BY <1>5 DEF Receive
  <2>4. buf' \in [Subs -> Seq(Event)] /\ \A d \in Subs : Len(buf'[d]) <= BufferCap
    BY <1>2, <2>2, <2>3
  <2>5. UNCHANGED <<registered, chan, panicked>>
    BY <1>5 DEF Receive
  <2> QED
    BY <1>1, <1>2, <2>2, <2>4, <2>5 DEF BusTypeOK
<1>6. ASSUME NEW ev \in Event, Publish(Reader, ev)
      PROVE  BusTypeOK(Event)'
  <2>1. \A c \in Subs : Len(buf[c]) < BufferCap =>
          Append(buf[c], ev) \in Seq(Event) /\ Len(Append(buf[c], ev)) <= BufferCap
    <3> SUFFICES ASSUME NEW c \in Subs, Len(buf[c]) < BufferCap
                 PROVE  Append(buf[c], ev) \in Seq(Event) /\ Len(Append(buf[c], ev)) <= BufferCap
      OBVIOUS
    <3>1. buf[c] \in Seq(Event) /\ Len(buf[c]) \in Nat
      BY <1>2, LenProperties
    <3>2. Append(buf[c], ev) \in Seq(Event) /\ Len(Append(buf[c], ev)) = Len(buf[c]) + 1
      BY <3>1, AppendProperties
    <3> QED
      BY <1>2, <3>1, <3>2
  <2>2. buf' \in [Subs -> Seq(Event)] /\ \A d \in Subs : Len(buf'[d]) <= BufferCap
    BY <1>2, <1>6, <2>1 DEF Publish
  <2>3. registered' = registered /\ chan' = chan /\ panicked' \in BOOLEAN
    BY <1>2, <1>6 DEF Publish
  <2> QED
    BY <1>1, <1>2, <2>2, <2>3 DEF BusTypeOK
<1> QED
  BY <1>3, <1>4, <1>5, <1>6

-----------------------------------------------------------------------------
(* The invariant.                                                          *)

(* The list on screen has no message twice, nor has any answer on its way. *)
ListOnce == StoreOK /\ Distinct(msgs)
RoundOnce ==
  /\ sync \in [phase : {"idle", "head", "headIs", "pull", "rows"},
               head : Nat, since : Nat, rows : Seq(Row)]
  /\ Distinct(sync.rows)
ViewOnce ==
  /\ fetch \in [phase : {"idle", "asked", "rows"}, rows : Seq(Row)] /\ Distinct(fetch.rows)
  /\ local = None \/ (local \in Seq(Row) /\ Distinct(local))

(* The types of the server and of the connections.                         *)
ServerOK ==
  /\ log \in Seq(Versions) /\ Len(log) <= client.sent /\ unsent \in SUBSET Event
  /\ replies \in SUBSET Seqs /\ link \in [Subs -> {"new", "upgraded", "up", "gone"}]
  /\ ws \in {None} \cup Subs /\ opened \in BOOLEAN

(* The server's numbers only grow.                                         *)
HeadKnown == sync.head <= Len(log) /\ sync.since <= sync.head

(* A pull starts at or below the mark, and brings all that follows, unless *)
(* one page was not enough.                                                *)
PullFits ==
  /\ sync.phase \in {"pull", "rows"} /\ "page" \notin why => sync.since <= lastSeq
  /\ sync.phase = "rows" =>
       \/ SeqsOf(sync.rows) = (sync.since + 1)..(sync.since + Len(sync.rows))
       \/ sync.since = 0 /\ Len(sync.rows) = PageSize
Gapless == /\ why \in SUBSET {"overtaken", "page", "replaced", "trimmed"}
           /\ PullFits /\ GapsExplained

SyncInv == /\ BusTypeOK(Event) /\ client \in Clients /\ ServerOK
           /\ ListOnce /\ RoundOnce /\ ViewOnce /\ HeadKnown /\ Gapless

(* What the runs check of the list follows from the invariant.             *)
LEMMA SyncInvMeans ==
  ASSUME SyncInv
  PROVE  TypeOK /\ ShownOnce /\ GapsExplained
<1>1. TypeOK
  BY DEF SyncInv, TypeOK, ServerOK, ListOnce, StoreOK, RoundOnce, ViewOnce, Gapless
<1>2. ShownOnce
  BY DEF SyncInv, ListOnce, ShownOnce, Distinct
<1> QED
  BY <1>1, <1>2 DEF SyncInv, Gapless

(* A client that has just started has an empty list and nothing under way. *)
LEMMA SyncInit ==
  ASSUME Init
  PROVE  SyncInv
<1>1. BusTypeOK(Event)
  <2>1. <<>> \in Seq(Event) /\ Len(<<>>) = 0 /\ BufferCap \in Nat
    BY EmptySeq, BusAssumption
  <2>2. \A c \in Subs : buf[c] = <<>>
    BY DEF Init, BusInit
  <2>3. \A c \in Subs : Len(buf[c]) <= BufferCap
    BY <2>1, <2>2
  <2>4. /\ registered \in SUBSET Subs /\ chan \in [Subs -> {"none", "open", "closed"}]
        /\ buf \in [Subs -> Seq(Event)] /\ panicked \in BOOLEAN
    BY <2>1 DEF Init, BusInit
  <2> QED
    BY <2>3, <2>4 DEF BusTypeOK
<1>2. client \in Clients
  BY DEF Init
<1>3. client.sent \in Nat /\ client.versions \in Nat
  BY <1>2, ClientKnown
<1>4. ServerOK
  <2>1. log \in Seq(Versions) /\ Len(log) = 0
    BY EmptySeq DEF Init
  <2>2. Len(log) <= client.sent
    BY <1>3, <2>1
  <2>3. /\ unsent \in SUBSET Event /\ replies \in SUBSET Seqs
        /\ link \in [Subs -> {"new", "upgraded", "up", "gone"}]
        /\ ws \in {None} \cup Subs /\ opened \in BOOLEAN
    BY DEF Init
  <2> QED
    BY <2>1, <2>2, <2>3 DEF ServerOK
<1>5. /\ <<>> \in Seq(Row) /\ Distinct(<<>>)
  BY DEF Distinct
<1>6. ListOnce
  BY <1>3, <1>5 DEF Init, ListOnce, StoreOK
<1>7. RoundOnce /\ HeadKnown
  BY <1>5 DEF Init, RoundOnce, HeadKnown, NoSync
<1>8. ViewOnce
  BY <1>5 DEF Init, ViewOnce, NoFetch
<1>9. Gapless
  BY DEF Init, Gapless, PullFits, GapsExplained, NoSync
<1> QED
  BY <1>1, <1>2, <1>4, <1>6, <1>7, <1>8, <1>9 DEF SyncInv

(* What a step leaves alone stays right.                                   *)
LEMMA Unmoved ==
  ASSUME SyncInv, client' = client
  PROVE  /\ client' \in Clients
         /\ UNCHANGED busVars => BusTypeOK(Event)'
         /\ UNCHANGED <<serverVars, replies, netVars>> => ServerOK'
         /\ UNCHANGED storeVars => ListOnce'
         /\ UNCHANGED sync => RoundOnce'
         /\ sync' = NoSync => RoundOnce' /\ HeadKnown'
         /\ UNCHANGED viewVars => ViewOnce'
         /\ fetch' = NoFetch /\ local' \in {local, None} => ViewOnce'
         /\ UNCHANGED <<sync, log>> => HeadKnown'
         /\ UNCHANGED <<sync, storeVars>> => Gapless'
         /\ sync' = NoSync /\ UNCHANGED storeVars => Gapless'
<1>1. Seqs' = Seqs /\ Versions' = Versions /\ Row' = Row /\ Event' = Event
  BY SameClient
<1>2. UNCHANGED busVars => BusTypeOK(Event)'
  BY BusKeepsTypes DEF SyncInv
<1>3. UNCHANGED <<serverVars, replies, netVars>> => ServerOK'
  BY <1>1 DEF SyncInv, ServerOK, serverVars, netVars
<1>4. UNCHANGED storeVars => ListOnce'
  BY <1>1 DEF SyncInv, ListOnce, StoreOK, storeVars
<1>5. UNCHANGED sync => RoundOnce'
  BY <1>1 DEF SyncInv, RoundOnce
<1>6. sync' = NoSync => RoundOnce' /\ HeadKnown'
  <2>1. <<>> \in Seq(Row) /\ Distinct(<<>>) /\ log \in Seq(Versions)
    BY DEF Distinct, SyncInv, ServerOK
  <2> SUFFICES ASSUME sync' = NoSync
               PROVE  RoundOnce' /\ HeadKnown'
    OBVIOUS
  <2>2. RoundOnce'
    BY <1>1, <2>1 DEF RoundOnce, NoSync
  <2>3. HeadKnown'
    BY DEF HeadKnown, NoSync
  <2> QED
    BY <2>2, <2>3
<1>7. UNCHANGED viewVars => ViewOnce'
  BY <1>1 DEF SyncInv, ViewOnce, viewVars
<1>8. fetch' = NoFetch /\ local' \in {local, None} => ViewOnce'
  <2>1. <<>> \in Seq(Row) /\ Distinct(<<>>)
    BY DEF Distinct
  <2> QED
    BY <1>1, <2>1 DEF SyncInv, ViewOnce, NoFetch
<1>9. UNCHANGED <<sync, log>> => HeadKnown'
  BY DEF SyncInv, HeadKnown
<1>10. UNCHANGED <<sync, storeVars>> => Gapless'
  BY DEF SyncInv, Gapless, PullFits, GapsExplained, SeqsOf, storeVars
<1>11. sync' = NoSync /\ UNCHANGED storeVars => Gapless'
  BY DEF SyncInv, Gapless, PullFits, GapsExplained, SeqsOf, storeVars, NoSync
<1> QED
  BY <1>2, <1>3, <1>4, <1>5, <1>6, <1>7, <1>8, <1>9, <1>10, <1>11 DEF SyncInv

(* What an append does to the gaps: nothing, if the messages between the   *)
(* mark and each of the rows are among the rows.                           *)
LEMMA AppendGaps ==
  ASSUME SyncInv, client' = client, NEW rows \in Seq(Row), Distinct(rows), AppendRows(rows),
         why \subseteq why', why' \subseteq {"overtaken", "page", "replaced", "trimmed"},
         why' = {} => \A n \in SeqsOf(rows) : (lastSeq + 1)..n \subseteq SeqsOf(rows),
         \/ sync' = NoSync
         \/ sync' = sync /\ ("page" \notin why' => "page" \notin why)
  PROVE  ListOnce' /\ Gapless'
<1>1. /\ StoreOK' /\ Distinct(msgs') /\ SeqsOf(msgs') = SeqsOf(msgs) \cup SeqsOf(rows)
      /\ lastSeq <= lastSeq' /\ lastSeq' \in {lastSeq} \cup SeqsOf(rows)
  BY AppendDoes DEF SyncInv, ListOnce
<1>2. lastSeq \in Nat /\ lastSeq' \in Nat /\ client.sent \in Nat
  <2>1. client.sent \in Nat /\ lastSeq \in 0..client.sent /\ lastSeq' \in 0..client.sent
    BY <1>1, ClientKnown DEF SyncInv, ListOnce, StoreOK
  <2> QED
    BY <2>1
<1>3. GapsExplained'
  <2> SUFFICES ASSUME why' = {}, NEW n \in 1..lastSeq'
               PROVE  n \in SeqsOf(msgs')
    BY DEF GapsExplained
  <2>1. 1..lastSeq \subseteq SeqsOf(msgs)
    BY DEF SyncInv, Gapless, GapsExplained
  <2>2. CASE n <= lastSeq
    BY <1>1, <1>2, <2>1, <2>2
  <2>3. CASE n > lastSeq
    <3>1. lastSeq' \in SeqsOf(rows) /\ n \in (lastSeq + 1)..lastSeq'
      BY <1>1, <1>2, <2>3
    <3> QED
      BY <1>1, <3>1
  <2> QED
    BY <1>2, <2>2, <2>3
<1>4. PullFits'
  <2>1. CASE sync' = NoSync
    BY <2>1 DEF PullFits, NoSync
  <2>2. CASE sync' = sync /\ ("page" \notin why' => "page" \notin why)
    <3>1. sync.since \in Nat
      BY DEF SyncInv, RoundOnce
    <3>2. sync.phase \in {"pull", "rows"} /\ "page" \notin why' => sync.since <= lastSeq'
      BY <1>1, <1>2, <2>2, <3>1 DEF SyncInv, Gapless, PullFits
    <3> QED
      BY <2>2, <3>2 DEF SyncInv, Gapless, PullFits, SeqsOf
  <2> QED
    BY <2>1, <2>2
<1> QED
  BY <1>1, <1>3, <1>4 DEF ListOnce, Gapless

(* The answer of a POST and a live event bring one message.                *)
LEMMA OneRowComes ==
  ASSUME SyncInv, client' = client, NEW got \in Row, AppendRows(<<got>>),
         why' = why \cup Overtakes(got.seq), sync' = sync
  PROVE  ListOnce' /\ Gapless'
<1>1. <<got>> \in Seq(Row) /\ Distinct(<<got>>) /\ SeqsOf(<<got>>) = {got.seq}
  BY DEF Distinct, SeqsOf
<1>2. got.seq \in Nat /\ lastSeq \in Nat
  <2>1. client.sent \in Nat /\ lastSeq \in 0..client.sent /\ got.seq \in Nat
    BY ClientKnown DEF SyncInv, ListOnce, StoreOK
  <2> QED
    BY <2>1
<1>3. /\ why \subseteq why' /\ why' \subseteq {"overtaken", "page", "replaced", "trimmed"}
      /\ "page" \notin why' => "page" \notin why
  BY DEF SyncInv, Gapless, Overtakes
<1>4. ASSUME why' = {}
      PROVE  (lastSeq + 1)..got.seq \subseteq {got.seq}
  <2>1. got.seq <= lastSeq + 1
    BY <1>2, <1>4 DEF Overtakes
  <2> QED
    BY <1>2, <2>1
<1>5. why' = {} => \A n \in SeqsOf(<<got>>) : (lastSeq + 1)..n \subseteq SeqsOf(<<got>>)
  BY <1>1, <1>4
<1> QED
  BY <1>1, <1>3, <1>5, AppendGaps

(* A merge, a reset of the list to more than it had, and an edit.          *)
LEMMA ListGrows ==
  ASSUME SyncInv, client' = client, StoreOK', Distinct(msgs'), lastSeq' = lastSeq, sync' = sync,
         why \subseteq why', why' \subseteq {"overtaken", "page", "replaced", "trimmed"},
         "page" \notin why' => "page" \notin why,
         why' = {} => SeqsOf(msgs) \subseteq SeqsOf(msgs')
  PROVE  ListOnce' /\ Gapless'
<1>1. GapsExplained'
  BY DEF SyncInv, Gapless, GapsExplained
<1>2. PullFits'
  BY DEF SyncInv, Gapless, PullFits, SeqsOf
<1> QED
  BY <1>1, <1>2 DEF ListOnce, Gapless

(* The server's steps.                                                     *)
LEMMA ServerKeeps ==
  ASSUME SyncInv, Server
  PROVE  SyncInv'
<1>0. /\ client \in Clients /\ log \in Seq(Versions) /\ Len(log) \in Nat /\ Len(log) <= client.sent
      /\ DOMAIN log = 1..Len(log) /\ \A i \in DOMAIN log : log[i] \in Versions
      /\ client.sent \in Nat /\ client.versions \in Nat \ {0}
  BY ClientKnown, SeqFacts DEF SyncInv, ServerOK
<1>1. ASSUME NEW mine \in BOOLEAN, Commit(mine)
      PROVE  SyncInv'
  <2> DEFINE n == Len(log) + 1
  <2>1. client' = client /\ UNCHANGED <<busVars, netVars, storeVars, sync, viewVars>>
    BY <1>1 DEF Commit
  <2>2. n \in Seqs /\ 1 \in Versions
    BY <1>0, <1>1, ClientKnown DEF Commit, Seqs
  <2>3. log' = Append(log, 1) /\ unsent' = unsent \cup {[type |-> "chat.recv", seq |-> n, ver |-> 1]}
    BY <1>1 DEF Commit
  <2>4. log' \in Seq(Versions) /\ Len(log') = n /\ n <= client.sent
    BY <1>0, <2>2, <2>3, AppendProperties DEF Seqs
  <2>5. unsent' \in SUBSET Event /\ replies' \in SUBSET Seqs
    BY <1>1, <2>2, <2>3 DEF Commit, Event, SyncInv, ServerOK
  <2>6. ServerOK'
    BY <2>1, <2>4, <2>5, SameClient DEF SyncInv, ServerOK, netVars
  <2>7. HeadKnown'
    <3>1. sync.head \in Nat /\ sync.since \in Nat
      BY DEF SyncInv, RoundOnce
    <3> QED
      BY <1>0, <2>1, <2>4, <3>1 DEF SyncInv, HeadKnown
  <2> QED
    BY <2>1, <2>6, <2>7, Unmoved DEF SyncInv
<1>2. ASSUME NEW n \in DOMAIN log, Rewrite(n)
      PROVE  SyncInv'
  <2>1. client' = client /\ UNCHANGED <<busVars, replies, netVars, storeVars, sync, viewVars>>
    BY <1>2 DEF Rewrite
  <2>2. n \in Seqs /\ log[n] + 1 \in Versions
    BY <1>0, <1>2 DEF Rewrite, Seqs, Versions
  <2>3. /\ log' = [log EXCEPT ![n] = log[n] + 1]
        /\ unsent' = unsent \cup {[type |-> "chat.edit", seq |-> n, ver |-> log[n] + 1]}
    BY <1>2 DEF Rewrite
  <2>4. log' \in Seq(Versions) /\ Len(log') = Len(log)
    BY <1>0, <2>2, <2>3, ExceptSeq
  <2>5. unsent' \in SUBSET Event
    BY <2>2, <2>3 DEF Event, SyncInv, ServerOK
  <2>6. ServerOK'
    BY <2>1, <2>4, <2>5, SameClient DEF SyncInv, ServerOK, netVars
  <2>7. HeadKnown'
    BY <2>1, <2>4 DEF SyncInv, HeadKnown
  <2> QED
    BY <2>1, <2>6, <2>7, Unmoved DEF SyncInv
<1>3. ASSUME NEW ev \in unsent, PublishNext(ev)
      PROVE  SyncInv'
  <2>1. client' = client /\ UNCHANGED <<log, replies, netVars, storeVars, sync, viewVars>>
    BY <1>3 DEF PublishNext
  <2>2. BusTypeOK(Event)'
    <3>1. ev \in Event /\ Publish(Reader, ev)
      BY <1>3 DEF PublishNext, SyncInv, ServerOK
    <3> QED
      BY <2>1, <3>1, BusKeepsTypes DEF SyncInv
  <2>3. ServerOK'
    BY <1>3, <2>1, SameClient DEF PublishNext, SyncInv, ServerOK, netVars
  <2> QED
    BY <2>1, <2>2, <2>3, Unmoved DEF SyncInv
<1>4. ASSUME ServerRestarts
      PROVE  SyncInv'
  <2>1. client' = client /\ UNCHANGED <<log, ws, opened, storeVars, local>>
    BY <1>4 DEF ServerRestarts
  <2>2. BusTypeOK(Event)'
    <3>1. <<>> \in Seq(Event) /\ Len(<<>>) = 0 /\ BufferCap \in Nat
      BY EmptySeq, BusAssumption
    <3>2. buf' = [c \in Subs |-> <<>>] /\ registered' = {} /\ panicked' = panicked
      BY <1>4 DEF ServerRestarts
    <3>3. \A c \in Subs : buf'[c] = <<>>
      BY <3>2
    <3>4. \A c \in Subs : Len(buf'[c]) <= BufferCap
      BY <3>1, <3>3
    <3>5. buf' \in [Subs -> Seq(Event)]
      BY <3>1, <3>2
    <3>6. chan' \in [Subs -> {"none", "open", "closed"}]
      BY <1>4 DEF ServerRestarts, SyncInv, BusTypeOK
    <3> QED
      BY <2>1, <3>2, <3>4, <3>5, <3>6, SameClient DEF SyncInv, BusTypeOK
  <2>3. ServerOK'
    BY <1>4, <2>1, SameClient DEF ServerRestarts, SyncInv, ServerOK
  <2>4. sync' \in {NoSync, sync}
    BY <1>4 DEF ServerRestarts
  <2>5. ViewOnce'
    <3>1. fetch' \in {NoFetch, fetch}
      BY <1>4 DEF ServerRestarts
    <3> QED
      BY <2>1, <3>1, Unmoved DEF viewVars
  <2> QED
    BY <2>1, <2>2, <2>3, <2>4, <2>5, Unmoved DEF SyncInv
<1> QED
  BY <1>1, <1>2, <1>3, <1>4 DEF Server

(* The steps of the connections, and what the client hears.                *)
LEMMA ConnectionKeeps ==
  ASSUME SyncInv, Connection
  PROVE  SyncInv'
<1>1. ASSUME NEW c \in Subs, Connect(c)
      PROVE  SyncInv'
  <2>1. client' = client /\ UNCHANGED <<busVars, serverVars, replies, storeVars, sync, viewVars>>
    BY <1>1 DEF Connect
  <2>2. ServerOK'
    BY <1>1, <2>1, SameClient DEF Connect, SyncInv, ServerOK, serverVars
  <2> QED
    BY <2>1, <2>2, Unmoved DEF SyncInv, serverVars
<1>2. ASSUME NEW c \in Subs, Attach(c)
      PROVE  SyncInv'
  <2>1. client' = client /\ UNCHANGED <<serverVars, replies, ws, opened, storeVars, sync, viewVars>>
    BY <1>2 DEF Attach
  <2>2. BusTypeOK(Event)'
    BY <1>2, <2>1, BusKeepsTypes DEF SyncInv, Attach
  <2>3. ServerOK'
    BY <1>2, <2>1, SameClient DEF Attach, SyncInv, ServerOK, serverVars
  <2> QED
    BY <2>1, <2>2, <2>3, Unmoved DEF SyncInv, serverVars
<1>3. ASSUME NEW c \in Subs, Detach(c)
      PROVE  SyncInv'
  <2>1. client' = client /\ UNCHANGED <<serverVars, replies, ws, opened, storeVars, sync, viewVars>>
    BY <1>3 DEF Detach
  <2>2. BusTypeOK(Event)'
    <3>1. <<>> \in Seq(Event) /\ Len(<<>>) = 0 /\ BufferCap \in Nat
      BY EmptySeq, BusAssumption
    <3>2. /\ registered' = registered \ {c} /\ chan' = [chan EXCEPT ![c] = "closed"]
          /\ buf' = [buf EXCEPT ![c] = <<>>] /\ panicked' = panicked
      BY <1>3 DEF Detach
    <3>3. buf' \in [Subs -> Seq(Event)] /\ \A d \in Subs : buf'[d] \in {buf[d], <<>>}
      BY <3>1, <3>2 DEF SyncInv, BusTypeOK
    <3>4. \A d \in Subs : Len(buf'[d]) <= BufferCap
      BY <3>1, <3>3 DEF SyncInv, BusTypeOK
    <3> QED
      BY <2>1, <3>2, <3>3, <3>4, SameClient DEF SyncInv, BusTypeOK
  <2>3. ServerOK'
    BY <1>3, <2>1, SameClient DEF Detach, SyncInv, ServerOK, serverVars
  <2> QED
    BY <2>1, <2>2, <2>3, Unmoved DEF SyncInv, serverVars
<1>4. ASSUME SocketOpened
      PROVE  SyncInv'
  <2>1. /\ client' = client /\ UNCHANGED <<busVars, serverVars, replies, link, ws, storeVars, viewVars>>
        /\ opened' = TRUE
    BY <1>4 DEF SocketOpened
  <2>2. ServerOK'
    BY <2>1, SameClient DEF SyncInv, ServerOK, serverVars
  <2>3. \/ sync' = sync
        \/ sync.phase = "idle" /\ sync' = [sync EXCEPT !.phase = "head"]
    BY <1>4 DEF SocketOpened
  <2>4. RoundOnce' /\ HeadKnown'
    BY <2>1, <2>3, SameClient DEF SyncInv, RoundOnce, HeadKnown, serverVars
  <2>5. Gapless'
    BY <2>1, <2>3 DEF SyncInv, RoundOnce, Gapless, PullFits, GapsExplained, SeqsOf, storeVars
  <2> QED
    BY <2>1, <2>2, <2>4, <2>5, Unmoved DEF SyncInv, serverVars
<1>5. ASSUME SocketLost
      PROVE  SyncInv'
  <2>1. client' = client /\ UNCHANGED <<busVars, serverVars, replies, link, storeVars, sync, viewVars>>
    BY <1>5 DEF SocketLost
  <2>2. ServerOK'
    BY <1>5, <2>1, SameClient DEF SocketLost, SyncInv, ServerOK, serverVars
  <2> QED
    BY <2>1, <2>2, Unmoved DEF SyncInv, serverVars
<1>6. ASSUME Deliver
      PROVE  SyncInv'
  <2> DEFINE ev == Head(buf[ws])
             got == [seq |-> ev.seq, ver |-> ev.ver]
  <2>1. /\ client' = client /\ UNCHANGED <<serverVars, replies, netVars, sync, viewVars>>
        /\ ws \in Subs /\ Receive(ws)
        /\ \/ AppendRows(<<got>>) /\ why' = why \cup Overtakes(ev.seq)
           \/ Replace(got) /\ why' = why
    BY <1>6 DEF Deliver, SyncInv, ServerOK
  <2>2. BusTypeOK(Event)' /\ ev \in Event
    BY <2>1, BusKeepsTypes DEF SyncInv
  <2>3. got \in Row /\ got.seq = ev.seq
    BY <2>2 DEF Event, Row
  <2> HIDE DEF got, ev
  <2>4. ListOnce' /\ Gapless'
    <3>1. CASE AppendRows(<<got>>) /\ why' = why \cup Overtakes(ev.seq)
      BY <2>1, <2>3, <3>1, OneRowComes
    <3>2. CASE Replace(got) /\ why' = why
      <4>1. StoreOK' /\ Distinct(msgs') /\ lastSeq' = lastSeq /\ SeqsOf(msgs') = SeqsOf(msgs)
        BY <2>1, <2>3, <3>2, ReplaceDoes DEF SyncInv, ListOnce
      <4> QED
        BY <2>1, <3>2, <4>1, ListGrows DEF SyncInv, Gapless
    <3> QED
      BY <2>1, <3>1, <3>2
  <2> QED
    BY <2>1, <2>2, <2>4, Unmoved DEF SyncInv, serverVars
<1>7. ASSUME NEW n \in replies, PostAnswered(n)
      PROVE  SyncInv'
  <2>1. client' = client /\ UNCHANGED <<busVars, serverVars, netVars, sync, viewVars>>
    BY <1>7 DEF PostAnswered
  <2> DEFINE got == [seq |-> n, ver |-> 1]
  <2>2. got \in Row /\ got.seq = n
    BY ClientKnown DEF SyncInv, ServerOK
  <2>3. AppendRows(<<got>>) /\ why' = why \cup Overtakes(n) /\ replies' = replies \ {n}
    BY <1>7 DEF PostAnswered
  <2> HIDE DEF got
  <2>4. ListOnce' /\ Gapless'
    BY <2>1, <2>2, <2>3, OneRowComes
  <2>5. ServerOK'
    BY <2>1, <2>3, SameClient DEF SyncInv, ServerOK, serverVars, netVars
  <2> QED
    BY <2>1, <2>4, <2>5, Unmoved DEF SyncInv, serverVars
<1>8. ASSUME NEW n \in replies, AnswerLost(n)
      PROVE  SyncInv'
  <2>1. client' = client /\ UNCHANGED <<busVars, serverVars, netVars, storeVars, sync, viewVars>>
    BY <1>8 DEF AnswerLost
  <2>2. ServerOK'
    BY <1>8, <2>1, SameClient DEF AnswerLost, SyncInv, ServerOK, serverVars, netVars
  <2> QED
    BY <2>1, <2>2, Unmoved DEF SyncInv, serverVars
<1> QED
  BY <1>1, <1>2, <1>3, <1>4, <1>5, <1>6, <1>7, <1>8 DEF Connection

(* The steps of a round of the synchronisation.                            *)
LEMMA RoundKeeps ==
  ASSUME SyncInv, Round \/ SyncFails
  PROVE  SyncInv'
<1>0. /\ client \in Clients /\ log \in Seq(Versions) /\ Len(log) \in Nat /\ Len(log) <= client.sent
      /\ sync \in [phase : {"idle", "head", "headIs", "pull", "rows"},
                   head : Nat, since : Nat, rows : Seq(Row)]
      /\ Distinct(sync.rows) /\ sync.head <= Len(log) /\ sync.since <= sync.head
      /\ lastSeq \in Nat /\ PageSize \in Nat \ {0}
  <2>1. client.sent \in Nat /\ lastSeq \in 0..client.sent
    BY ClientKnown DEF SyncInv, ListOnce, StoreOK
  <2> QED
    BY <2>1, SeqFacts, SyncAssumption DEF SyncInv, ServerOK, RoundOnce, HeadKnown
<1>1. ASSUME ServeHead
      PROVE  SyncInv'
  <2>1. /\ client' = client /\ UNCHANGED <<busVars, serverVars, replies, netVars, storeVars, viewVars>>
        /\ sync' = [sync EXCEPT !.phase = "headIs", !.head = Len(log)]
    BY <1>1 DEF ServeHead
  <2>2. /\ sync'.phase = "headIs" /\ sync'.head = Len(log) /\ sync'.since = sync.since
        /\ sync'.rows = sync.rows
        /\ sync' \in [phase : {"idle", "head", "headIs", "pull", "rows"},
                      head : Nat, since : Nat, rows : Seq(Row)]
    BY <1>0, <2>1
  <2>3. RoundOnce'
    BY <1>0, <2>1, <2>2, SameClient DEF RoundOnce
  <2>4. HeadKnown'
    <3>1. log' = log /\ sync.head \in Nat /\ sync.since \in Nat
      BY <1>0, <2>1 DEF serverVars
    <3> QED
      BY <1>0, <2>2, <3>1 DEF HeadKnown
  <2>5. Gapless'
    BY <2>1, <2>2 DEF SyncInv, Gapless, PullFits, GapsExplained, SeqsOf, storeVars
  <2> QED
    BY <2>1, <2>3, <2>4, <2>5, Unmoved DEF SyncInv
<1>2. ASSUME GotHead
      PROVE  SyncInv'
  <2>1. /\ client' = client
        /\ UNCHANGED <<busVars, serverVars, replies, netVars, lastSeq, msgs, kept, viewVars>>
    BY <1>2 DEF GotHead
  <2>2. ListOnce'
    BY <2>1, SameClient DEF SyncInv, ListOnce, StoreOK
  <2>3. RoundOnce' /\ HeadKnown' /\ Gapless'
    <3>1. CASE sync' = NoSync /\ why' = why
      BY <2>1, <3>1, Unmoved DEF storeVars
    <3>2. CASE ~(sync' = NoSync /\ why' = why)
      <4> DEFINE since == IF lastSeq > 0 THEN lastSeq ELSE Max({0, sync.head - PageSize})
      <4>1. /\ lastSeq < sync.head
            /\ sync' = [sync EXCEPT !.phase = "pull", !.since = since]
            /\ why' = IF since > lastSeq THEN why \cup {"page"} ELSE why
        BY <1>0, <1>2, <3>2 DEF GotHead
      <4>2. since \in Nat /\ since <= sync.head
        <5>1. CASE lastSeq > 0
          BY <1>0, <4>1, <5>1
        <5>2. CASE ~(lastSeq > 0)
          <6>1. sync.head \in Nat /\ sync.head - PageSize \in Int /\ sync.head - PageSize <= sync.head
            BY <1>0
          <6>2. Max({0, sync.head - PageSize})
                  = IF 0 <= sync.head - PageSize THEN sync.head - PageSize ELSE 0
            BY <6>1, MaxOfTwo
          <6>3. since = Max({0, sync.head - PageSize})
            BY <5>2
          <6> QED
            BY <6>1, <6>2, <6>3
        <5> QED
          BY <5>1, <5>2
      <4> HIDE DEF since
      <4>3. /\ sync'.phase = "pull" /\ sync'.head = sync.head /\ sync'.since = since
            /\ sync'.rows = sync.rows
            /\ sync' \in [phase : {"idle", "head", "headIs", "pull", "rows"},
                          head : Nat, since : Nat, rows : Seq(Row)]
        BY <1>0, <4>1, <4>2
      <4>4. RoundOnce'
        BY <1>0, <2>1, <4>3, SameClient DEF RoundOnce
      <4>5. HeadKnown'
        BY <1>0, <2>1, <4>2, <4>3 DEF HeadKnown, serverVars
      <4>6. PullFits'
        BY <1>0, <2>1, <4>1, <4>2, <4>3 DEF PullFits
      <4>7. GapsExplained' /\ why' \in SUBSET {"overtaken", "page", "replaced", "trimmed"}
        BY <2>1, <4>1 DEF SyncInv, Gapless, GapsExplained, SeqsOf
      <4> QED
        BY <4>4, <4>5, <4>6, <4>7 DEF Gapless
    <3> QED
      BY <3>1, <3>2
  <2> QED
    BY <2>1, <2>2, <2>3, Unmoved DEF SyncInv
<1>3. ASSUME ServePull
      PROVE  SyncInv'
  <2> DEFINE rows == IF sync.since > 0 THEN ListAfter(sync.since, PageSize) ELSE ListRecent(PageSize)
  <2>1. /\ client' = client /\ UNCHANGED <<busVars, serverVars, replies, netVars, storeVars, viewVars>>
        /\ sync.phase = "pull" /\ sync' = [sync EXCEPT !.phase = "rows", !.rows = rows]
    BY <1>3 DEF ServePull
  <2>2. /\ rows \in Seq(Row) /\ Distinct(rows)
        /\ \/ SeqsOf(rows) = (sync.since + 1)..(sync.since + Len(rows))
           \/ sync.since = 0 /\ Len(rows) = PageSize
    <3>1. sync.since \in Nat /\ sync.since <= Len(log)
      BY <1>0
    <3>2. CASE sync.since > 0
      BY <1>0, <3>1, <3>2, ListedAfter
    <3>3. CASE sync.since = 0
      <4>1. ListRecent(PageSize) \in Seq(Row) /\ Distinct(ListRecent(PageSize))
        BY <1>0, ListedRecent
      <4>2. \/ Len(ListRecent(PageSize)) = PageSize
            \/ SeqsOf(ListRecent(PageSize)) = 1..Len(ListRecent(PageSize))
        BY <1>0, ListedRecent
      <4>3. Len(ListRecent(PageSize)) \in Nat
        BY <4>1, LenProperties
      <4> QED
        BY <3>3, <4>1, <4>2, <4>3
    <3> QED
      BY <3>1, <3>2, <3>3
  <2> HIDE DEF rows
  <2>3. /\ sync'.phase = "rows" /\ sync'.head = sync.head /\ sync'.since = sync.since
        /\ sync'.rows = rows
        /\ sync' \in [phase : {"idle", "head", "headIs", "pull", "rows"},
                      head : Nat, since : Nat, rows : Seq(Row)]
    BY <1>0, <2>1, <2>2
  <2>4. RoundOnce' /\ HeadKnown'
    BY <1>0, <2>1, <2>2, <2>3, SameClient DEF RoundOnce, HeadKnown, serverVars
  <2>5. Gapless'
    BY <2>1, <2>2, <2>3 DEF SyncInv, Gapless, PullFits, GapsExplained, SeqsOf, storeVars
  <2> QED
    BY <2>1, <2>4, <2>5, Unmoved DEF SyncInv
<1>4. ASSUME GotRows
      PROVE  SyncInv'
  <2>1. /\ client' = client /\ UNCHANGED <<busVars, serverVars, replies, netVars, viewVars>>
        /\ sync.phase = "rows" /\ sync' = NoSync /\ AppendRows(sync.rows)
        /\ why' = IF sync.since = 0 /\ Len(sync.rows) = PageSize THEN why \cup {"page"} ELSE why
    BY <1>4 DEF GotRows
  <2>2. ASSUME why' = {}, NEW n \in SeqsOf(sync.rows)
        PROVE  (lastSeq + 1)..n \subseteq SeqsOf(sync.rows)
    <3>1. why = {} /\ ~(sync.since = 0 /\ Len(sync.rows) = PageSize)
      BY <2>1, <2>2
    <3>2. /\ SeqsOf(sync.rows) = (sync.since + 1)..(sync.since + Len(sync.rows))
          /\ sync.since <= lastSeq
      BY <2>1, <3>1 DEF SyncInv, Gapless, PullFits
    <3>3. sync.since \in Nat /\ Len(sync.rows) \in Nat
      BY <1>0, LenProperties
    <3> QED
      BY <1>0, <2>2, <3>2, <3>3
  <2>3. why \subseteq why' /\ why' \subseteq {"overtaken", "page", "replaced", "trimmed"}
    BY <2>1 DEF SyncInv, Gapless
  <2>4. sync.rows \in Seq(Row) /\ Distinct(sync.rows)
    BY <1>0
  <2>5. ListOnce' /\ Gapless'
    BY <2>1, <2>2, <2>3, <2>4, AppendGaps
  <2> QED
    BY <2>1, <2>5, Unmoved DEF SyncInv
<1>5. ASSUME SyncFails
      PROVE  SyncInv'
  <2>1. /\ client' = client /\ sync' = NoSync
        /\ UNCHANGED <<busVars, serverVars, replies, netVars, storeVars, viewVars>>
    BY <1>5 DEF SyncFails
  <2> QED
    BY <2>1, Unmoved DEF SyncInv
<1> QED
  BY <1>1, <1>2, <1>3, <1>4, <1>5 DEF Round

(* The steps of the view, and the restart of the client.                   *)
LEMMA ViewKeeps ==
  ASSUME SyncInv, View \/ Reload
  PROVE  SyncInv'
<1>0. /\ client \in Clients /\ StoreOK /\ Distinct(msgs)
      /\ fetch.rows \in Seq(Row) /\ Distinct(fetch.rows)
      /\ why \subseteq {"overtaken", "page", "replaced", "trimmed"}
      /\ RecentSize \in Nat
  BY SyncAssumption DEF SyncInv, ListOnce, ViewOnce, Gapless
<1>1. ASSUME OpenView
      PROVE  SyncInv'
  <2>1. /\ client' = client
        /\ UNCHANGED <<busVars, serverVars, replies, netVars, storeVars, sync>>
        /\ fetch' = [fetch EXCEPT !.phase = "asked"] /\ local' = IF Archive THEN KeptRows ELSE None
    BY <1>1 DEF OpenView
  <2>2. KeptRows \in Seq(Row) /\ Distinct(KeptRows)
    BY <1>0, KeptListed DEF StoreOK
  <2>3. ViewOnce'
    BY <1>0, <2>1, <2>2, SameClient DEF SyncInv, ViewOnce
  <2> QED
    BY <2>1, <2>3, Unmoved DEF SyncInv, serverVars
<1>2. ASSUME GotArchive
      PROVE  SyncInv'
  <2>1. /\ client' = client
        /\ UNCHANGED <<busVars, serverVars, replies, netVars, why, sync, fetch>>
        /\ local # None /\ local' = None /\ MergeRows(local)
    BY <1>2 DEF GotArchive
  <2>2. local \in Seq(Row) /\ Distinct(local)
    BY <2>1 DEF SyncInv, ViewOnce
  <2>3. StoreOK' /\ Distinct(msgs') /\ lastSeq' = lastSeq /\ SeqsOf(msgs') = SeqsOf(msgs) \cup SeqsOf(local)
    BY <1>0, <2>1, <2>2, MergeDoes
  <2>4. ListOnce' /\ Gapless'
    BY <1>0, <2>1, <2>3, ListGrows
  <2>5. ViewOnce'
    BY <2>1, SameClient DEF SyncInv, ViewOnce
  <2> QED
    BY <2>1, <2>4, <2>5, Unmoved DEF SyncInv, serverVars
<1>3. ASSUME ServeRecent
      PROVE  SyncInv'
  <2>1. /\ client' = client
        /\ UNCHANGED <<busVars, serverVars, replies, netVars, storeVars, sync, local>>
        /\ fetch' = [phase |-> "rows", rows |-> ListRecent(RecentSize)]
    BY <1>3 DEF ServeRecent
  <2>2. ListRecent(RecentSize) \in Seq(Row) /\ Distinct(ListRecent(RecentSize))
    BY <1>0, ListedRecent DEF SyncInv, ServerOK
  <2>3. ViewOnce'
    BY <2>1, <2>2, SameClient DEF SyncInv, ViewOnce
  <2> QED
    BY <2>1, <2>3, Unmoved DEF SyncInv, serverVars
<1>4. ASSUME GotRecent
      PROVE  SyncInv'
  <2>1. /\ client' = client /\ UNCHANGED <<busVars, serverVars, replies, netVars, sync, local>>
        /\ fetch' = NoFetch
        /\ IF Archive THEN MergeRows(fetch.rows) ELSE SetRows(fetch.rows)
        /\ why' = IF ~Archive /\ ~(SeqsOf(msgs) \subseteq SeqsOf(fetch.rows))
                  THEN why \cup {"replaced"} ELSE why
    BY <1>4 DEF GotRecent
  <2>2. /\ StoreOK' /\ Distinct(msgs') /\ lastSeq' = lastSeq
        /\ why' = {} => SeqsOf(msgs) \subseteq SeqsOf(msgs')
    <3>1. CASE Archive
      BY <1>0, <2>1, <3>1, MergeDoes
    <3>2. CASE ~Archive
      <4>1. StoreOK' /\ Distinct(msgs') /\ lastSeq' = lastSeq /\ SeqsOf(msgs') = SeqsOf(fetch.rows)
        BY <1>0, <2>1, <3>2, SetDoes
      <4> QED
        BY <2>1, <3>2, <4>1
    <3> QED
      BY <3>1, <3>2
  <2>3. /\ why \subseteq why' /\ why' \subseteq {"overtaken", "page", "replaced", "trimmed"}
        /\ "page" \notin why' => "page" \notin why
    BY <1>0, <2>1
  <2>4. ListOnce' /\ Gapless'
    BY <2>1, <2>2, <2>3, ListGrows
  <2> QED
    BY <2>1, <2>4, Unmoved DEF SyncInv, serverVars
<1>5. ASSUME FetchFails
      PROVE  SyncInv'
  <2>1. /\ client' = client /\ fetch' = NoFetch
        /\ UNCHANGED <<busVars, serverVars, replies, netVars, storeVars, sync, local>>
    BY <1>5 DEF FetchFails
  <2> QED
    BY <2>1, Unmoved DEF SyncInv, serverVars
<1>6. ASSUME CloseView
      PROVE  SyncInv'
  <2>1. /\ client' = client /\ fetch' = NoFetch /\ local' = None
        /\ UNCHANGED <<busVars, serverVars, replies, netVars, storeVars, sync>>
    BY <1>6 DEF CloseView
  <2> QED
    BY <2>1, Unmoved DEF SyncInv, serverVars
<1>7. ASSUME Reload
      PROVE  SyncInv'
  <2>1. /\ client' = client /\ ws' = None /\ opened' = FALSE
        /\ sync' = NoSync /\ fetch' = NoFetch /\ local' = None /\ replies' = {}
        /\ why' = IF Len(msgs) > CacheSize THEN why \cup {"trimmed"} ELSE why
        /\ UNCHANGED <<busVars, serverVars, link, lastSeq, kept>>
    BY <1>7 DEF Reload
  <2>2. /\ StoreOK' /\ Distinct(msgs') /\ lastSeq' = lastSeq
        /\ Len(msgs) <= CacheSize => msgs' = msgs
    BY <1>0, <1>7, <2>1, ReloadDoes
  <2>3. why' \subseteq {"overtaken", "page", "replaced", "trimmed"}
    BY <1>0, <2>1
  <2>4. why' = {} => why = {} /\ msgs' = msgs
    <3>1. Len(msgs) \in Nat /\ CacheSize \in Nat
      BY <1>0, LenProperties, SyncAssumption DEF StoreOK
    <3> QED
      BY <2>1, <2>2, <3>1
  <2>5. ListOnce' /\ Gapless'
    BY <2>1, <2>2, <2>3, <2>4 DEF SyncInv, ListOnce, Gapless, PullFits, GapsExplained, NoSync
  <2>6. ServerOK'
    BY <2>1, SameClient DEF SyncInv, ServerOK, serverVars
  <2> QED
    BY <2>1, <2>5, <2>6, Unmoved DEF SyncInv, serverVars
<1> QED
  BY <1>1, <1>2, <1>3, <1>4, <1>5, <1>6, <1>7 DEF View

(* A step of the specification keeps the invariant.                        *)
LEMMA SyncStep ==
  ASSUME SyncInv, [Next]_vars
  PROVE  SyncInv'
<1>1. CASE Next
  BY <1>1, ServerKeeps, ConnectionKeeps, RoundKeeps, ViewKeeps DEF Next
<1>2. CASE UNCHANGED vars
  <2>1. /\ client' = client
        /\ UNCHANGED <<busVars, serverVars, replies, netVars, storeVars, sync, viewVars>>
    BY <1>2 DEF vars
  <2> QED
    BY <2>1, Unmoved DEF SyncInv, serverVars
<1> QED
  BY <1>1, <1>2

(* Every state of the server, of the connections, of the store and of the  *)
(* requests under way has its type (store/chatStore.ts, sync/engine.ts).   *)
THEOREM SyncTypes == Spec => []TypeOK
<1>1. Init => SyncInv
  BY SyncInit
<1>2. SyncInv /\ [Next]_vars => SyncInv'
  BY SyncStep
<1>3. SyncInv => TypeOK
  BY SyncInvMeans
<1> QED
  BY <1>1, <1>2, <1>3, PTL DEF Spec

(* A message is shown once: whichever of the live event, the catch-up      *)
(* pull, the answer of the POST, the archive and the page of the view      *)
(* brings it, appendMessage and mergeMessages look for its id, and no      *)
(* answer on its way lists it twice.                                       *)
THEOREM MessagesShownOnce == Spec => []ShownOnce
<1>1. Init => SyncInv
  BY SyncInit
<1>2. SyncInv /\ [Next]_vars => SyncInv'
  BY SyncStep
<1>3. SyncInv => ShownOnce
  BY SyncInvMeans
<1> QED
  BY <1>1, <1>2, <1>3, PTL DEF Spec

(* Below the high-water mark nothing is missing unless a live event        *)
(* overtook the pull, the backfill was limited to one page, the view       *)
(* replaced the list or the cache was trimmed: the pull of sync/engine.ts  *)
(* starts from the mark as it was when the head was answered, at or below  *)
(* the mark as it is when the rows arrive.                                 *)
THEOREM GapsAlwaysExplained == Spec => []GapsExplained
<1>1. Init => SyncInv
  BY SyncInit
<1>2. SyncInv /\ [Next]_vars => SyncInv'
  BY SyncStep
<1>3. SyncInv => GapsExplained
  BY SyncInvMeans
<1> QED
  BY <1>1, <1>2, <1>3, PTL DEF Spec


(* What is on screen neither goes nor gets older.                          *)

(* The row r came with the edit that the client took from its socket.      *)
Heard(r) == /\ ws # None /\ buf[ws] # <<>> /\ buf'[ws] = Tail(buf[ws])
            /\ Head(buf[ws]) = [type |-> "chat.edit", seq |-> r.seq, ver |-> r.ver]
NoneGoes == SeqsOf(msgs) \subseteq SeqsOf(msgs') \/ (ws' = None /\ sync' = NoSync)
NoneOlder == \A i \in DOMAIN msgs, j \in DOMAIN msgs' :
               \/ msgs[i].seq # msgs'[j].seq
               \/ msgs'[j].ver >= msgs[i].ver
               \/ Heard(msgs'[j])

(* Who stays as it was is not older.                                       *)
LEMMA StaysNotOlder ==
  ASSUME SyncInv, Stays \/ msgs' = msgs
  PROVE  NoneOlder
<1> SUFFICES ASSUME NEW i \in DOMAIN msgs, NEW j \in DOMAIN msgs', msgs[i].seq = msgs'[j].seq
             PROVE  msgs'[j].ver >= msgs[i].ver
  BY DEF NoneOlder
<1>1. msgs[i].ver \in Nat
  <2>1. msgs[i] \in Row
    BY SeqFacts DEF SyncInv, ListOnce, StoreOK
  <2> QED
    BY <2>1, ClientKnown DEF SyncInv
<1>2. msgs'[j] = msgs[i]
  <2>1. CASE Stays
    BY <2>1 DEF Stays
  <2>2. CASE msgs' = msgs
    <3>1. j \in DOMAIN msgs /\ msgs[i].seq = msgs[j].seq
      BY <2>2
    <3>2. i = j
      BY <3>1 DEF SyncInv, ListOnce, Distinct
    <3> QED
      BY <2>2, <3>2
  <2> QED
    BY <2>1, <2>2
<1> QED
  BY <1>1, <1>2

(* An event delivered adds its message, or replaces its copy.              *)
LEMMA DeliveredStays ==
  ASSUME SyncInv, Deliver
  PROVE  NoneGoes /\ NoneOlder
<1> DEFINE ev == Head(buf[ws])
           got == [seq |-> ev.seq, ver |-> ev.ver]
<1>1. /\ client \in Clients /\ client' = client /\ ws \in Subs /\ ws # None /\ Receive(ws)
      /\ StoreOK /\ Distinct(msgs)
  BY DEF Deliver, SyncInv, ServerOK, ListOnce
<1>2. ev \in Event
  BY <1>1, BusKeepsTypes DEF SyncInv
<1>3. got \in Row /\ ev = [type |-> ev.type, seq |-> ev.seq, ver |-> ev.ver]
  BY <1>2 DEF Event, Row
<1>4. buf[ws] # <<>> /\ buf'[ws] = Tail(buf[ws])
  BY <1>1 DEF Receive, SyncInv, BusTypeOK
<1>5. CASE AppendRows(<<got>>)
  <2>1. <<got>> \in Seq(Row) /\ Distinct(<<got>>)
    BY <1>3 DEF Distinct
  <2>2. Stays /\ SeqsOf(msgs') = SeqsOf(msgs) \cup SeqsOf(<<got>>)
    BY <1>1, <1>5, <2>1, AppendDoes
  <2> QED
    BY <2>2, StaysNotOlder DEF NoneGoes
<1>6. CASE ev.type = "chat.edit" /\ Replace(got)
  <2>1. /\ SeqsOf(msgs') = SeqsOf(msgs) /\ DOMAIN msgs' = DOMAIN msgs
        /\ \A i \in DOMAIN msgs : msgs'[i].seq = msgs[i].seq /\ msgs'[i] \in {msgs[i], got}
    BY <1>1, <1>3, <1>6, ReplaceDoes
  <2>2. NoneOlder
    <3> SUFFICES ASSUME NEW i \in DOMAIN msgs, NEW j \in DOMAIN msgs', msgs[i].seq = msgs'[j].seq
                 PROVE  msgs'[j].ver >= msgs[i].ver \/ Heard(msgs'[j])
      BY DEF NoneOlder
    <3>1. i = j /\ msgs'[j] \in {msgs[i], got}
      BY <2>1 DEF SyncInv, ListOnce, Distinct
    <3>2. msgs[i].ver \in Nat
      <4>1. msgs[i] \in Row
        BY SeqFacts DEF SyncInv, ListOnce, StoreOK
      <4> QED
        BY <4>1, ClientKnown DEF SyncInv
    <3>3. CASE msgs'[j] = msgs[i]
      BY <3>2, <3>3
    <3>4. CASE msgs'[j] = got
      <4>1. Head(buf[ws]) = [type |-> "chat.edit", seq |-> msgs'[j].seq, ver |-> msgs'[j].ver]
        BY <1>3, <1>6, <3>4
      <4> QED
        BY <1>1, <1>4, <4>1 DEF Heard
    <3> QED
      BY <3>1, <3>3, <3>4
  <2> QED
    BY <2>1, <2>2 DEF NoneGoes
<1> QED
  BY <1>5, <1>6 DEF Deliver

(* With the archive, no step takes a message from the list or puts an      *)
(* older copy in its place, but the restart and an edit.                   *)
LEMMA StepStays ==
  ASSUME SyncInv, [Next]_vars, Archive
  PROVE  NoneGoes /\ NoneOlder
<1>0. /\ client \in Clients /\ client' = client /\ StoreOK /\ Distinct(msgs)
  BY DEF SyncInv, ListOnce, Next, Server, Connection, Round, View, Reload, vars,
         Commit, Rewrite, PublishNext, ServerRestarts, Connect, Attach, Detach, SocketOpened,
         SocketLost, Deliver, PostAnswered, AnswerLost, ServeHead, GotHead, ServePull, GotRows,
         SyncFails, OpenView, GotArchive, ServeRecent, GotRecent, FetchFails, CloseView
<1>1. CASE msgs' = msgs
  BY <1>1, StaysNotOlder DEF NoneGoes
<1>2. CASE Deliver
  BY <1>2, DeliveredStays
<1>3. ASSUME NEW n \in replies, PostAnswered(n)
      PROVE  NoneGoes /\ NoneOlder
  <2> DEFINE got == [seq |-> n, ver |-> 1]
  <2>1. got \in Row /\ AppendRows(<<got>>)
    BY <1>3, ClientKnown DEF PostAnswered, SyncInv, ServerOK
  <2>2. <<got>> \in Seq(Row) /\ Distinct(<<got>>)
    BY <2>1 DEF Distinct
  <2>3. Stays /\ SeqsOf(msgs') = SeqsOf(msgs) \cup SeqsOf(<<got>>)
    BY <1>0, <2>1, <2>2, AppendDoes
  <2> QED
    BY <2>3, StaysNotOlder DEF NoneGoes
<1>4. CASE GotRows
  <2>1. sync.rows \in Seq(Row) /\ Distinct(sync.rows) /\ AppendRows(sync.rows)
    BY <1>4 DEF GotRows, SyncInv, RoundOnce
  <2>2. Stays /\ SeqsOf(msgs') = SeqsOf(msgs) \cup SeqsOf(sync.rows)
    BY <1>0, <2>1, AppendDoes
  <2> QED
    BY <2>2, StaysNotOlder DEF NoneGoes
<1>5. CASE GotArchive
  <2>1. local \in Seq(Row) /\ Distinct(local) /\ MergeRows(local)
    BY <1>5 DEF GotArchive, SyncInv, ViewOnce
  <2>2. Stays /\ SeqsOf(msgs') = SeqsOf(msgs) \cup SeqsOf(local)
    BY <1>0, <2>1, MergeDoes
  <2> QED
    BY <2>2, StaysNotOlder DEF NoneGoes
<1>6. CASE GotRecent
  <2>1. fetch.rows \in Seq(Row) /\ Distinct(fetch.rows) /\ MergeRows(fetch.rows)
    BY <1>6 DEF GotRecent, SyncInv, ViewOnce
  <2>2. Stays /\ SeqsOf(msgs') = SeqsOf(msgs) \cup SeqsOf(fetch.rows)
    BY <1>0, <2>1, MergeDoes
  <2> QED
    BY <2>2, StaysNotOlder DEF NoneGoes
<1>7. CASE Reload
  <2>1. Stays /\ ws' = None /\ sync' = NoSync
    BY <1>0, <1>7, ReloadDoes DEF Reload
  <2> QED
    BY <2>1, StaysNotOlder DEF NoneGoes
<1> QED
  <2>1. \/ msgs' = msgs \/ Deliver \/ GotRows \/ GotArchive \/ GotRecent \/ Reload
        \/ \E n \in replies : PostAnswered(n)
    BY DEF Next, Server, Connection, Round, View, vars, storeVars,
           Commit, Rewrite, PublishNext, ServerRestarts, Connect, Attach, Detach, SocketOpened,
           SocketLost, AnswerLost, ServeHead, GotHead, ServePull,
           SyncFails, OpenView, ServeRecent, FetchFails, CloseView
  <2> QED
    BY <2>1, <1>1, <1>2, <1>3, <1>4, <1>5, <1>6, <1>7

(* With the archive what is on screen stays, and its copy gets older only  *)
(* when an edit published earlier is delivered later: mergeMessages keeps  *)
(* the copy the list has, whatever page or pull comes late.                *)
THEOREM ShownAlwaysStays == Spec => ShownStays
<1>1. Init => SyncInv
  BY SyncInit
<1>2. SyncInv /\ [Next]_vars => SyncInv'
  BY SyncStep
<1>3. SyncInv /\ [Next]_vars
        => [Archive /\ SeqsOf(msgs') # SeqsOf(msgs)
              => SeqsOf(msgs) \subseteq SeqsOf(msgs') \/ (ws' = None /\ sync' = NoSync)]_vars
  BY StepStays DEF NoneGoes
<1>4. SyncInv /\ [Next]_vars
        => [Archive => \A i \in DOMAIN msgs, j \in DOMAIN msgs' :
              \/ msgs[i].seq # msgs'[j].seq
              \/ msgs'[j].ver >= msgs[i].ver
              \/ /\ ws # None /\ buf[ws] # <<>> /\ buf'[ws] = Tail(buf[ws])
                 /\ Head(buf[ws]) = [type |-> "chat.edit", seq |-> msgs'[j].seq,
                                     ver |-> msgs'[j].ver]]_vars
  BY StepStays DEF NoneOlder, Heard
<1>5. Spec => StaysShown
  BY <1>1, <1>2, <1>3, PTL DEF Spec, StaysShown
<1>6. Spec => NeverReverts
  BY <1>1, <1>2, <1>4, PTL DEF Spec, NeverReverts
<1> QED
  BY <1>5, <1>6 DEF ShownStays

=============================================================================
