------------------------- MODULE AccountPoolProofs -------------------------
(* Proofs about AccountPool for any number of users, selections and        *)
(* administrators, any segment size and any draw size.                     *)
EXTENDS AccountPool, TLAPS

-----------------------------------------------------------------------------
(* Reserving numbers *)

\* A batch consists of numbers of the pool that are unclaimed and that nobody
\* holds an unexpired reservation of.
LEMMA BatchIsFree ==
  ASSUME NEW o, NEW h, NEW exclude, NEW b \in Batches(o, h, exclude)
  PROVE  /\ b \subseteq Numbers
         /\ \A n \in b : claimed[n] = Nil /\ (h[n] = Nil \/ n \in past) /\ n \notin exclude
BY Zenon DEF Batches, Stock

LEMMA CapacityType ==
  ASSUME opened \in 1..MaxSegments, NEW o \in Capacity
  PROVE  o \in 1..MaxSegments
BY PoolAssumption, SMT DEF Capacity

\* What the two updates of the reservations return.
LEMMA HeldUpdates ==
  ASSUME NEW h \in [Numbers -> Selections \union {Nil}], NEW nos, NEW s \in Selections
  PROVE  /\ Without(h, nos) \in [Numbers -> Selections \union {Nil}]
         /\ With(h, nos, s) \in [Numbers -> Selections \union {Nil}]
         /\ \A n \in Numbers : Without(h, nos)[n] = IF n \in nos THEN Nil ELSE h[n]
         /\ \A n \in Numbers : With(h, nos, s)[n] = IF n \in nos THEN s ELSE h[n]
BY DEF Without, With

LEMMA WithoutUpdate ==
  ASSUME NEW h \in [Numbers -> Selections \union {Nil}], NEW nos
  PROVE  /\ Without(h, nos) \in [Numbers -> Selections \union {Nil}]
         /\ \A n \in Numbers : Without(h, nos)[n] = IF n \in nos THEN Nil ELSE h[n]
BY DEF Without

-----------------------------------------------------------------------------
(* Types *)

LEMMA TypeInit == PoolInit => PoolTypeOK
<1> SUFFICES ASSUME PoolInit PROVE PoolTypeOK
  OBVIOUS
<1>1. opened \in 1..MaxSegments
  BY PoolAssumption, SMT DEF PoolInit
<1>2. selection \in [Selections -> Sessions]
  <2>1. [state |-> "new", nos |-> {}, refreshes |-> 0] \in Sessions
    BY PoolAssumption, SMT DEF Sessions, States
  <2> QED BY <2>1 DEF PoolInit
<1>3. /\ locked \subseteq Premium
      /\ claimed \in [Numbers -> Users \union {Nil}]
      /\ held \in [Numbers -> Selections \union {Nil}]
      /\ past \subseteq {n \in Numbers : held[n] # Nil}
      /\ account \in [Users -> Numbers \union {Nil, Gone}]
      /\ verified \subseteq Users
      /\ grant \in [Admins -> Swaps \union {Nil}]
      /\ disturbed \subseteq Numbers /\ released \subseteq Premium
  BY DEF PoolInit
<1> QED BY <1>1, <1>2, <1>3 DEF PoolTypeOK

\* The three parts of the typing that a step on the reservations disturbs.
LEMMA TypeDraw ==
  ASSUME PoolTypeOK, NEW s \in Selections, Draw(s)
  PROVE  PoolTypeOK'
<1>0. PICK o \in Capacity : \E batch \in Batches(o, held, {}) :
        /\ opened' = o
        /\ held' = With(held, batch, s)
        /\ past' = past \ batch
        /\ selection' = [selection EXCEPT
             ![s] = [state |-> "live", nos |-> batch, refreshes |-> 0]]
  BY DEF Draw
<1>1. PICK batch \in Batches(o, held, {}) :
        /\ opened' = o
        /\ held' = With(held, batch, s)
        /\ past' = past \ batch
        /\ selection' = [selection EXCEPT
             ![s] = [state |-> "live", nos |-> batch, refreshes |-> 0]]
  BY <1>0
<1>2. opened' \in 1..MaxSegments
  BY <1>1, CapacityType DEF PoolTypeOK
<1>3. batch \subseteq Numbers
  BY <1>1, BatchIsFree
<1>4. /\ held' \in [Numbers -> Selections \union {Nil}]
      /\ past' \subseteq {n \in Numbers : held'[n] # Nil}
  <2>1. held \in [Numbers -> Selections \union {Nil}] /\ past \subseteq {n \in Numbers : held[n] # Nil}
    BY DEF PoolTypeOK
  <2> QED BY <1>1, <2>1, HeldUpdates
<1>5. selection' \in [Selections -> Sessions]
  <2>1. [state |-> "live", nos |-> batch, refreshes |-> 0] \in Sessions
    BY <1>3, PoolAssumption, SMT DEF Sessions, States
  <2> QED BY <1>1, <2>1 DEF PoolTypeOK
<1> QED BY <1>2, <1>4, <1>5 DEF Draw, PoolTypeOK

LEMMA TypeRefresh ==
  ASSUME PoolTypeOK, NEW s \in Selections, Refresh(s)
  PROVE  PoolTypeOK'
<1> DEFINE old == selection[s].nos
           rest == Without(held, old)
<1>1. PICK batch \in Batches(opened, rest, old) :
        /\ held' = With(rest, batch, s)
        /\ past' = past \ (old \union batch)
        /\ selection' = [selection EXCEPT ![s].nos = batch, ![s].refreshes = @ + 1]
  BY DEF Refresh
<1>2. batch \subseteq Numbers
  BY <1>1, BatchIsFree
<1>3. /\ held' \in [Numbers -> Selections \union {Nil}]
      /\ past' \subseteq {n \in Numbers : held'[n] # Nil}
  <2>1. held \in [Numbers -> Selections \union {Nil}] /\ past \subseteq {n \in Numbers : held[n] # Nil}
    BY DEF PoolTypeOK
  <2>2. /\ rest \in [Numbers -> Selections \union {Nil}]
        /\ \A n \in Numbers : rest[n] = IF n \in old THEN Nil ELSE held[n]
    BY <2>1, WithoutUpdate
  <2> HIDE DEF rest, old
  <2>3. /\ With(rest, batch, s) \in [Numbers -> Selections \union {Nil}]
        /\ \A n \in Numbers : With(rest, batch, s)[n] = IF n \in batch THEN s ELSE rest[n]
    BY <2>2, HeldUpdates
  <2>4. s # Nil
    BY PoolAssumption
  <2> QED BY <1>1, <2>1, <2>2, <2>3, <2>4
<1>4. selection' \in [Selections -> Sessions]
  <2>1. selection[s] \in Sessions /\ selection[s].refreshes < MaxRefreshes
    BY DEF Refresh, PoolTypeOK
  <2>2. selection[s].refreshes + 1 \in 0..MaxRefreshes
    BY <2>1, PoolAssumption, SMT DEF Sessions
  <2>3. [selection[s] EXCEPT !.nos = batch, !.refreshes = @ + 1] \in Sessions
    BY <1>2, <2>1, <2>2 DEF Sessions
  <2>4. selection' = [selection EXCEPT ![s] = [selection[s] EXCEPT !.nos = batch, !.refreshes = @ + 1]]
    BY <1>1
  <2> QED BY <2>3, <2>4 DEF PoolTypeOK
<1> QED BY <1>3, <1>4 DEF Refresh, PoolTypeOK

LEMMA TypeLapse ==
  ASSUME PoolTypeOK, NEW s \in Selections, Lapse(s)
  PROVE  PoolTypeOK'
<1>1. s # Nil
  BY PoolAssumption
<1>2. past' \subseteq {n \in Numbers : held'[n] # Nil} /\ disturbed' \subseteq Numbers
  BY <1>1 DEF Lapse, PoolTypeOK
<1> QED BY <1>2 DEF Lapse, PoolTypeOK

LEMMA TypeExpire ==
  ASSUME PoolTypeOK, NEW s \in Selections, Expire(s)
  PROVE  PoolTypeOK'
<1>1. selection' \in [Selections -> Sessions]
  <2>1. [selection[s] EXCEPT !.state = "expired"] \in Sessions
    BY DEF PoolTypeOK, Sessions, States
  <2> QED BY <2>1 DEF Expire, PoolTypeOK
<1> QED BY <1>1 DEF Expire, PoolTypeOK, pool

\* Clearing the reservations of a set of numbers keeps held and past in step.
LEMMA ClearingTypes ==
  ASSUME PoolTypeOK, NEW nos, held' = Without(held, nos), past' = past \ nos
  PROVE  /\ held' \in [Numbers -> Selections \union {Nil}]
         /\ past' \subseteq {n \in Numbers : held'[n] # Nil}
<1>1. held \in [Numbers -> Selections \union {Nil}] /\ past \subseteq {n \in Numbers : held[n] # Nil}
  BY DEF PoolTypeOK
<1> QED BY <1>1, WithoutUpdate

LEMMA TypeRegister ==
  ASSUME PoolTypeOK, NEW s \in Selections, NEW u \in Users, NEW n \in Numbers, Register(s, u, n)
  PROVE  PoolTypeOK'
<1>1. /\ held' \in [Numbers -> Selections \union {Nil}]
      /\ past' \subseteq {m \in Numbers : held'[m] # Nil}
  BY ClearingTypes DEF Register
<1>2. selection' \in [Selections -> Sessions]
  <2>1. [selection[s] EXCEPT !.state = "gone"] \in Sessions
    BY DEF PoolTypeOK, Sessions, States
  <2> QED BY <2>1 DEF Register, PoolTypeOK
<1> QED BY <1>1, <1>2 DEF Register, PoolTypeOK

LEMMA TypeSweep ==
  ASSUME PoolTypeOK, SweepUsers \/ SweepSelections \/ SweepStale
  PROVE  PoolTypeOK'
<1>1. CASE SweepUsers
  <2>1. PICK dropped \in SUBSET Users :
          /\ account' = [u \in Users |-> IF u \in dropped THEN Gone ELSE account[u]]
          /\ claimed' = [n \in Numbers |-> IF claimed[n] \in dropped THEN Nil ELSE claimed[n]]
    BY <1>1 DEF SweepUsers
  <2> QED BY <1>1, <2>1 DEF SweepUsers, PoolTypeOK
<1>2. CASE SweepSelections
  <2>1. /\ held' \in [Numbers -> Selections \union {Nil}]
        /\ past' \subseteq {m \in Numbers : held'[m] # Nil}
    BY <1>2, ClearingTypes DEF SweepSelections
  <2>2. selection' \in [Selections -> Sessions]
    <3>1. \A s \in Selections : [selection[s] EXCEPT !.state = "gone"] \in Sessions
      BY DEF PoolTypeOK, Sessions, States
    <3> QED BY <1>2, <3>1 DEF SweepSelections, PoolTypeOK
  <2> QED BY <1>2, <2>1, <2>2 DEF SweepSelections, PoolTypeOK
<1>3. CASE SweepStale
  <2>1. /\ held' \in [Numbers -> Selections \union {Nil}]
        /\ past' \subseteq {m \in Numbers : held'[m] # Nil}
    BY <1>3, ClearingTypes DEF SweepStale
  <2> QED BY <1>3, <2>1 DEF SweepStale, PoolTypeOK
<1> QED BY <1>1, <1>2, <1>3

LEMMA TypeGrant ==
  ASSUME PoolTypeOK, NEW a \in Admins,
         GrantFind(a) \/ GrantCheck(a) \/ GrantSwap(a) \/ GrantFails(a)
  PROVE  PoolTypeOK'
<1>1. CASE GrantFind(a)
  <2>1. PICK u \in Users, p \in Numbers :
          /\ account[u] \in Numbers
          /\ grant' = [grant EXCEPT
               ![a] = [phase |-> "found", no |-> p, user |-> u, old |-> account[u]]]
    BY <1>1 DEF GrantFind
  <2>2. [phase |-> "found", no |-> p, user |-> u, old |-> account[u]] \in Swaps
    BY <2>1 DEF Swaps
  <2> QED BY <1>1, <2>1, <2>2 DEF GrantFind, PoolTypeOK, pool
<1>2. CASE GrantCheck(a)
  <2>1. grant[a] \in Swaps
    BY <1>2 DEF GrantCheck, PoolTypeOK
  <2>2. [grant[a] EXCEPT !.phase = "checked"] \in Swaps
    BY <2>1 DEF Swaps
  <2> QED BY <1>2, <2>2 DEF GrantCheck, PoolTypeOK, pool
<1>3. CASE GrantSwap(a)
  <2>1. grant[a] \in Swaps
    BY <1>3 DEF GrantSwap, PoolTypeOK
  <2>2. grant[a].no \in Numbers /\ grant[a].old \in Numbers /\ grant[a].user \in Users
    BY <2>1 DEF Swaps
  <2>3. /\ held' \in [Numbers -> Selections \union {Nil}]
        /\ past' \subseteq {m \in Numbers : held'[m] # Nil}
    BY <1>3, ClearingTypes DEF GrantSwap
  <2> QED BY <1>3, <2>2, <2>3 DEF GrantSwap, PoolTypeOK
<1>4. CASE GrantFails(a)
  BY <1>4 DEF GrantFails, PoolTypeOK, pool
<1> QED BY <1>1, <1>2, <1>3, <1>4

LEMMA TypeStep == PoolTypeOK /\ [PoolNext]_poolVars => PoolTypeOK'
<1> SUFFICES ASSUME PoolTypeOK, [PoolNext]_poolVars PROVE PoolTypeOK'
  OBVIOUS
<1>1. CASE \E s \in Selections : Draw(s) \/ Refresh(s) \/ Lapse(s) \/ Expire(s)
  BY <1>1, TypeDraw, TypeRefresh, TypeLapse, TypeExpire
<1>2. CASE DrawFails
  <2>1. opened' \in 1..MaxSegments
    BY <1>2, CapacityType DEF DrawFails, PoolTypeOK
  <2> QED BY <1>2, <2>1 DEF DrawFails, PoolTypeOK
<1>3. CASE \E s \in Selections, u \in Users, n \in Numbers : Register(s, u, n)
  BY <1>3, TypeRegister
<1>4. CASE \E u \in Users : VerifyEmail(u)
  BY <1>4 DEF VerifyEmail, PoolTypeOK, pool
<1>5. CASE SweepUsers \/ SweepSelections \/ SweepStale
  BY <1>5, TypeSweep
<1>6. CASE \E a \in Admins : GrantFind(a) \/ GrantCheck(a) \/ GrantSwap(a) \/ GrantFails(a)
  BY <1>6, TypeGrant
<1>7. CASE \E n \in Numbers : ReleasePremium(n)
  BY <1>7 DEF ReleasePremium, PoolTypeOK
<1>8. CASE UNCHANGED poolVars
  BY <1>8 DEF poolVars, PoolTypeOK
<1> QED BY <1>1, <1>2, <1>3, <1>4, <1>5, <1>6, <1>7, <1>8 DEF PoolNext

\* The pool keeps its types, and a number whose reservation has lapsed is a
\* number with a reservation, however the handlers and the sweep interleave.
THEOREM PoolTypes == PoolSpec => []PoolTypeOK
<1>1. PoolInit => PoolTypeOK
  BY TypeInit
<1>2. PoolTypeOK /\ [PoolNext]_poolVars => PoolTypeOK'
  BY TypeStep
<1> QED BY <1>1, <1>2, PTL DEF PoolSpec

-----------------------------------------------------------------------------
(* The books of the pool *)

\* What a running grant has read of the recipient still holds, or he is gone.
GrantCurrent ==
  \A a \in Admins : grant[a] # Nil =>
    account[grant[a].user] \in {grant[a].old, Gone} /\ grant[a].no # grant[a].old

BooksInv == PoolTypeOK /\ Books /\ GrantCurrent

LEMMA BooksInit == PoolInit => BooksInv
<1> SUFFICES ASSUME PoolInit PROVE Books /\ GrantCurrent
  BY TypeInit DEF BooksInv
<1>1. Books
  BY PoolAssumption DEF PoolInit, Books
<1> QED BY <1>1 DEF PoolInit, GrantCurrent

\* Steps that touch neither table nor any grant.
LEMMA BooksUntouched ==
  ASSUME Books, GrantCurrent, UNCHANGED <<claimed, account, grant>>
  PROVE  Books' /\ GrantCurrent'
BY DEF Books, GrantCurrent

LEMMA BooksRegister ==
  ASSUME BooksInv, NEW s \in Selections, NEW u \in Users, NEW n \in Numbers, Register(s, u, n)
  PROVE  Books' /\ GrantCurrent'
<1>1. /\ claimed \in [Numbers -> Users \union {Nil}]
      /\ account \in [Users -> Numbers \union {Nil, Gone}]
      /\ grant \in [Admins -> Swaps \union {Nil}]
  BY DEF BooksInv, PoolTypeOK
<1>2. /\ account[u] = Nil /\ (\A v \in Users : account[v] # n) /\ claimed[n] = Nil
      /\ account' = [account EXCEPT ![u] = n]
      /\ claimed' = [claimed EXCEPT ![n] = u]
      /\ grant' = grant
  BY DEF Register
<1>3. Books'
  BY <1>1, <1>2, PoolAssumption DEF BooksInv, Books
<1>4. ASSUME NEW a \in Admins, grant[a] # Nil
      PROVE  grant[a].user # u
  <2>1. grant[a] \in Swaps
    BY <1>1, <1>4
  <2>2. grant[a].old \in Numbers
    BY <2>1 DEF Swaps
  <2>3. account[grant[a].user] \in {grant[a].old, Gone}
    BY <1>4 DEF BooksInv, GrantCurrent
  <2> QED BY <1>2, <2>2, <2>3, PoolAssumption
<1>5. GrantCurrent'
  <2> SUFFICES ASSUME NEW a \in Admins, grant[a] # Nil
               PROVE  account'[grant[a].user] \in {grant[a].old, Gone} /\ grant[a].no # grant[a].old
    BY <1>2 DEF GrantCurrent
  <2>1. account'[grant[a].user] = account[grant[a].user]
    BY <1>1, <1>2, <1>4
  <2> QED BY <2>1 DEF BooksInv, GrantCurrent
<1> QED BY <1>3, <1>5

LEMMA BooksSweepUsers ==
  ASSUME BooksInv, SweepUsers
  PROVE  Books' /\ GrantCurrent'
<1>1. PICK dropped \in SUBSET Users :
        /\ \A u \in dropped : account[u] \in Numbers
        /\ account' = [u \in Users |-> IF u \in dropped THEN Gone ELSE account[u]]
        /\ claimed' = [n \in Numbers |-> IF claimed[n] \in dropped THEN Nil ELSE claimed[n]]
        /\ grant' = grant
  BY DEF SweepUsers
<1>2. Books'
  BY <1>1, PoolAssumption DEF BooksInv, PoolTypeOK, Books
<1>3. ASSUME NEW a \in Admins, grant[a] # Nil
      PROVE  grant[a].user \in Users
  <2>1. grant[a] \in Swaps
    BY <1>3 DEF BooksInv, PoolTypeOK
  <2> QED BY <2>1 DEF Swaps
<1>4. GrantCurrent'
  BY <1>1, <1>3 DEF BooksInv, GrantCurrent
<1> QED BY <1>2, <1>4

\* The swap: with one administrator nobody else has moved the recipient's
\* number, and UNIQUE refuses a premium number that has an owner.
LEMMA BooksGrantSwap ==
  ASSUME BooksInv, \A b, c \in Admins : b = c, NEW a \in Admins, GrantSwap(a)
  PROVE  Books' /\ GrantCurrent'
<1> DEFINE g == grant[a]
<1>1. g \in Swaps
  BY DEF BooksInv, PoolTypeOK, GrantSwap
<1>2. /\ g.user \in Users /\ g.no \in Numbers /\ g.old \in Numbers
      /\ g.no # g.old
      /\ account[g.user] = g.old
  <2>1. g.user \in Users /\ g.no \in Numbers /\ g.old \in Numbers
    BY <1>1 DEF Swaps
  <2>2. account[g.user] \in {g.old, Gone} /\ g.no # g.old
    BY DEF BooksInv, GrantCurrent, GrantSwap
  <2>3. account[g.user] \in Numbers
    BY DEF GrantSwap, SwapRefused
  <2> QED BY <2>1, <2>2, <2>3, PoolAssumption
<1>3. \A v \in Users : account[v] # g.no
  BY <1>2 DEF GrantSwap, SwapRefused
<1>4. /\ claimed' = [claimed EXCEPT ![g.no] = g.user, ![g.old] = Nil]
      /\ account' = [account EXCEPT ![g.user] = g.no]
      /\ grant' = [grant EXCEPT ![a] = Nil]
  BY DEF GrantSwap
<1>5. /\ claimed \in [Numbers -> Users \union {Nil}]
      /\ account \in [Users -> Numbers \union {Nil, Gone}]
      /\ grant \in [Admins -> Swaps \union {Nil}]
      /\ Books
  BY DEF BooksInv, PoolTypeOK
<1> HIDE DEF g
<1>6. Books'
  <2> SUFFICES ASSUME NEW u \in Users, NEW n \in Numbers
               PROVE  claimed'[n] = u <=> account'[u] = n
    BY DEF Books
  <2>1. claimed[n] = u <=> account[u] = n
    BY <1>5 DEF Books
  <2>2. CASE n = g.no
    BY <1>2, <1>3, <1>4, <1>5, <2>2
  <2>3. CASE n = g.old
    <3>1. claimed'[n] = Nil
      BY <1>2, <1>4, <1>5, <2>3
    <3>2. account'[u] # n
      BY <1>2, <1>4, <1>5, <2>3 DEF Books
    <3> QED BY <3>1, <3>2, PoolAssumption
  <2>4. CASE n # g.no /\ n # g.old
    BY <1>2, <1>4, <1>5, <2>1, <2>4
  <2> QED BY <2>2, <2>3, <2>4
<1>7. GrantCurrent'
  BY <1>4, <1>5 DEF GrantCurrent
<1> QED BY <1>6, <1>7

LEMMA BooksGrant ==
  ASSUME BooksInv, \A b, c \in Admins : b = c, NEW a \in Admins,
         GrantFind(a) \/ GrantCheck(a) \/ GrantSwap(a) \/ GrantFails(a)
  PROVE  Books' /\ GrantCurrent'
<1>1. grant \in [Admins -> Swaps \union {Nil}]
  BY DEF BooksInv, PoolTypeOK
<1>2. CASE GrantFind(a)
  <2>1. PICK u \in Users, p \in Numbers :
          /\ account[u] # p
          /\ grant' = [grant EXCEPT
               ![a] = [phase |-> "found", no |-> p, user |-> u, old |-> account[u]]]
    BY <1>2 DEF GrantFind
  <2>2. UNCHANGED <<claimed, account>>
    BY <1>2 DEF GrantFind, pool
  <2> QED BY <1>1, <2>1, <2>2 DEF BooksInv, Books, GrantCurrent
<1>3. CASE GrantCheck(a)
  <2>1. UNCHANGED <<claimed, account>>
    BY <1>3 DEF GrantCheck, pool
  <2>2. grant[a] \in Swaps
    BY <1>1, <1>3 DEF GrantCheck
  <2>3. PICK h :
          /\ h.user = grant[a].user /\ h.old = grant[a].old /\ h.no = grant[a].no
          /\ \/ grant' = [grant EXCEPT ![a] = Nil]
             \/ grant' = [grant EXCEPT ![a] = h]
    <3> DEFINE k == [grant[a] EXCEPT !.phase = "checked"]
    <3>1. k.user = grant[a].user /\ k.old = grant[a].old /\ k.no = grant[a].no
      BY <2>2 DEF Swaps
    <3>2. \/ grant' = [grant EXCEPT ![a] = Nil]
          \/ grant' = [grant EXCEPT ![a] = k]
      BY <1>3, Zenon DEF GrantCheck
    <3> QED BY <3>1, <3>2
  <2>4. grant[a] # Nil
    BY <1>3 DEF GrantCheck
  <2> QED BY <1>1, <2>1, <2>3, <2>4 DEF BooksInv, Books, GrantCurrent
<1>4. CASE GrantSwap(a)
  BY <1>4, BooksGrantSwap
<1>5. CASE GrantFails(a)
  BY <1>1, <1>5 DEF GrantFails, pool, BooksInv, Books, GrantCurrent
<1> QED BY <1>2, <1>3, <1>4, <1>5

LEMMA BooksStep ==
  ASSUME \A b, c \in Admins : b = c, BooksInv, [PoolNext]_poolVars
  PROVE  BooksInv'
<1> SUFFICES Books' /\ GrantCurrent'
  BY TypeStep DEF BooksInv
<1>0. Books /\ GrantCurrent
  BY DEF BooksInv
<1>1. CASE \E s \in Selections : Draw(s) \/ Refresh(s) \/ Lapse(s) \/ Expire(s)
  <2>1. UNCHANGED <<claimed, account, grant>>
    BY <1>1 DEF Draw, Refresh, Lapse, Expire, pool
  <2> QED BY <1>0, <2>1, BooksUntouched
<1>2. CASE DrawFails
  BY <1>0, <1>2, BooksUntouched DEF DrawFails
<1>3. CASE \E s \in Selections, u \in Users, n \in Numbers : Register(s, u, n)
  BY <1>3, BooksRegister
<1>4. CASE \E u \in Users : VerifyEmail(u)
  BY <1>0, <1>4, BooksUntouched DEF VerifyEmail, pool
<1>5. CASE SweepUsers
  BY <1>5, BooksSweepUsers
<1>6. CASE SweepSelections \/ SweepStale
  BY <1>0, <1>6, BooksUntouched DEF SweepSelections, SweepStale
<1>7. CASE \E a \in Admins : GrantFind(a) \/ GrantCheck(a) \/ GrantSwap(a) \/ GrantFails(a)
  BY <1>7, BooksGrant
<1>8. CASE \E n \in Numbers : ReleasePremium(n)
  BY <1>0, <1>8, BooksUntouched DEF ReleasePremium
<1>9. CASE UNCHANGED poolVars
  BY <1>0, <1>9, BooksUntouched DEF poolVars
<1> QED BY <1>1, <1>2, <1>3, <1>4, <1>5, <1>6, <1>7, <1>8, <1>9 DEF PoolNext

\* As long as one administrator at a time grants numbers, the users table and
\* the pool agree in every state, whatever is drawn, registered, purged and
\* swept meanwhile.  (With two, MCPoolTwoAdmins shows that they need not.)
THEOREM PoolBooks == (\A a, b \in Admins : a = b) => (PoolSpec => []Books)
<1> SUFFICES ASSUME \A a, b \in Admins : a = b PROVE PoolSpec => []Books
  OBVIOUS
<1>1. PoolInit => BooksInv
  BY BooksInit
<1>2. BooksInv /\ [PoolNext]_poolVars => BooksInv'
  BY BooksStep
<1>3. BooksInv => Books
  BY DEF BooksInv
<1> QED BY <1>1, <1>2, <1>3, PTL DEF PoolSpec
-----------------------------------------------------------------------------
(* Disjoint offers *)

\* What a live selection lists is held for it until something disturbs it,
\* and an expired selection lists only numbers that have lapsed.
HeldForIt ==
  /\ \A s \in Selections : Live(s) =>
       \A n \in selection[s].nos \ disturbed : held[n] = s /\ n \notin past
  /\ \A s \in Selections : selection[s].state = "expired" =>
       selection[s].nos \subseteq disturbed

OfferInv == PoolTypeOK /\ HeldForIt

LEMMA OfferInit == PoolInit => OfferInv
BY TypeInit DEF PoolInit, OfferInv, HeldForIt, Live

\* Steps that touch no reservation and no selection.
LEMMA OfferUntouched ==
  ASSUME HeldForIt, UNCHANGED <<held, past, selection, disturbed>>
  PROVE  HeldForIt'
BY DEF HeldForIt, Live

\* Releasing numbers of which no other live selection was promised any.
LEMMA OfferCleared ==
  ASSUME OfferInv, NEW nos,
         held' = Without(held, nos), past' = past \ nos, disturbed \subseteq disturbed',
         \A s \in Selections : selection'[s] = selection[s] \/ selection'[s].state = "gone",
         \A s \in Selections : Live(s)' => nos \intersect selection[s].nos \subseteq disturbed'
  PROVE  HeldForIt'
<1>1. /\ held \in [Numbers -> Selections \union {Nil}]
      /\ selection \in [Selections -> Sessions] /\ HeldForIt
  BY DEF OfferInv, PoolTypeOK
<1>2. \A n \in Numbers : held'[n] = IF n \in nos THEN Nil ELSE held[n]
  BY <1>1, WithoutUpdate
<1>3. \A s \in Selections : selection[s].nos \subseteq Numbers
  BY <1>1 DEF Sessions
<1>4. ASSUME NEW s \in Selections, Live(s)'
      PROVE  \A n \in selection'[s].nos \ disturbed' : held'[n] = s /\ n \notin past'
  <2>1. selection'[s] = selection[s] /\ Live(s)
    BY <1>4 DEF Live
  <2> QED BY <1>1, <1>2, <1>3, <1>4, <2>1 DEF HeldForIt
<1>5. ASSUME NEW s \in Selections, selection'[s].state = "expired"
      PROVE  selection'[s].nos \subseteq disturbed'
  BY <1>1, <1>5 DEF HeldForIt
<1> QED BY <1>4, <1>5 DEF HeldForIt

LEMMA OfferDraw ==
  ASSUME OfferInv, NEW s \in Selections, Draw(s)
  PROVE  HeldForIt'
<1>0. PICK o \in Capacity : \E batch \in Batches(o, held, {}) :
        /\ held' = With(held, batch, s)
        /\ past' = past \ batch
        /\ selection' = [selection EXCEPT
             ![s] = [state |-> "live", nos |-> batch, refreshes |-> 0]]
  BY DEF Draw
<1>1. PICK batch \in Batches(o, held, {}) :
        /\ held' = With(held, batch, s)
        /\ past' = past \ batch
        /\ selection' = [selection EXCEPT
             ![s] = [state |-> "live", nos |-> batch, refreshes |-> 0]]
  BY <1>0
<1>2. /\ held \in [Numbers -> Selections \union {Nil}]
      /\ selection \in [Selections -> Sessions] /\ HeldForIt /\ disturbed' = disturbed
  BY DEF OfferInv, PoolTypeOK, Draw
<1>3. /\ batch \subseteq Numbers
      /\ \A n \in batch : held[n] = Nil \/ n \in past
  BY <1>1, BatchIsFree
<1>4. \A n \in Numbers : held'[n] = IF n \in batch THEN s ELSE held[n]
  BY <1>1, <1>2, HeldUpdates
<1>5. \A t \in Selections : selection[t].nos \subseteq Numbers
  BY <1>2 DEF Sessions
<1>6. /\ selection'[s].nos = batch /\ selection'[s].state = "live"
      /\ \A t \in Selections \ {s} : selection'[t] = selection[t]
  BY <1>1, <1>2
<1>7. ASSUME NEW t \in Selections, Live(t)', NEW n \in selection'[t].nos \ disturbed'
      PROVE  held'[n] = t /\ n \notin past'
  <2>1. CASE t = s
    BY <1>1, <1>3, <1>4, <1>6, <1>7, <2>1
  <2>2. CASE t # s
    <3>1. Live(t) /\ n \in selection[t].nos \ disturbed
      BY <1>2, <1>6, <1>7, <2>2 DEF Live
    <3>2. held[n] = t /\ n \notin past /\ n \in Numbers
      BY <1>2, <1>5, <3>1 DEF HeldForIt
    <3>3. n \notin batch
      BY <1>3, <3>2, PoolAssumption
    <3> QED BY <1>1, <1>4, <3>2, <3>3
  <2> QED BY <2>1, <2>2
<1>8. ASSUME NEW t \in Selections, selection'[t].state = "expired"
      PROVE  selection'[t].nos \subseteq disturbed'
  BY <1>2, <1>6, <1>8 DEF HeldForIt
<1> QED BY <1>7, <1>8 DEF HeldForIt

LEMMA OfferRefresh ==
  ASSUME OfferInv, NEW s \in Selections, Refresh(s)
  PROVE  HeldForIt'
<1> DEFINE old == selection[s].nos
           rest == Without(held, old)
<1>1. PICK batch \in Batches(opened, rest, old) :
        /\ held' = With(rest, batch, s)
        /\ past' = past \ (old \union batch)
        /\ selection' = [selection EXCEPT ![s].nos = batch, ![s].refreshes = @ + 1]
  BY DEF Refresh
<1>2. /\ held \in [Numbers -> Selections \union {Nil}]
      /\ selection \in [Selections -> Sessions] /\ HeldForIt
      /\ disturbed' = disturbed /\ Live(s)
  BY DEF OfferInv, PoolTypeOK, Refresh, Live
<1>3. /\ batch \subseteq Numbers
      /\ \A n \in batch : (rest[n] = Nil \/ n \in past) /\ n \notin old
  BY <1>1, BatchIsFree
<1>4. /\ rest \in [Numbers -> Selections \union {Nil}]
      /\ \A n \in Numbers : rest[n] = IF n \in old THEN Nil ELSE held[n]
  BY <1>2, WithoutUpdate
<1> HIDE DEF rest
<1>5. \A n \in Numbers : held'[n] = IF n \in batch THEN s ELSE rest[n]
  BY <1>1, <1>4, HeldUpdates
<1>6. \A t \in Selections : selection[t].nos \subseteq Numbers
  BY <1>2 DEF Sessions
<1>7. /\ selection'[s].nos = batch /\ selection'[s].state = "live"
      /\ \A t \in Selections \ {s} : selection'[t] = selection[t]
  <2>1. selection[s].state = "live" /\ selection[s] \in Sessions
    BY <1>2 DEF Live
  <2> QED BY <1>1, <1>2, <2>1 DEF Sessions
<1>8. ASSUME NEW t \in Selections, Live(t)', NEW n \in selection'[t].nos \ disturbed'
      PROVE  held'[n] = t /\ n \notin past'
  <2>1. CASE t = s
    BY <1>1, <1>3, <1>5, <1>7, <1>8, <2>1
  <2>2. CASE t # s
    <3>1. Live(t) /\ n \in selection[t].nos \ disturbed
      BY <1>2, <1>7, <1>8, <2>2 DEF Live
    <3>2. held[n] = t /\ n \notin past /\ n \in Numbers
      BY <1>2, <1>6, <3>1 DEF HeldForIt
    <3>3. n \notin old
      BY <1>2, <2>2, <3>1, <3>2 DEF HeldForIt
    <3>4. rest[n] = t
      BY <1>4, <3>2, <3>3
    <3>5. n \notin batch
      BY <1>3, <3>2, <3>4, PoolAssumption
    <3> QED BY <1>1, <1>5, <3>2, <3>4, <3>5
  <2> QED BY <2>1, <2>2
<1>9. ASSUME NEW t \in Selections, selection'[t].state = "expired"
      PROVE  selection'[t].nos \subseteq disturbed'
  BY <1>2, <1>7, <1>9 DEF HeldForIt
<1> QED BY <1>8, <1>9 DEF HeldForIt

LEMMA OfferLapse ==
  ASSUME OfferInv, NEW s \in Selections, Lapse(s)
  PROVE  HeldForIt'
<1> DEFINE batch == {n \in Numbers : held[n] = s}
<1>1. /\ past' = past \union batch /\ disturbed' = disturbed \union batch
      /\ held' = held /\ selection' = selection
  BY DEF Lapse
<1> QED BY <1>1 DEF OfferInv, HeldForIt, Live

\* Once a selection expires, all it still lists has lapsed.
LEMMA OfferExpire ==
  ASSUME OfferInv, NEW s \in Selections, Expire(s)
  PROVE  HeldForIt'
<1>1. /\ selection \in [Selections -> Sessions] /\ HeldForIt /\ Live(s)
      /\ \A n \in Numbers : held[n] = s => n \in past
      /\ UNCHANGED <<held, past, disturbed>>
  BY DEF OfferInv, PoolTypeOK, Expire, Live, pool
<1>2. /\ selection'[s].state = "expired" /\ selection'[s].nos = selection[s].nos
      /\ \A t \in Selections \ {s} : selection'[t] = selection[t]
  <2>1. selection[s] \in Sessions
    BY <1>1
  <2> QED BY <1>1, <2>1 DEF Expire, Sessions
<1>3. selection[s].nos \subseteq Numbers
  BY <1>1 DEF Sessions
<1>4. selection[s].nos \subseteq disturbed
  BY <1>1, <1>3 DEF HeldForIt
<1>5. \A t \in Selections : Live(t)' => t # s
  BY <1>2 DEF Live
<1> QED BY <1>1, <1>2, <1>4, <1>5 DEF HeldForIt, Live

LEMMA OfferRegister ==
  ASSUME OfferInv, NEW s \in Selections, NEW u \in Users, NEW n \in Numbers, Register(s, u, n)
  PROVE  HeldForIt'
<1> DEFINE nos == selection[s].nos
<1>1. /\ selection \in [Selections -> Sessions] /\ HeldForIt /\ Live(s)
      /\ held' = Without(held, nos) /\ past' = past \ nos /\ disturbed' = disturbed
      /\ selection' = [selection EXCEPT ![s].state = "gone"]
  BY DEF OfferInv, PoolTypeOK, Register, Live
<1>2. /\ selection'[s].state = "gone"
      /\ \A t \in Selections \ {s} : selection'[t] = selection[t]
  <2>1. selection[s] \in Sessions
    BY <1>1
  <2> QED BY <1>1, <2>1 DEF Sessions
<1>3. ASSUME NEW t \in Selections, Live(t)'
      PROVE  nos \intersect selection[t].nos \subseteq disturbed'
  <2>1. t # s /\ Live(t)
    BY <1>2, <1>3 DEF Live
  <2> QED BY <1>1, <2>1 DEF HeldForIt
<1> HIDE DEF nos
<1> QED BY <1>1, <1>2, <1>3, OfferCleared

LEMMA OfferSweep ==
  ASSUME OfferInv, SweepUsers \/ SweepSelections \/ SweepStale
  PROVE  HeldForIt'
<1>0. selection \in [Selections -> Sessions] /\ HeldForIt
  BY DEF OfferInv, PoolTypeOK
<1>1. CASE SweepUsers
  BY <1>0, <1>1, OfferUntouched DEF SweepUsers
<1>2. CASE SweepSelections
  <2> DEFINE expired == {s \in Selections : selection[s].state = "expired"}
             listed == {n \in UNION {selection[s].nos : s \in expired} : claimed[n] = Nil}
  <2>1. /\ held' = Without(held, listed) /\ past' = past \ listed /\ disturbed' = disturbed
        /\ selection' = [s \in Selections |->
             IF s \in expired THEN [selection[s] EXCEPT !.state = "gone"] ELSE selection[s]]
    BY <1>2 DEF SweepSelections
  <2>2. \A s \in Selections : selection'[s] = selection[s] \/ selection'[s].state = "gone"
    <3>1. \A s \in Selections : [selection[s] EXCEPT !.state = "gone"].state = "gone"
      BY <1>0 DEF Sessions
    <3> QED BY <2>1, <3>1
  <2>3. listed \subseteq disturbed
    BY <1>0 DEF HeldForIt
  <2> HIDE DEF listed, expired
  <2> QED BY <2>1, <2>2, <2>3, OfferCleared
<1>3. CASE SweepStale
  <2> DEFINE stale == {n \in past : claimed[n] = Nil}
  <2>1. /\ held' = Without(held, stale) /\ past' = past \ stale
        /\ disturbed' = disturbed /\ selection' = selection
    BY <1>3 DEF SweepStale
  <2>2. ASSUME NEW s \in Selections, Live(s)'
        PROVE  stale \intersect selection[s].nos \subseteq disturbed'
    BY <1>0, <2>1, <2>2 DEF HeldForIt, Live
  <2> HIDE DEF stale
  <2> QED BY <2>1, <2>2, OfferCleared
<1> QED BY <1>1, <1>2, <1>3

LEMMA OfferGrant ==
  ASSUME OfferInv, NEW a \in Admins,
         GrantFind(a) \/ GrantCheck(a) \/ GrantSwap(a) \/ GrantFails(a)
  PROVE  HeldForIt'
<1>1. CASE GrantFind(a) \/ GrantCheck(a) \/ GrantFails(a)
  BY <1>1, OfferUntouched DEF GrantFind, GrantCheck, GrantFails, pool, OfferInv
<1>2. CASE GrantSwap(a)
  <2> DEFINE nos == {grant[a].no, grant[a].old}
  <2>1. /\ held' = Without(held, nos) /\ past' = past \ nos
        /\ disturbed' = disturbed \union nos /\ selection' = selection
    BY <1>2 DEF GrantSwap
  <2> HIDE DEF nos
  <2> QED BY <2>1, OfferCleared
<1> QED BY <1>1, <1>2

LEMMA OfferStep == OfferInv /\ [PoolNext]_poolVars => OfferInv'
<1> SUFFICES ASSUME OfferInv, [PoolNext]_poolVars PROVE HeldForIt'
  BY TypeStep DEF OfferInv
<1>0. HeldForIt
  BY DEF OfferInv
<1>1. CASE \E s \in Selections : Draw(s) \/ Refresh(s) \/ Lapse(s) \/ Expire(s)
  BY <1>1, OfferDraw, OfferRefresh, OfferLapse, OfferExpire
<1>2. CASE DrawFails
  BY <1>0, <1>2, OfferUntouched DEF DrawFails
<1>3. CASE \E s \in Selections, u \in Users, n \in Numbers : Register(s, u, n)
  BY <1>3, OfferRegister
<1>4. CASE \E u \in Users : VerifyEmail(u)
  BY <1>0, <1>4, OfferUntouched DEF VerifyEmail, pool
<1>5. CASE SweepUsers \/ SweepSelections \/ SweepStale
  BY <1>5, OfferSweep
<1>6. CASE \E a \in Admins : GrantFind(a) \/ GrantCheck(a) \/ GrantSwap(a) \/ GrantFails(a)
  BY <1>6, OfferGrant
<1>7. CASE \E n \in Numbers : ReleasePremium(n)
  BY <1>0, <1>7, OfferUntouched DEF ReleasePremium
<1>8. CASE UNCHANGED poolVars
  BY <1>0, <1>8, OfferUntouched DEF poolVars
<1> QED BY <1>1, <1>2, <1>3, <1>4, <1>5, <1>6, <1>7, <1>8 DEF PoolNext

\* Two clients are offered a common number only if its reservation lapsed or a
\* grant moved it: no release by a refresh, a registration or the sweep takes
\* a number away from the client it is reserved for.
THEOREM PoolDrawsDisjoint == PoolSpec => []DrawsDisjoint
<1>1. PoolInit => OfferInv
  BY OfferInit
<1>2. OfferInv /\ [PoolNext]_poolVars => OfferInv'
  BY OfferStep
<1>3. OfferInv => DrawsDisjoint
  BY DEF OfferInv, HeldForIt, DrawsDisjoint
<1> QED BY <1>1, <1>2, <1>3, PTL DEF PoolSpec
=============================================================================
