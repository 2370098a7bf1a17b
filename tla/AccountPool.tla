---------------------------- MODULE AccountPool ----------------------------
(* The pool of account numbers: draws and refreshes that reserve numbers   *)
(* for a selection token, registration, the periodic sweep, and the        *)
(* administrator's grants and releases of premium numbers.                 *)
(*                                                                         *)
(* Every handler here is one database transaction whose writes hold their  *)
(* row locks until it commits, so its writes are one step; a grant decides *)
(* on plain reads made earlier in its transaction, so those are steps of   *)
(* their own.  A request that is refused changes nothing and is no step.   *)
(* Time is the order of two events per batch of numbers: the reservation   *)
(* in the pool lapses (reserved_until, computed when the transaction       *)
(* starts), then the selection expires (expires_at, computed after it).    *)
EXTENDS Naturals, FiniteSets

CONSTANTS Users, Selections, Admins,
          SegmentSize, MaxSegments,   \* bound: segments that may be opened
          Premium,                    \* the numbers isLockedPattern accepts
          DrawSize, MaxRefreshes, FreeCountThreshold,
          Nil, Gone                   \* no value; a user whose row is deleted

Numbers == 1..(SegmentSize * MaxSegments)

ASSUME PoolAssumption ==
  /\ SegmentSize \in Nat \ {0} /\ MaxSegments \in Nat \ {0}
  /\ DrawSize \in Nat \ {0} /\ MaxRefreshes \in Nat /\ FreeCountThreshold \in Nat
  /\ Premium \subseteq Numbers
  /\ Nil \notin Users /\ Nil \notin Selections
  /\ Nil \notin Numbers /\ Gone \notin Numbers /\ Gone # Nil

VARIABLES
  opened,      \* account_no_segments: segments 1..opened are open and filled
  locked,      \* account_no_pool.is_locked
  claimed,     \* account_no_pool.claimed_user_id
  held,        \* reserved_until is set: the selection it was set for
  past,        \* numbers whose reserved_until lies in the past
  selection,   \* account_no_selections
  account,     \* users.account_no, Nil before registration
  verified,    \* users.email_verified
  grant,       \* what a running grantPremiumNumber has read
  disturbed,   \* history: numbers whose reservation lapsed or that a grant moved
  released     \* history: premium numbers an administrator released

pool == <<opened, locked, claimed, held, past>>
poolVars == <<opened, locked, claimed, held, past, selection, account, verified,
          grant, disturbed, released>>

States == {"new", "live", "expired", "gone"}
Sessions == [state : States, nos : SUBSET Numbers, refreshes : 0..MaxRefreshes]
Swaps == [phase : {"found", "checked"}, no : Numbers, user : Users, old : Numbers]

-----------------------------------------------------------------------------
(* Reserving numbers *)

SegmentOf(n) == ((n - 1) \div SegmentSize) + 1

\* Mutant: the query no longer looks at reserved_until.
Stock_IgnoresHeld(o, h) ==
  {n \in Numbers : SegmentOf(n) \leq o /\ n \notin locked /\ claimed[n] = Nil}

\* What a draw may take from the first o segments when the reservations are h.
Stock(o, h) ==
  {n \in Numbers : /\ SegmentOf(n) \leq o
                   /\ n \notin locked
                   /\ claimed[n] = Nil
                   /\ h[n] = Nil \/ n \in past}

\* The stock of the lowest segment that has any.  The excluded numbers count
\* when the segment is chosen and are left out only afterwards.
Batches(o, h, exclude) ==
  LET stock == Stock(o, h)
      lowest == {n \in stock : \A m \in stock : SegmentOf(n) \leq SegmentOf(m)}
  IN {b \in SUBSET (lowest \ exclude) : b # {} /\ Cardinality(b) \leq DrawSize}

\* The segments open after ensureSegmentCapacity, which may fail unnoticed.
Capacity ==
  {opened} \union
    IF Cardinality(Stock(opened, held)) < FreeCountThreshold /\ opened < MaxSegments
    THEN {opened + 1} ELSE {}

Without(h, nos) == [n \in Numbers |-> IF n \in nos THEN Nil ELSE h[n]]
With(h, nos, s) == [n \in Numbers |-> IF n \in nos THEN s ELSE h[n]]

-----------------------------------------------------------------------------
PoolInit ==
  /\ opened = 1
  /\ locked = Premium
  /\ claimed = [n \in Numbers |-> Nil]
  /\ held = [n \in Numbers |-> Nil]
  /\ past = {}
  /\ selection = [s \in Selections |-> [state |-> "new", nos |-> {}, refreshes |-> 0]]
  /\ account = [u \in Users |-> Nil]
  /\ verified = {}
  /\ grant = [a \in Admins |-> Nil]
  /\ disturbed = {}
  /\ released = {}

\* POST /auth/account-no/draw.
Draw(s) ==
  /\ selection[s].state = "new"
  /\ \E o \in Capacity : \E batch \in Batches(o, held, {}) :
       /\ opened' = o
       /\ held' = With(held, batch, s)
       /\ past' = past \ batch
       /\ selection' = [selection EXCEPT
            ![s] = [state |-> "live", nos |-> batch, refreshes |-> 0]]
  /\ UNCHANGED <<locked, claimed, account, verified, grant, disturbed, released>>

\* A draw that has opened a segment and then reserves nothing.
DrawFails ==
  /\ \E o \in Capacity \ {opened} : opened' = o
  /\ UNCHANGED <<locked, claimed, held, past, selection, account, verified, grant,
                 disturbed, released>>

\* POST /auth/account-no/refresh.  The old numbers are released whatever
\* became of them since.
Refresh(s) ==
  LET old == selection[s].nos
      rest == Without(held, old)
  IN /\ selection[s].state = "live"
     /\ selection[s].refreshes < MaxRefreshes
     /\ \E batch \in Batches(opened, rest, old) :
          /\ held' = With(rest, batch, s)
          /\ past' = past \ (old \union batch)
          /\ selection' = [selection EXCEPT
               ![s].nos = batch, ![s].refreshes = @ + 1]
     /\ UNCHANGED <<opened, locked, claimed, account, verified, grant, disturbed, released>>

\* The reservation of a batch runs out in the pool.
Lapse(s) ==
  LET batch == {n \in Numbers : held[n] = s}
  IN /\ batch \ past # {}
     /\ past' = past \union batch
     /\ disturbed' = disturbed \union batch
     /\ UNCHANGED <<opened, locked, claimed, held, selection, account, verified, grant, released>>

\* The selection itself expires, no earlier than the reservation it made.
Expire(s) ==
  /\ selection[s].state = "live"
  /\ \A n \in Numbers : held[n] = s => n \in past
  /\ selection' = [selection EXCEPT ![s].state = "expired"]
  /\ UNCHANGED <<pool, account, verified, grant, disturbed, released>>

\* POST /auth/register: the INSERT (account_no is UNIQUE) and
\* validateAndConsumeSelection in one transaction.
Register(s, u, n) ==
  /\ selection[s].state = "live" /\ n \in selection[s].nos
  /\ account[u] = Nil /\ \A v \in Users : account[v] # n
  /\ claimed[n] = Nil
  /\ account' = [account EXCEPT ![u] = n]
  /\ claimed' = [claimed EXCEPT ![n] = u]
  /\ held' = Without(held, selection[s].nos)
  /\ past' = past \ selection[s].nos
  /\ selection' = [selection EXCEPT ![s].state = "gone"]
  /\ UNCHANGED <<opened, locked, verified, grant, disturbed, released>>

VerifyEmail(u) ==
  /\ account[u] \in Numbers /\ u \notin verified
  /\ verified' = verified \union {u}
  /\ UNCHANGED <<pool, selection, account, grant, disturbed, released>>

-----------------------------------------------------------------------------
(* The sweep: statements that commit, or fail, one by one *)

\* Users who never verified are deleted; the foreign key unclaims their numbers.
SweepUsers ==
  \E dropped \in SUBSET ({u \in Users : account[u] \in Numbers} \ verified) :
    /\ dropped # {}
    /\ account' = [u \in Users |-> IF u \in dropped THEN Gone ELSE account[u]]
    /\ claimed' = [n \in Numbers |-> IF claimed[n] \in dropped THEN Nil ELSE claimed[n]]
    /\ UNCHANGED <<opened, locked, held, past, selection, verified, grant, disturbed, released>>

\* Expired selections are deleted, and the unclaimed numbers they list lose
\* their reservation, whoever holds it by now.
SweepSelections ==
  LET expired == {s \in Selections : selection[s].state = "expired"}
      listed == {n \in UNION {selection[s].nos : s \in expired} : claimed[n] = Nil}
  IN /\ expired # {}
     /\ selection' = [s \in Selections |->
          IF s \in expired THEN [selection[s] EXCEPT !.state = "gone"] ELSE selection[s]]
     /\ held' = Without(held, listed)
     /\ past' = past \ listed
     /\ UNCHANGED <<opened, locked, claimed, account, verified, grant, disturbed, released>>

\* Reservations in the past are cleared.
SweepStale ==
  LET stale == {n \in past : claimed[n] = Nil}
  IN /\ stale # {}
     /\ held' = Without(held, stale)
     /\ past' = past \ stale
     /\ UNCHANGED <<opened, locked, claimed, selection, account, verified, grant,
                    disturbed, released>>

-----------------------------------------------------------------------------
(* The administrator *)

\* grantPremiumNumber reads the recipient and the number he has now, ...
GrantFind(a) ==
  /\ grant[a] = Nil
  /\ \E u \in Users, p \in Numbers :
       /\ account[u] \in Numbers \ {p}
       /\ grant' = [grant EXCEPT
            ![a] = [phase |-> "found", no |-> p, user |-> u, old |-> account[u]]]
  /\ UNCHANGED <<pool, selection, account, verified, disturbed, released>>

\* ... then whether the premium number is locked and free, ...
GrantCheck(a) ==
  LET p == grant[a].no
  IN /\ grant[a] # Nil /\ grant[a].phase = "found"
     /\ grant' = [grant EXCEPT
          ![a] = IF SegmentOf(p) \leq opened /\ p \in locked /\ claimed[p] = Nil
                 THEN [@ EXCEPT !.phase = "checked"] ELSE Nil]
     /\ UNCHANGED <<pool, selection, account, verified, disturbed, released>>

\* The UPDATEs fail on a deleted user (foreign key) or a number in use (UNIQUE).
SwapRefused(g) ==
  account[g.user] \notin Numbers \/ \E v \in Users \ {g.user} : account[v] = g.no

\* Mutant: the previous number stays claimed.
GrantSwap_KeepsOld(a) ==
  LET g == grant[a]
  IN /\ g # Nil /\ g.phase = "checked" /\ ~SwapRefused(g)
     /\ claimed' = [claimed EXCEPT ![g.no] = g.user]
     /\ locked' = locked \ {g.no}
     /\ held' = Without(held, {g.no, g.old}) /\ past' = past \ {g.no, g.old}
     /\ account' = [account EXCEPT ![g.user] = g.no]
     /\ grant' = [grant EXCEPT ![a] = Nil]
     /\ disturbed' = disturbed \union {g.no, g.old}
     /\ UNCHANGED <<opened, selection, verified, released>>

\* ... and then swaps the two numbers without looking again.
GrantSwap(a) ==
  LET g == grant[a]
  IN /\ g # Nil /\ g.phase = "checked" /\ ~SwapRefused(g)
     /\ claimed' = [claimed EXCEPT ![g.no] = g.user, ![g.old] = Nil]
     /\ locked' = locked \ {g.no}
     /\ held' = Without(held, {g.no, g.old})
     /\ past' = past \ {g.no, g.old}
     /\ account' = [account EXCEPT ![g.user] = g.no]
     /\ grant' = [grant EXCEPT ![a] = Nil]
     /\ disturbed' = disturbed \union {g.no, g.old}
     /\ UNCHANGED <<opened, selection, verified, released>>

\* The transaction is refused, or fails, and is rolled back.
GrantFails(a) ==
  /\ grant[a] # Nil
  /\ grant' = [grant EXCEPT ![a] = Nil]
  /\ UNCHANGED <<pool, selection, account, verified, disturbed, released>>

\* releasePremiumNumber: one guarded UPDATE.
ReleasePremium(n) ==
  /\ SegmentOf(n) \leq opened /\ n \in locked /\ claimed[n] = Nil
  /\ locked' = locked \ {n}
  /\ released' = released \union {n}
  /\ UNCHANGED <<opened, claimed, held, past, selection, account, verified, grant, disturbed>>

-----------------------------------------------------------------------------
PoolNext ==
  \/ \E s \in Selections : Draw(s) \/ Refresh(s) \/ Lapse(s) \/ Expire(s)
  \/ DrawFails
  \/ \E s \in Selections, u \in Users, n \in Numbers : Register(s, u, n)
  \/ \E u \in Users : VerifyEmail(u)
  \/ SweepUsers \/ SweepSelections \/ SweepStale
  \/ \E a \in Admins : GrantFind(a) \/ GrantCheck(a) \/ GrantSwap(a) \/ GrantFails(a)
  \/ \E n \in Numbers : ReleasePremium(n)

PoolSpec == PoolInit /\ [][PoolNext]_poolVars

-----------------------------------------------------------------------------
(* Properties *)

Live(s) == selection[s].state = "live"

\* The state has its types; a lapsed reservation is a reservation.
PoolTypeOK ==
  /\ opened \in 1..MaxSegments
  /\ locked \subseteq Premium
  /\ claimed \in [Numbers -> Users \union {Nil}]
  /\ held \in [Numbers -> Selections \union {Nil}]
  /\ past \subseteq {n \in Numbers : held[n] # Nil}
  /\ selection \in [Selections -> Sessions]
  /\ account \in [Users -> Numbers \union {Nil, Gone}]
  /\ verified \subseteq Users
  /\ grant \in [Admins -> Swaps \union {Nil}]
  /\ disturbed \subseteq Numbers /\ released \subseteq Premium

\* The two tables agree through registrations, deletions and grants: a user's
\* number is the number of the pool row that names him, and only that one
\* does.  A row left unclaimed would be drawn again and could never be
\* registered; a row left claimed would be lost to the pool.
Books == \A u \in Users, n \in Numbers : claimed[n] = u <=> account[u] = n

\* Two clients are never offered the same number, unless its reservation has
\* lapsed once or a grant has moved the number meanwhile; releasing a batch
\* (refresh, registration, sweep) frees no number another client was offered.
DrawsDisjoint ==
  \A s, t \in Selections : s # t /\ Live(s) /\ Live(t) =>
    selection[s].nos \intersect selection[t].nos \subseteq disturbed

\* The sweep clears only reservations that have run out (cleanup.go:91-94).
SweepClearsLapsed ==
  [][SweepSelections => \A n \in Numbers : held[n] # Nil /\ n \notin past => held'[n] = held[n]]_poolVars

\* A premium number is open to random draws only after an administrator
\* released it (account_no.go:11-13, admin/handler.go:277-278).
PremiumReserved ==
  \A n \in Premium : n \notin locked /\ claimed[n] = Nil => n \in released

\* No user has two rows of the pool (admin/handler.go:280-281).
OneRowPerUser ==
  \A m, n \in Numbers : m # n /\ claimed[m] # Nil => claimed[m] # claimed[n]
=============================================================================
