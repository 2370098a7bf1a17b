----------------------------- MODULE SessionProofs -----------------------------
(***************************************************************************)
(* Proofs about sessions for any number of tokens, handlers and changes of *)
(* the account; and about a client on top of them, for any number of       *)
(* sockets and expiries.                                                   *)
(***************************************************************************)
EXTENDS TokenRotation, ClientSession, TLAPS

-----------------------------------------------------------------------------
(* The server.                                                             *)

(* Row locks: one holder, of a row that is still live.                     *)
LockedLive ==
    \A q \in Requests : req[q].step = "locked" => req[q].tok \in Live

LockExclusive ==
    \A p, q \in Requests, t \in Tokens : Holds(p, t) /\ Holds(q, t) => p = q

(* The first token of a session has been inserted.                         *)
SessionKnown ==
    \A t \in Tokens : row[t] # "none" => /\ session[t] \in Tokens
                                         /\ row[session[t]] # "none"

(* A handler that is about to insert a token while a sweep is running is   *)
(* marked.                                                                 *)
RacersMarked ==
    \A q \in Requests : Sweeping /\ req[q].step \in {"issue", "locked"} => req[q].raced

(* A login that was checked against older credentials is marked, or the    *)
(* sweep that follows the change is still to begin.                        *)
OldLoginsMarked ==
    \A q \in Requests : req[q].step = "issue" /\ req[q].proof < epoch
        => req[q].raced \/ \E p \in Requests : req[p].step = "barred" /\ req[p].kind = "bar"

(* What the transaction of a reset does not reach has been spared.         *)
ResetReaches ==
    \A q \in Requests : req[q].step = "sweep" /\ req[q].kind = "reset"
        => Live \subseteq req[q].seen \cup spared

(* Only a change of status is ever between its two statements.             *)
BarredKind ==
    \A q \in Requests : req[q].step = "barred" => req[q].kind = "bar"

IInv ==
    /\ TypeOK
    /\ LockedLive /\ LockExclusive /\ SessionKnown /\ OneTokenPerLogin
    /\ RacersMarked /\ OldLoginsMarked /\ ResetReaches /\ BarredKind
    /\ SurvivorsOverlapped

USE TokenAssumption

-----------------------------------------------------------------------------
LEMMA InitInv == Init => IInv
  BY DEF Init, TokensInit, IInv, TypeOK, TokensTypeOK, LockedLive, LockExclusive,
         SessionKnown, OneTokenPerLogin, RacersMarked, OldLoginsMarked, ResetReaches,
         BarredKind, SurvivorsOverlapped, Live, Holds, Idle, Handler, Steps, Kinds

(* What the handlers may become in one step: their types.                  *)
LEMMA IdleType == Idle \in Handler
  BY DEF Idle, Handler, Steps, Kinds

LEMMA MarkRacedFacts ==
    ASSUME TokensTypeOK, NEW e \in Requests
    PROVE  /\ MarkRaced(e) \in [Requests -> Handler]
           /\ \A p \in Requests :
                 /\ MarkRaced(e)[p].step = req[p].step
                 /\ MarkRaced(e)[p].kind = req[p].kind
                 /\ MarkRaced(e)[p].tok = req[p].tok
                 /\ MarkRaced(e)[p].seen = req[p].seen
                 /\ MarkRaced(e)[p].proof = req[p].proof
                 /\ req[p].raced => MarkRaced(e)[p].raced
                 /\ p # e /\ req[p].step \in {"issue", "locked"} => MarkRaced(e)[p].raced
  <1>1. req \in [Requests -> Handler]
    BY DEF TokensTypeOK
  <1> QED
    BY ONLY <1>1 DEF MarkRaced, Handler

-----------------------------------------------------------------------------
LEMMA LoginCheckInv ==
    ASSUME IInv, NEW q \in Requests, LoginCheck(q)
    PROVE  IInv'
  <1>0. TokensTypeOK
    BY DEF IInv, TypeOK
  <1>1. TypeOK'
    BY <1>0, IdleType DEF LoginCheck, Begin, Idle, Sweeping, IInv, LockedLive, Live,
       TypeOK, TokensTypeOK, Handler, Steps, Kinds
  <1>2. LockedLive'
    BY <1>0 DEF LoginCheck, Begin, Idle, Sweeping, IInv, TokensTypeOK, Handler,
       LockedLive, LockExclusive, Holds, Live
  <1>3. LockExclusive'
    BY <1>0 DEF LoginCheck, Begin, Idle, Sweeping, IInv, TokensTypeOK, Handler,
       LockExclusive, LockedLive, Live, Holds
  <1>4. SessionKnown'
    BY <1>0 DEF LoginCheck, Begin, Idle, Sweeping, IInv, TokensTypeOK, Handler,
       SessionKnown, LockedLive, Live
  <1>5. OneTokenPerLogin'
    BY <1>0 DEF LoginCheck, Begin, Idle, Sweeping, IInv, TokensTypeOK, Handler,
       OneTokenPerLogin, SessionKnown, LockedLive, LockExclusive, Live
  <1>6. RacersMarked'
    BY <1>0 DEF LoginCheck, Begin, Idle, Sweeping, IInv, TokensTypeOK, Handler, RacersMarked
  <1>7. OldLoginsMarked'
    BY <1>0 DEF LoginCheck, Begin, Idle, Sweeping, IInv, TokensTypeOK, Handler,
       OldLoginsMarked, BarredKind, RacersMarked
  <1>8. ResetReaches'
    BY <1>0 DEF LoginCheck, Begin, Idle, Sweeping, IInv, TokensTypeOK, Handler,
       ResetReaches, RacersMarked, Live
  <1>9. BarredKind'
    BY <1>0 DEF LoginCheck, Begin, Idle, Sweeping, IInv, TokensTypeOK, Handler, BarredKind
  <1>10. SurvivorsOverlapped'
    BY <1>0 DEF LoginCheck, Begin, Idle, Sweeping, IInv, TokensTypeOK, Handler,
       SurvivorsOverlapped, BarPending, BarredKind, RacersMarked, OldLoginsMarked,
       ResetReaches, LockedLive, Live
  <1> QED
    BY <1>1, <1>2, <1>3, <1>4, <1>5, <1>6, <1>7, <1>8, <1>9, <1>10 DEF IInv

-----------------------------------------------------------------------------
LEMMA IssueInv ==
    ASSUME IInv, NEW q \in Requests, NEW n \in Tokens, Issue(q, n)
    PROVE  IInv'
  <1>0. TokensTypeOK
    BY DEF IInv, TypeOK
  <1>1. TypeOK'
    BY <1>0, IdleType DEF Issue, Finish, Idle, Sweeping, IInv, LockedLive, Live,
       TypeOK, TokensTypeOK, Handler, Steps, Kinds
  <1>2. LockedLive'
    BY <1>0 DEF Issue, Finish, Idle, Sweeping, IInv, TokensTypeOK, Handler,
       LockedLive, LockExclusive, Holds, Live
  <1>3. LockExclusive'
    BY <1>0 DEF Issue, Finish, Idle, Sweeping, IInv, TokensTypeOK, Handler,
       LockExclusive, LockedLive, Live, Holds
  <1>4. SessionKnown'
    BY <1>0 DEF Issue, Finish, Idle, Sweeping, IInv, TokensTypeOK, Handler,
       SessionKnown, LockedLive, Live
  <1>5. OneTokenPerLogin'
    BY <1>0 DEF Issue, Finish, Idle, Sweeping, IInv, TokensTypeOK, Handler,
       OneTokenPerLogin, SessionKnown, LockedLive, LockExclusive, Live
  <1>6. RacersMarked'
    BY <1>0 DEF Issue, Finish, Idle, Sweeping, IInv, TokensTypeOK, Handler, RacersMarked
  <1>7. OldLoginsMarked'
    BY <1>0 DEF Issue, Finish, Idle, Sweeping, IInv, TokensTypeOK, Handler,
       OldLoginsMarked, BarredKind, RacersMarked
  <1>8. ResetReaches'
    BY <1>0 DEF Issue, Finish, Idle, Sweeping, IInv, TokensTypeOK, Handler,
       ResetReaches, RacersMarked, Live
  <1>9. BarredKind'
    BY <1>0 DEF Issue, Finish, Idle, Sweeping, IInv, TokensTypeOK, Handler, BarredKind
  <1>10. SurvivorsOverlapped'
    BY <1>0 DEF Issue, Finish, Idle, Sweeping, IInv, TokensTypeOK, Handler,
       SurvivorsOverlapped, BarPending, BarredKind, RacersMarked, OldLoginsMarked,
       ResetReaches, LockedLive, Live
  <1> QED
    BY <1>1, <1>2, <1>3, <1>4, <1>5, <1>6, <1>7, <1>8, <1>9, <1>10 DEF IInv

-----------------------------------------------------------------------------
LEMMA SwapLockInv ==
    ASSUME IInv, NEW q \in Requests, NEW t \in Tokens, SwapLock(q, t)
    PROVE  IInv'
  <1>0. TokensTypeOK
    BY DEF IInv, TypeOK
  <1>1. TypeOK'
    BY <1>0, IdleType DEF SwapLock, Unlocked, Begin, Idle, Sweeping, IInv,
       LockedLive, Live, TypeOK, TokensTypeOK, Handler, Steps, Kinds
  <1>2. LockedLive'
    BY <1>0 DEF SwapLock, Unlocked, Begin, Idle, Sweeping, IInv, TokensTypeOK,
       Handler, LockedLive, LockExclusive, Holds, Live
  <1>3. LockExclusive'
    BY <1>0 DEF SwapLock, Unlocked, Begin, Idle, Sweeping, IInv, TokensTypeOK,
       Handler, LockExclusive, LockedLive, Live, Holds
  <1>4. SessionKnown'
    BY <1>0 DEF SwapLock, Unlocked, Begin, Idle, Sweeping, IInv, TokensTypeOK,
       Handler, SessionKnown, LockedLive, Live
  <1>5. OneTokenPerLogin'
    BY <1>0 DEF SwapLock, Unlocked, Begin, Idle, Sweeping, IInv, TokensTypeOK,
       Handler, OneTokenPerLogin, SessionKnown, LockedLive, LockExclusive, Live
  <1>6. RacersMarked'
    BY <1>0 DEF SwapLock, Unlocked, Begin, Idle, Sweeping, IInv, TokensTypeOK,
       Handler, RacersMarked
  <1>7. OldLoginsMarked'
    BY <1>0 DEF SwapLock, Unlocked, Begin, Idle, Sweeping, IInv, TokensTypeOK,
       Handler, OldLoginsMarked, BarredKind, RacersMarked
  <1>8. ResetReaches'
    BY <1>0 DEF SwapLock, Unlocked, Begin, Idle, Sweeping, IInv, TokensTypeOK,
       Handler, ResetReaches, RacersMarked, Live
  <1>9. BarredKind'
    BY <1>0 DEF SwapLock, Unlocked, Begin, Idle, Sweeping, IInv, TokensTypeOK,
       Handler, BarredKind
  <1>10. SurvivorsOverlapped'
    BY <1>0 DEF SwapLock, Unlocked, Begin, Idle, Sweeping, IInv, TokensTypeOK,
       Handler, SurvivorsOverlapped, BarPending, BarredKind, RacersMarked,
       OldLoginsMarked, ResetReaches, LockedLive, Live
  <1> QED
    BY <1>1, <1>2, <1>3, <1>4, <1>5, <1>6, <1>7, <1>8, <1>9, <1>10 DEF IInv

-----------------------------------------------------------------------------
LEMMA SwapCommitInv ==
    ASSUME IInv, NEW q \in Requests, NEW n \in Tokens, SwapCommit(q, n)
    PROVE  IInv'
  <1>0. TokensTypeOK
    BY DEF IInv, TypeOK
  <1>1. TypeOK'
    BY <1>0, IdleType DEF SwapCommit, Finish, Idle, Sweeping, IInv, LockedLive,
       Live, TypeOK, TokensTypeOK, Handler, Steps, Kinds
  <1>2. LockedLive'
    BY <1>0 DEF SwapCommit, Finish, Idle, Sweeping, IInv, TokensTypeOK, Handler,
       LockedLive, LockExclusive, Holds, Live
  <1>3. LockExclusive'
    BY <1>0 DEF SwapCommit, Finish, Idle, Sweeping, IInv, TokensTypeOK, Handler,
       LockExclusive, LockedLive, Live, Holds
  <1>4. SessionKnown'
    BY <1>0 DEF SwapCommit, Finish, Idle, Sweeping, IInv, TokensTypeOK, Handler,
       SessionKnown, LockedLive, Live
  <1>5. OneTokenPerLogin'
    BY <1>0 DEF SwapCommit, Finish, Idle, Sweeping, IInv, TokensTypeOK, Handler,
       OneTokenPerLogin, SessionKnown, LockedLive, LockExclusive, Live
  <1>6. RacersMarked'
    BY <1>0 DEF SwapCommit, Finish, Idle, Sweeping, IInv, TokensTypeOK, Handler,
       RacersMarked
  <1>7. OldLoginsMarked'
    BY <1>0 DEF SwapCommit, Finish, Idle, Sweeping, IInv, TokensTypeOK, Handler,
       OldLoginsMarked, BarredKind, RacersMarked
  <1>8. ResetReaches'
    BY <1>0 DEF SwapCommit, Finish, Idle, Sweeping, IInv, TokensTypeOK, Handler,
       ResetReaches, RacersMarked, Live
  <1>9. BarredKind'
    BY <1>0 DEF SwapCommit, Finish, Idle, Sweeping, IInv, TokensTypeOK, Handler, BarredKind
  <1>10. SurvivorsOverlapped'
    BY <1>0 DEF SwapCommit, Finish, Idle, Sweeping, IInv, TokensTypeOK, Handler,
       SurvivorsOverlapped, BarPending, BarredKind, RacersMarked, OldLoginsMarked,
       ResetReaches, LockedLive, Live
  <1> QED
    BY <1>1, <1>2, <1>3, <1>4, <1>5, <1>6, <1>7, <1>8, <1>9, <1>10 DEF IInv

-----------------------------------------------------------------------------
LEMMA AbandonInv ==
    ASSUME IInv, NEW q \in Requests, Abandon(q)
    PROVE  IInv'
  <1>0. TokensTypeOK
    BY DEF IInv, TypeOK
  <1>1. TypeOK'
    BY <1>0, IdleType DEF Abandon, Finish, Idle, Sweeping, IInv, LockedLive, Live,
       TypeOK, TokensTypeOK, Handler, Steps, Kinds
  <1>2. LockedLive'
    BY <1>0 DEF Abandon, Finish, Idle, Sweeping, IInv, TokensTypeOK, Handler,
       LockedLive, LockExclusive, Holds, Live
  <1>3. LockExclusive'
    BY <1>0 DEF Abandon, Finish, Idle, Sweeping, IInv, TokensTypeOK, Handler,
       LockExclusive, LockedLive, Live, Holds
  <1>4. SessionKnown'
    BY <1>0 DEF Abandon, Finish, Idle, Sweeping, IInv, TokensTypeOK, Handler,
       SessionKnown, LockedLive, Live
  <1>5. OneTokenPerLogin'
    BY <1>0 DEF Abandon, Finish, Idle, Sweeping, IInv, TokensTypeOK, Handler,
       OneTokenPerLogin, SessionKnown, LockedLive, LockExclusive, Live
  <1>6. RacersMarked'
    BY <1>0 DEF Abandon, Finish, Idle, Sweeping, IInv, TokensTypeOK, Handler, RacersMarked
  <1>7. OldLoginsMarked'
    BY <1>0 DEF Abandon, Finish, Idle, Sweeping, IInv, TokensTypeOK, Handler,
       OldLoginsMarked, BarredKind, RacersMarked
  <1>8. ResetReaches'
    BY <1>0 DEF Abandon, Finish, Idle, Sweeping, IInv, TokensTypeOK, Handler,
       ResetReaches, RacersMarked, Live
  <1>9. BarredKind'
    BY <1>0 DEF Abandon, Finish, Idle, Sweeping, IInv, TokensTypeOK, Handler, BarredKind
  <1>10. SurvivorsOverlapped'
    BY <1>0 DEF Abandon, Finish, Idle, Sweeping, IInv, TokensTypeOK, Handler,
       SurvivorsOverlapped, BarPending, BarredKind, RacersMarked, OldLoginsMarked,
       ResetReaches, LockedLive, Live
  <1> QED
    BY <1>1, <1>2, <1>3, <1>4, <1>5, <1>6, <1>7, <1>8, <1>9, <1>10 DEF IInv

-----------------------------------------------------------------------------
LEMMA RevokeInv ==
    ASSUME IInv, NEW t \in Tokens, Revoke(t)
    PROVE  IInv'
  <1>0. TokensTypeOK
    BY DEF IInv, TypeOK
  <1>1. TypeOK'
    BY <1>0, IdleType DEF Revoke, Unlocked, Sweeping, IInv, LockedLive, Live,
       TypeOK, TokensTypeOK, Handler, Steps, Kinds
  <1>2. LockedLive'
    BY <1>0 DEF Revoke, Unlocked, Sweeping, IInv, TokensTypeOK, Handler, LockedLive,
       LockExclusive, Holds, Live
  <1>3. LockExclusive'
    BY <1>0 DEF Revoke, Unlocked, Sweeping, IInv, TokensTypeOK, Handler,
       LockExclusive, LockedLive, Live, Holds
  <1>4. SessionKnown'
    BY <1>0 DEF Revoke, Unlocked, Sweeping, IInv, TokensTypeOK, Handler,
       SessionKnown, LockedLive, Live
  <1>5. OneTokenPerLogin'
    BY <1>0 DEF Revoke, Unlocked, Sweeping, IInv, TokensTypeOK, Handler,
       OneTokenPerLogin, SessionKnown, LockedLive, LockExclusive, Live
  <1>6. RacersMarked'
    BY <1>0 DEF Revoke, Unlocked, Sweeping, IInv, TokensTypeOK, Handler, RacersMarked
  <1>7. OldLoginsMarked'
    BY <1>0 DEF Revoke, Unlocked, Sweeping, IInv, TokensTypeOK, Handler,
       OldLoginsMarked, BarredKind, RacersMarked
  <1>8. ResetReaches'
    BY <1>0 DEF Revoke, Unlocked, Sweeping, IInv, TokensTypeOK, Handler,
       ResetReaches, RacersMarked, Live
  <1>9. BarredKind'
    BY <1>0 DEF Revoke, Unlocked, Sweeping, IInv, TokensTypeOK, Handler, BarredKind
  <1>10. SurvivorsOverlapped'
    BY <1>0 DEF Revoke, Unlocked, Sweeping, IInv, TokensTypeOK, Handler,
       SurvivorsOverlapped, BarPending, BarredKind, RacersMarked, OldLoginsMarked,
       ResetReaches, LockedLive, Live
  <1> QED
    BY <1>1, <1>2, <1>3, <1>4, <1>5, <1>6, <1>7, <1>8, <1>9, <1>10 DEF IInv

-----------------------------------------------------------------------------
LEMMA BarInv ==
    ASSUME IInv, NEW q \in Requests, NEW status \in {"banned", "erased"}, Bar(q, status)
    PROVE  IInv'
  <1>0. TokensTypeOK
    BY DEF IInv, TypeOK
  <1>1. TypeOK'
    <2>1. account' \in {"active", "banned", "erased"} /\ epoch' \in Nat
      BY <1>0 DEF Bar, TokensTypeOK
    <2>2. req' \in [Requests -> Handler]
      BY <1>0, IdleType DEF Bar, Begin, Idle, TokensTypeOK, Handler, Steps, Kinds
    <2> QED
      BY <1>0, <2>1, <2>2 DEF Bar, TypeOK, TokensTypeOK
  <1>2. LockedLive'
    BY <1>0 DEF Bar, Begin, Idle, Sweeping, IInv, TokensTypeOK, Handler, LockedLive,
       LockExclusive, Holds, Live
  <1>3. LockExclusive'
    BY <1>0 DEF Bar, Begin, Idle, Sweeping, IInv, TokensTypeOK, Handler,
       LockExclusive, LockedLive, Live, Holds
  <1>4. SessionKnown'
    BY <1>0 DEF Bar, Begin, Idle, Sweeping, IInv, TokensTypeOK, Handler,
       SessionKnown, LockedLive, Live
  <1>5. OneTokenPerLogin'
    BY <1>0 DEF Bar, Begin, Idle, Sweeping, IInv, TokensTypeOK, Handler,
       OneTokenPerLogin, SessionKnown, LockedLive, LockExclusive, Live
  <1>6. RacersMarked'
    BY <1>0 DEF Bar, Begin, Idle, Sweeping, IInv, TokensTypeOK, Handler, RacersMarked
  <1>7. OldLoginsMarked'
    BY <1>0 DEF Bar, Begin, Idle, Sweeping, IInv, TokensTypeOK, Handler,
       OldLoginsMarked, BarredKind, RacersMarked
  <1>8. ResetReaches'
    BY <1>0 DEF Bar, Begin, Idle, Sweeping, IInv, TokensTypeOK, Handler,
       ResetReaches, RacersMarked, Live
  <1>9. BarredKind'
    BY <1>0 DEF Bar, Begin, Idle, Sweeping, IInv, TokensTypeOK, Handler, BarredKind
  <1>10. SurvivorsOverlapped'
    BY <1>0 DEF Bar, Begin, Idle, Sweeping, IInv, TokensTypeOK, Handler,
       SurvivorsOverlapped, BarPending, BarredKind, RacersMarked, OldLoginsMarked,
       ResetReaches, LockedLive, Live
  <1> QED
    BY <1>1, <1>2, <1>3, <1>4, <1>5, <1>6, <1>7, <1>8, <1>9, <1>10 DEF IInv

-----------------------------------------------------------------------------
LEMMA BarSweepInv ==
    ASSUME IInv, NEW q \in Requests, BarSweep(q)
    PROVE  IInv'
  <1>0. TokensTypeOK
    BY DEF IInv, TypeOK
  <1>m. MarkRaced(q) \in [Requests -> Handler]
    BY <1>0, MarkRacedFacts
  <1>1. TypeOK'
    BY <1>0, <1>m, IdleType DEF BarSweep, Snapshot, Idle, Sweeping, IInv,
       LockedLive, Live, TypeOK, TokensTypeOK, Handler, Steps, Kinds
  <1>2. LockedLive'
    BY <1>0, MarkRacedFacts DEF BarSweep, Snapshot, Idle, Sweeping, IInv,
       TokensTypeOK, Handler, LockedLive, LockExclusive, Holds, Live
  <1>3. LockExclusive'
    BY <1>0, MarkRacedFacts DEF BarSweep, Snapshot, Idle, Sweeping, IInv,
       TokensTypeOK, Handler, LockExclusive, LockedLive, Live, Holds
  <1>4. SessionKnown'
    BY <1>0, MarkRacedFacts DEF BarSweep, Snapshot, Idle, Sweeping, IInv,
       TokensTypeOK, Handler, SessionKnown, LockedLive, Live
  <1>5. OneTokenPerLogin'
    BY <1>0, MarkRacedFacts DEF BarSweep, Snapshot, Idle, Sweeping, IInv,
       TokensTypeOK, Handler, OneTokenPerLogin, SessionKnown, LockedLive,
       LockExclusive, Live
  <1>6. RacersMarked'
    BY <1>0, MarkRacedFacts DEF BarSweep, Snapshot, Idle, Sweeping, IInv,
       TokensTypeOK, Handler, RacersMarked
  <1>7. OldLoginsMarked'
    BY <1>0, MarkRacedFacts DEF BarSweep, Snapshot, Idle, Sweeping, IInv,
       TokensTypeOK, Handler, OldLoginsMarked, BarredKind, RacersMarked
  <1>8. ResetReaches'
    BY <1>0, MarkRacedFacts DEF BarSweep, Snapshot, Idle, Sweeping, IInv,
       TokensTypeOK, Handler, ResetReaches, RacersMarked, Live
  <1>9. BarredKind'
    BY <1>0, MarkRacedFacts DEF BarSweep, Snapshot, Idle, Sweeping, IInv,
       TokensTypeOK, Handler, BarredKind
  <1>10. SurvivorsOverlapped'
    BY <1>0, MarkRacedFacts DEF BarSweep, Snapshot, Idle, Sweeping, IInv,
       TokensTypeOK, Handler, SurvivorsOverlapped, BarPending, BarredKind,
       RacersMarked, OldLoginsMarked, ResetReaches, LockedLive, Live
  <1> QED
    BY <1>1, <1>2, <1>3, <1>4, <1>5, <1>6, <1>7, <1>8, <1>9, <1>10 DEF IInv

-----------------------------------------------------------------------------
LEMMA StartSweepInv ==
    ASSUME IInv, NEW q \in Requests, NEW kind \in Kinds, NEW keep \in SUBSET Tokens, StartSweep(q, kind, keep)
    PROVE  IInv'
  <1>0. TokensTypeOK
    BY DEF IInv, TypeOK
  <1>m. MarkRaced(q) \in [Requests -> Handler]
    BY <1>0, MarkRacedFacts
  <1>1. TypeOK'
    BY <1>0, <1>m, IdleType DEF StartSweep, Snapshot, Idle, Sweeping, IInv,
       LockedLive, Live, TypeOK, TokensTypeOK, Handler, Steps, Kinds
  <1>2. LockedLive'
    BY <1>0, MarkRacedFacts DEF StartSweep, Snapshot, Idle, Sweeping, IInv,
       TokensTypeOK, Handler, LockedLive, LockExclusive, Holds, Live
  <1>3. LockExclusive'
    BY <1>0, MarkRacedFacts DEF StartSweep, Snapshot, Idle, Sweeping, IInv,
       TokensTypeOK, Handler, LockExclusive, LockedLive, Live, Holds
  <1>4. SessionKnown'
    BY <1>0, MarkRacedFacts DEF StartSweep, Snapshot, Idle, Sweeping, IInv,
       TokensTypeOK, Handler, SessionKnown, LockedLive, Live
  <1>5. OneTokenPerLogin'
    BY <1>0, MarkRacedFacts DEF StartSweep, Snapshot, Idle, Sweeping, IInv,
       TokensTypeOK, Handler, OneTokenPerLogin, SessionKnown, LockedLive,
       LockExclusive, Live
  <1>6. RacersMarked'
    BY <1>0, MarkRacedFacts DEF StartSweep, Snapshot, Idle, Sweeping, IInv,
       TokensTypeOK, Handler, RacersMarked
  <1>7. OldLoginsMarked'
    BY <1>0, MarkRacedFacts DEF StartSweep, Snapshot, Idle, Sweeping, IInv,
       TokensTypeOK, Handler, OldLoginsMarked, BarredKind, RacersMarked
  <1>8. ResetReaches'
    BY <1>0, MarkRacedFacts DEF StartSweep, Snapshot, Idle, Sweeping, IInv,
       TokensTypeOK, Handler, ResetReaches, RacersMarked, Live
  <1>9. BarredKind'
    BY <1>0, MarkRacedFacts DEF StartSweep, Snapshot, Idle, Sweeping, IInv,
       TokensTypeOK, Handler, BarredKind
  <1>10. SurvivorsOverlapped'
    <2>1. ASSUME NEW t \in Tokens, BarPending(t) PROVE BarPending(t)'
      BY <1>0, <2>1, MarkRacedFacts DEF StartSweep, Snapshot, Idle, BarPending, Handler
    <2>2. UNCHANGED <<row, proof, epoch, spared>> /\ Live' = Live
      BY DEF StartSweep, Live
    <2>3. Live \subseteq Tokens
      BY DEF Live
    <2> QED
      BY <2>1, <2>2, <2>3 DEF IInv, SurvivorsOverlapped
  <1> QED
    BY <1>1, <1>2, <1>3, <1>4, <1>5, <1>6, <1>7, <1>8, <1>9, <1>10 DEF IInv

-----------------------------------------------------------------------------
LEMMA EndSweepInv ==
    ASSUME IInv, NEW q \in Requests, EndSweep(q)
    PROVE  IInv'
  <1>0. TokensTypeOK
    BY DEF IInv, TypeOK
  <1>1. TypeOK'
    BY <1>0, IdleType DEF EndSweep, Unlocked, Finish, Idle, Sweeping, IInv,
       LockedLive, Live, TypeOK, TokensTypeOK, Handler, Steps, Kinds
  <1>2. LockedLive'
    BY <1>0 DEF EndSweep, Unlocked, Finish, Idle, Sweeping, IInv, TokensTypeOK,
       Handler, LockedLive, LockExclusive, Holds, Live
  <1>3. LockExclusive'
    BY <1>0 DEF EndSweep, Unlocked, Finish, Idle, Sweeping, IInv, TokensTypeOK,
       Handler, LockExclusive, LockedLive, Live, Holds
  <1>4. SessionKnown'
    BY <1>0 DEF EndSweep, Unlocked, Finish, Idle, Sweeping, IInv, TokensTypeOK,
       Handler, SessionKnown, LockedLive, Live
  <1>5. OneTokenPerLogin'
    BY <1>0 DEF EndSweep, Unlocked, Finish, Idle, Sweeping, IInv, TokensTypeOK,
       Handler, OneTokenPerLogin, SessionKnown, LockedLive, LockExclusive, Live
  <1>6. RacersMarked'
    BY <1>0 DEF EndSweep, Unlocked, Finish, Idle, Sweeping, IInv, TokensTypeOK,
       Handler, RacersMarked
  <1>7. OldLoginsMarked'
    BY <1>0 DEF EndSweep, Unlocked, Finish, Idle, Sweeping, IInv, TokensTypeOK,
       Handler, OldLoginsMarked, BarredKind, RacersMarked
  <1>8. ResetReaches'
    BY <1>0 DEF EndSweep, Unlocked, Finish, Idle, Sweeping, IInv, TokensTypeOK,
       Handler, ResetReaches, RacersMarked, Live
  <1>9. BarredKind'
    BY <1>0 DEF EndSweep, Unlocked, Finish, Idle, Sweeping, IInv, TokensTypeOK,
       Handler, BarredKind
  <1>10. SurvivorsOverlapped'
    BY <1>0 DEF EndSweep, Unlocked, Finish, Idle, Sweeping, IInv, TokensTypeOK,
       Handler, SurvivorsOverlapped, BarPending, BarredKind, RacersMarked,
       OldLoginsMarked, ResetReaches, LockedLive, Live
  <1> QED
    BY <1>1, <1>2, <1>3, <1>4, <1>5, <1>6, <1>7, <1>8, <1>9, <1>10 DEF IInv

-----------------------------------------------------------------------------
LEMMA SweepFailsInv ==
    ASSUME IInv, NEW q \in Requests, SweepFails(q)
    PROVE  IInv'
  <1>0. TokensTypeOK
    BY DEF IInv, TypeOK
  <1>m. MarkRaced(q) \in [Requests -> Handler]
    BY <1>0, MarkRacedFacts
  <1>1. TypeOK'
    BY <1>0, <1>m, IdleType DEF SweepFails, Idle, Sweeping, IInv, LockedLive, Live,
       TypeOK, TokensTypeOK, Handler, Steps, Kinds
  <1>2. LockedLive'
    BY <1>0, MarkRacedFacts DEF SweepFails, Idle, Sweeping, IInv, TokensTypeOK,
       Handler, LockedLive, LockExclusive, Holds, Live
  <1>3. LockExclusive'
    BY <1>0, MarkRacedFacts DEF SweepFails, Idle, Sweeping, IInv, TokensTypeOK,
       Handler, LockExclusive, LockedLive, Live, Holds
  <1>4. SessionKnown'
    BY <1>0, MarkRacedFacts DEF SweepFails, Idle, Sweeping, IInv, TokensTypeOK,
       Handler, SessionKnown, LockedLive, Live
  <1>5. OneTokenPerLogin'
    BY <1>0, MarkRacedFacts DEF SweepFails, Idle, Sweeping, IInv, TokensTypeOK,
       Handler, OneTokenPerLogin, SessionKnown, LockedLive, LockExclusive, Live
  <1>6. RacersMarked'
    BY <1>0, MarkRacedFacts DEF SweepFails, Idle, Sweeping, IInv, TokensTypeOK,
       Handler, RacersMarked
  <1>7. OldLoginsMarked'
    BY <1>0, MarkRacedFacts DEF SweepFails, Idle, Sweeping, IInv, TokensTypeOK,
       Handler, OldLoginsMarked, BarredKind, RacersMarked
  <1>8. ResetReaches'
    BY <1>0, MarkRacedFacts DEF SweepFails, Idle, Sweeping, IInv, TokensTypeOK,
       Handler, ResetReaches, RacersMarked, Live
  <1>9. BarredKind'
    BY <1>0, MarkRacedFacts DEF SweepFails, Idle, Sweeping, IInv, TokensTypeOK,
       Handler, BarredKind
  <1>10. SurvivorsOverlapped'
    BY <1>0, MarkRacedFacts DEF SweepFails, Idle, Sweeping, IInv, TokensTypeOK,
       Handler, SurvivorsOverlapped, BarPending, BarredKind, RacersMarked,
       OldLoginsMarked, ResetReaches, LockedLive, Live
  <1> QED
    BY <1>1, <1>2, <1>3, <1>4, <1>5, <1>6, <1>7, <1>8, <1>9, <1>10 DEF IInv

-----------------------------------------------------------------------------
LEMMA NextInv == IInv /\ [Next]_tokenVars => IInv'
  <1> SUFFICES ASSUME IInv, [Next]_tokenVars PROVE IInv'
    OBVIOUS
  <1>1. CASE \E q \in Requests : Handle(q)
    BY <1>1, LoginCheckInv, AbandonInv, IssueInv, SwapLockInv, SwapCommitInv DEF Handle
  <1>2. CASE \E q \in Requests : Sweep(q)
    <2>1. PICK q \in Requests : Sweep(q)
      BY <1>2
    <2>2. \A t \in Live : {t} \in SUBSET Tokens /\ Live \ {t} \in SUBSET Tokens
      BY DEF Live
    <2>3. "revoke" \in Kinds
      BY DEF Kinds
    <2> QED
      BY <2>1, <2>2, <2>3, BarInv, BarSweepInv, EndSweepInv, SweepFailsInv, StartSweepInv
         DEF Sweep
  <1>3. CASE \E t \in Tokens : Revoke(t)
    BY <1>3, RevokeInv
  <1>4. CASE Unban
    BY <1>4 DEF Unban, IInv, TypeOK, TokensTypeOK, LockedLive, LockExclusive, Holds, Live,
       SessionKnown, OneTokenPerLogin, RacersMarked, Sweeping, OldLoginsMarked,
       ResetReaches, BarredKind, SurvivorsOverlapped, BarPending
  <1>5. CASE UNCHANGED tokenVars
    BY <1>5 DEF tokenVars, IInv, TypeOK, TokensTypeOK, LockedLive, LockExclusive, Holds, Live,
       SessionKnown, OneTokenPerLogin, RacersMarked, Sweeping, OldLoginsMarked,
       ResetReaches, BarredKind, SurvivorsOverlapped, BarPending
  <1> QED
    BY <1>1, <1>2, <1>3, <1>4, <1>5 DEF Next

(* The tables and the handlers stay well-formed.                           *)
THEOREM SessionTypes == Spec => []TypeOK
  <1>1. IInv => TypeOK
    BY DEF IInv
  <1> QED
    BY <1>1, InitInv, NextInv, PTL DEF Spec

(* Refresh tokens are single-use: of any number of requests that present   *)
(* the same token, one gets a successor.                                   *)
THEOREM SingleUse == Spec => []OneTokenPerLogin
  <1>1. IInv => OneTokenPerLogin
    BY DEF IInv
  <1> QED
    BY <1>1, InitInv, NextInv, PTL DEF Spec

(* A session outlives a reset, ban or deletion only if a login or rotation *)
(* overlapped the statement that ends the sessions, or that failed.        *)
THEOREM SurvivorsExplained == Spec => []SurvivorsOverlapped
  <1>1. IInv => SurvivorsOverlapped
    BY DEF IInv
  <1> QED
    BY <1>1, InitInv, NextInv, PTL DEF Spec

-----------------------------------------------------------------------------
(* The table implements SingleSession.                                     *)

LEMMA StartsEmpty == Init => Sessions!SingleInit
  BY DEF Init, TokensInit, Sessions!SingleInit, Held, Used, Live

LEMMA LoginOpens ==
    ASSUME IInv, NEW q \in Requests, NEW n \in Tokens, Issue(q, n)
    PROVE  Sessions!LogIn(n)
  <1>1. /\ row[n] = "none" /\ row' = [row EXCEPT ![n] = "live"]
        /\ session' = [session EXCEPT ![n] = n]
        /\ row \in [Tokens -> {"none", "live", "revoked"}]
        /\ session \in [Tokens -> Tokens \cup {Nil}]
    BY DEF IInv, TypeOK, TokensTypeOK, Issue
  <1>2. Held' = Held \cup {<<n, n>>}
    BY <1>1 DEF Held, Live
  <1>3. Used' = Used \cup {n} /\ n \notin Used
    BY <1>1 DEF Used
  <1> QED
    BY <1>2, <1>3 DEF Sessions!LogIn

LEMMA SwapRotates ==
    ASSUME IInv, NEW q \in Requests, NEW n \in Tokens, SwapCommit(q, n)
    PROVE  \E s, t \in Tokens : Sessions!Rotate(s, t, n)
  <1> DEFINE t == req[q].tok
             s == session[t]
  <1>1. /\ row[n] = "none" /\ row' = [row EXCEPT ![t] = "revoked", ![n] = "live"]
        /\ session' = [session EXCEPT ![n] = s]
        /\ row \in [Tokens -> {"none", "live", "revoked"}]
        /\ session \in [Tokens -> Tokens \cup {Nil}]
    BY DEF IInv, TypeOK, TokensTypeOK, SwapCommit
  <1>2. t \in Tokens /\ row[t] = "live"
    BY DEF IInv, LockedLive, SwapCommit, Live
  <1>3. s \in Tokens
    BY <1>2 DEF IInv, SessionKnown
  <1>4. Live' = (Live \ {t}) \cup {n} /\ t # n
    BY <1>1, <1>2 DEF Live
  <1>5. Held' = (Held \ {<<s, t>>}) \cup {<<s, n>>}
    <2>1. \A u \in Live \ {t} : session'[u] = session[u]
      BY <1>1 DEF Live
    <2>2. session'[n] = s
      BY <1>1
    <2> HIDE DEF s, t
    <2> QED
      BY <1>4, <2>1, <2>2, <1>2, <1>1 DEF Held, Live, s
  <1>6. Used' = Used \cup {n} /\ n \notin Used
    BY <1>1, <1>2 DEF Used
  <1>7. <<s, t>> \in Held
    BY <1>2 DEF Held, Live
  <1>8. Sessions!Rotate(s, t, n)
    BY <1>5, <1>6, <1>7 DEF Sessions!Rotate
  <1> QED
    BY <1>2, <1>3, <1>8

(* Every other step changes no token or ends some.                         *)
LEMMA RestEnds ==
    ASSUME IInv, session' = session, row' \in [Tokens -> {"none", "live", "revoked"}],
           \A t \in Tokens : row'[t] = row[t] \/ (row[t] = "live" /\ row'[t] = "revoked")
    PROVE  Sessions!End
  <1>1. Live' \subseteq Live
    BY DEF Live
  <1>2. Held' \subseteq Held
    BY <1>1 DEF Held
  <1>3. Used' = Used
    BY DEF Used
  <1> QED
    BY <1>2, <1>3 DEF Sessions!End

LEMMA StepsMap == IInv /\ [Next]_tokenVars => [Sessions!SingleNext]_<<Held, Used>>
  <1> SUFFICES ASSUME IInv, [Next]_tokenVars PROVE Sessions!SingleNext
    OBVIOUS
  <1> DEFINE Ends == /\ session' = session
                     /\ row' \in [Tokens -> {"none", "live", "revoked"}]
                     /\ \A t \in Tokens : \/ row'[t] = row[t]
                                          \/ row[t] = "live" /\ row'[t] = "revoked"
  <1>1. row \in [Tokens -> {"none", "live", "revoked"}]
    BY DEF IInv, TypeOK, TokensTypeOK
  <1>2. Ends => Sessions!SingleNext
    BY RestEnds DEF Sessions!SingleNext
  <1> HIDE DEF Ends
  <1>3. row' = row /\ session' = session => Ends
    BY <1>1 DEF Ends
  <1>4. CASE UNCHANGED tokenVars
    BY <1>2, <1>3, <1>4 DEF tokenVars
  <1>5. ASSUME NEW q \in Requests, Handle(q) PROVE Sessions!SingleNext
    <2>1. CASE \E n \in Tokens : Issue(q, n)
      BY <2>1, LoginOpens DEF Sessions!SingleNext
    <2>2. CASE \E n \in Tokens : SwapCommit(q, n)
      BY <2>2, SwapRotates DEF Sessions!SingleNext
    <2>3. CASE LoginCheck(q) \/ Abandon(q) \/ \E t \in Tokens : SwapLock(q, t)
      BY <2>3, <1>2, <1>3 DEF LoginCheck, Abandon, SwapLock
    <2> QED
      BY <1>5, <2>1, <2>2, <2>3 DEF Handle
  <1>6. ASSUME NEW q \in Requests, Sweep(q) PROVE Sessions!SingleNext
    <2>1. CASE EndSweep(q)
      <3>1. Ends
        BY <2>1, <1>1 DEF EndSweep, Ends
      <3> QED
        BY <3>1, <1>2
    <2>2. CASE row' = row /\ session' = session
      BY <2>2, <1>2, <1>3
    <2> QED
      BY <1>6, <2>1, <2>2 DEF Sweep, Bar, BarSweep, StartSweep, SweepFails
  <1>7. ASSUME NEW t \in Tokens, Revoke(t) PROVE Sessions!SingleNext
    <2>1. Ends
      BY <1>7, <1>1 DEF Revoke, Ends
    <2> QED
      BY <2>1, <1>2
  <1>8. CASE Unban
    BY <1>8, <1>2, <1>3 DEF Unban
  <1> QED
    BY <1>4, <1>5, <1>6, <1>7, <1>8 DEF Next

(* Row locks, concurrent rotations, sweeps that miss a token, failures and *)
(* rollbacks of refresh.go included, the token table is a set of sessions  *)
(* with one token each, none of which is ever revived.                     *)
THEOREM TableImplementsSessions == Spec => OneHolder
  <1>1. Init => IInv
    BY InitInv
  <1>2. IInv /\ [Next]_tokenVars => IInv'
    BY NextInv
  <1> QED
    BY <1>1, <1>2, StartsEmpty, StepsMap, PTL DEF Spec, OneHolder, Sessions!SingleSpec

-----------------------------------------------------------------------------
(* The client: its two refresh flows and what it stores.                   *)

(* The requests of the flows: a row that is locked for a flow is the one   *)
(* whose token the flow has sent.                                          *)
Served ==
    \A f \in Flows :
        req[f].step = "locked" => flow[f].phase = "sent" /\ flow[f].tok = req[f].tok

(* Tokens the client knows, or was meant to know, have been issued.        *)
InUse ==
    /\ stored # Nil => row[stored] # "none"
    /\ \A f \in Flows : flow[f].tok # Nil => row[flow[f].tok] # "none"
    /\ \A t \in lost : row[t] # "none"

(* A flow has a successor that is not stored yet.                          *)
Answered(f) == flow[f].phase = "ok" /\ flow[f].tok # Nil

(* Until it is stored, only that flow knows the successor.                 *)
Own ==
    \A f \in Flows : Answered(f) =>
        /\ flow[f].tok # stored
        /\ \A g \in Flows \ {f} : flow[g].tok # flow[f].tok

(* What the client cannot help: somebody ended the session, or an answer   *)
(* of the server to it was lost.                                           *)
Excused(t) == t \in gone \/ \E l \in lost : session[l] = session[t]
Fine(t) == row[t] = "live" \/ Excused(t)

AnswersFine == \A f \in Flows : Answered(f) => Fine(flow[f].tok)

(* A stored token that was swapped has a flow that brings its successor.   *)
StoredFine ==
    stored # Nil => \/ Fine(stored)
                    \/ \E f \in Flows : Answered(f) /\ session[flow[f].tok] = session[stored]

KeysInv == Served /\ InUse /\ Own /\ AnswersFine /\ StoredFine

FlowStates == [phase : {"idle", "signin", "sent", "ok", "no"}, tok : Tokens \cup {Nil}]

(* The variables these facts are about.                                    *)
keySide == <<row, session, req, stored, flow, gone, lost>>

(* What of ClientTypeOK they need.                                         *)
KeyTypes ==
    /\ TokensTypeOK
    /\ stored \in Tokens \cup {Nil}
    /\ flow \in [Flows -> FlowStates]
    /\ gone \in SUBSET Tokens /\ lost \in SUBSET Tokens

LEMMA FlowFacts == "rest" \in Flows /\ "ws" \in Flows /\ Flows \subseteq Requests
  BY ClientAssumption DEF Flows

LEMMA KeysStay == ASSUME KeysInv, UNCHANGED keySide PROVE KeysInv'
  BY DEF KeysInv, keySide, Served, InUse, Own, AnswersFine, StoredFine, Answered, Fine, Excused

(* What the server does on the way does not hurt a token that is fine.     *)
LEMMA FineStays ==
    ASSUME KeyTypes, InUse, gone \subseteq gone', lost \subseteq lost',
           \A t \in Tokens : row[t] # "none" => session'[t] = session[t],
           NEW t \in Tokens, Fine(t), row[t] # "none",
           row[t] = "live" => row'[t] = "live" \/ t \in gone'
    PROVE  Fine(t)'
  BY DEF Fine, Excused, InUse, KeyTypes

(* A flow begins with the stored token: nobody's answer.                   *)
LEMMA FlowBegins ==
    ASSUME KeyTypes, KeysInv, NEW f \in Flows, flow[f].phase = "idle",
           NEW ph \in {"sent", "no"}, flow' = [flow EXCEPT ![f] = [phase |-> ph, tok |-> stored]],
           UNCHANGED <<row, session, req, stored, gone, lost>>
    PROVE  KeysInv'
  <1>1. flow'[f].phase = ph /\ flow'[f].tok = stored /\ \A g \in Flows \ {f} : flow'[g] = flow[g]
    BY DEF KeyTypes
  <1>2. \A g \in Flows : Answered(g)' <=> Answered(g)
    BY <1>1 DEF Answered
  <1>3. Served'
    BY <1>1 DEF KeysInv, Served
  <1>4. InUse'
    BY <1>1 DEF KeysInv, InUse
  <1>5. Own'
    BY <1>1, <1>2 DEF KeysInv, Own, Answered
  <1>6. AnswersFine' /\ StoredFine'
    BY <1>1, <1>2 DEF KeysInv, AnswersFine, StoredFine, Answered, Fine, Excused
  <1> QED
    BY <1>3, <1>4, <1>5, <1>6 DEF KeysInv

(* A flow that brings nothing is over, or has failed.                      *)
LEMMA FlowGivesUp ==
    ASSUME KeyTypes, KeysInv, NEW f \in Flows, ~Answered(f), req[f].step # "locked",
           flow'[f].phase # "ok",
           flow'[f].tok \in {flow[f].tok, Nil},
           \A g \in Flows \ {f} : flow'[g] = flow[g],
           UNCHANGED <<row, session, req, gone, lost>>,
           stored' \in {stored, Nil}
    PROVE  KeysInv'
  <1>1. \A g \in Flows : Answered(g)' <=> Answered(g)
    BY DEF Answered
  <1>2. Served'
    BY DEF KeysInv, Served
  <1>3. InUse'
    BY DEF KeysInv, InUse
  <1>4. Own'
    BY <1>1 DEF KeysInv, Own, Answered
  <1>5. AnswersFine' /\ StoredFine'
    BY <1>1 DEF KeysInv, AnswersFine, StoredFine, Answered, Fine, Excused
  <1> QED
    BY <1>2, <1>3, <1>4, <1>5 DEF KeysInv

(* A flow stores the successor it brings.                                  *)
LEMMA FlowStores ==
    ASSUME KeyTypes, KeysInv, NEW f \in Flows, Answered(f),
           flow'[f].tok = Nil,
           \A g \in Flows \ {f} : flow'[g] = flow[g],
           UNCHANGED <<row, session, req, gone, lost>>,
           stored' = flow[f].tok
    PROVE  KeysInv'
  <1>1. \A g \in Flows : Answered(g)' <=> Answered(g) /\ g # f
    BY DEF Answered
  <1>2. Served'
    BY DEF KeysInv, Served, Answered
  <1>3. InUse'
    BY DEF KeysInv, InUse
  <1>4. Own'
    BY <1>1 DEF KeysInv, Own, Answered
  <1>5. AnswersFine' /\ StoredFine'
    BY <1>1 DEF KeysInv, AnswersFine, StoredFine, Answered, Fine, Excused
  <1> QED
    BY <1>2, <1>3, <1>4, <1>5 DEF KeysInv

(* Somebody ends a session: nothing else changes on the client's side, or  *)
(* it forgets its token.                                                   *)
LEMMA Ended ==
    ASSUME KeyTypes, KeysInv, NEW t \in Tokens, Revoke(t), gone' = gone \cup {t},
           UNCHANGED <<flow, lost>>, stored' \in {stored, Nil}
    PROVE  KeysInv'
  <1>1. row' = [row EXCEPT ![t] = "revoked"] /\ row[t] = "live" /\ UNCHANGED <<session, req>>
    BY DEF Revoke
  <1>2. \A g \in Flows : Answered(g)' <=> Answered(g)
    BY DEF Answered
  <1>3. \A u \in Tokens : /\ row[u] # "none" => row'[u] # "none"
                          /\ row[u] = "live" => row'[u] = "live" \/ u \in gone'
    BY <1>1 DEF KeyTypes, TokensTypeOK
  <1>4. \A u \in Tokens : row[u] # "none" /\ Fine(u) => Fine(u)'
    BY <1>1, <1>3, FineStays DEF KeysInv
  <1>5. stored # Nil => stored \in Tokens
    BY DEF KeyTypes
  <1>6. \A g \in Flows : Answered(g) => flow[g].tok \in Tokens
    BY DEF KeyTypes, FlowStates, Answered
  <1>7. Served'
    BY <1>1 DEF KeysInv, Served
  <1>8. InUse'
    BY <1>3 DEF KeysInv, InUse, KeyTypes, FlowStates
  <1>9. Own'
    BY <1>2 DEF KeysInv, Own, Answered
  <1>10. AnswersFine'
    BY <1>2, <1>4, <1>6 DEF KeysInv, AnswersFine, InUse, Answered
  <1>11. StoredFine'
    BY <1>1, <1>2, <1>4, <1>5 DEF KeysInv, StoredFine, InUse
  <1> QED
    BY <1>7, <1>8, <1>9, <1>10, <1>11 DEF KeysInv

(* The answer of a refresh is lost after the server has swapped the token. *)
LEMMA AnswerLost ==
    ASSUME KeyTypes, KeysInv, NEW f \in Flows, Answered(f),
           lost' = lost \cup {flow[f].tok},
           flow' = [flow EXCEPT ![f] = [phase |-> "no", tok |-> Nil]],
           UNCHANGED <<row, session, req, gone, stored>>
    PROVE  KeysInv'
  <1>1. /\ flow'[f] = [phase |-> "no", tok |-> Nil]
        /\ \A g \in Flows \ {f} : flow'[g] = flow[g]
    BY DEF KeyTypes
  <1>2. \A g \in Flows : Answered(g)' <=> Answered(g) /\ g # f
    BY <1>1 DEF Answered
  <1>3. Served'
    BY <1>1 DEF KeysInv, Served, Answered
  <1>4. InUse'
    BY <1>1 DEF KeysInv, InUse, Answered
  <1>5. Own'
    BY <1>1, <1>2 DEF KeysInv, Own, Answered
  <1>6. AnswersFine'
    BY <1>1, <1>2 DEF KeysInv, AnswersFine, Answered, Fine, Excused
  <1>7. StoredFine'
    BY <1>1, <1>2 DEF KeysInv, StoredFine, Answered, Fine, Excused
  <1> QED
    BY <1>3, <1>4, <1>5, <1>6, <1>7 DEF KeysInv

(* A login stores a token nobody has seen before.                          *)
LEMMA LoginStores ==
    ASSUME KeyTypes, KeysInv, NEW n \in Tokens, SignedIn(n)
    PROVE  KeysInv'
  <1>1. /\ row[n] = "none" /\ row' = [row EXCEPT ![n] = "live"]
        /\ session' = [session EXCEPT ![n] = n]
        /\ req' = [req EXCEPT !["rest"] = Idle]
        /\ flow' = [flow EXCEPT !["rest"] = NoFlow]
        /\ stored' = n /\ UNCHANGED <<gone, lost>>
    BY DEF SignedIn, Issue, Finish, pastVars
  <1>2. flow'["rest"] = NoFlow /\ \A g \in Flows \ {"rest"} : flow'[g] = flow[g]
    BY <1>1, FlowFacts DEF KeyTypes
  <1>3. \A g \in Flows : req'[g].step = "locked" => g # "rest" /\ req'[g] = req[g]
    BY <1>1, FlowFacts DEF KeyTypes, TokensTypeOK, Idle
  <1>4. \A g \in Flows : Answered(g)' <=> Answered(g) /\ g # "rest"
    BY <1>2 DEF Answered, NoFlow
  <1>5. /\ \A u \in Tokens \ {n} : row'[u] = row[u] /\ session'[u] = session[u]
        /\ row'[n] = "live"
    BY <1>1 DEF KeyTypes, TokensTypeOK
  <1>6. \A u \in Tokens : row[u] # "none" /\ Fine(u) => Fine(u)'
    BY <1>1, <1>5, FineStays DEF KeysInv
  <1>7. \A g \in Flows : flow[g].tok # Nil => flow[g].tok \in Tokens \ {n} /\ row[flow[g].tok] # "none"
    BY <1>1 DEF KeyTypes, FlowStates, KeysInv, InUse
  <1>8. Served'
    BY <1>2, <1>3 DEF KeysInv, Served
  <1>9. InUse'
    BY <1>1, <1>2, <1>5, <1>7 DEF KeysInv, InUse, KeyTypes, NoFlow
  <1>10. Own'
    BY <1>1, <1>2, <1>4, <1>7 DEF KeysInv, Own, Answered, NoFlow
  <1>11. AnswersFine'
    BY <1>2, <1>4, <1>6, <1>7 DEF KeysInv, AnswersFine, Answered
  <1>12. StoredFine'
    BY <1>1, <1>5 DEF StoredFine, Fine
  <1> QED
    BY <1>8, <1>9, <1>10, <1>11, <1>12 DEF KeysInv

(* The server swaps the token a flow has sent: only that flow knows the    *)
(* successor, and it is of the same login.                                 *)
LEMMA SwapAnswers ==
    ASSUME KeyTypes, KeysInv, NEW f \in Flows, NEW n \in Tokens, RefreshServed(f, n)
    PROVE  KeysInv'
  <1> DEFINE t == flow[f].tok
  <1>1. /\ req[f].step = "locked" /\ t = req[f].tok /\ flow[f].phase = "sent"
        /\ row[n] = "none"
        /\ row' = [row EXCEPT ![req[f].tok] = "revoked", ![n] = "live"]
        /\ session' = [session EXCEPT ![n] = session[req[f].tok]]
        /\ req' = [req EXCEPT ![f] = Idle]
        /\ flow' = [flow EXCEPT ![f] = [phase |-> "ok", tok |-> n]]
        /\ UNCHANGED <<stored, gone, lost>>
    BY DEF RefreshServed, SwapCommit, Finish, KeysInv, Served, keyVars, pastVars
  <1>2. flow'[f] = [phase |-> "ok", tok |-> n] /\ \A g \in Flows \ {f} : flow'[g] = flow[g]
    BY <1>1 DEF KeyTypes
  <1>3. \A g \in Flows : req'[g].step = "locked" => g # f /\ req'[g] = req[g]
    BY <1>1, FlowFacts DEF KeyTypes, TokensTypeOK, Idle
  <1>4. \A g \in Flows : Answered(g)' <=> Answered(g) \/ g = f
    BY <1>1, <1>2 DEF Answered
  <1>5. ~Answered(f)
    BY <1>1 DEF Answered
  <1>6. /\ \A u \in Tokens \ {n} : session'[u] = session[u] /\ (u # t => row'[u] = row[u])
        /\ \A u \in Tokens : row[u] # "none" => row'[u] # "none"
        /\ row'[n] = "live"
        /\ session'[n] = session[t]
    BY <1>1 DEF KeyTypes, TokensTypeOK
  <1>7. \A g \in Flows : flow[g].tok # Nil => flow[g].tok \in Tokens \ {n} /\ row[flow[g].tok] # "none"
    BY <1>1 DEF KeyTypes, FlowStates, KeysInv, InUse
  <1>8. stored # Nil => stored \in Tokens \ {n} /\ row[stored] # "none"
    BY <1>1 DEF KeyTypes, KeysInv, InUse
  <1>9. \A u \in Tokens \ {t} : row[u] # "none" /\ Fine(u) => Fine(u)'
    BY <1>1, <1>6, FineStays DEF KeysInv
  <1>10. Served'
    BY <1>2, <1>3 DEF KeysInv, Served
  <1>11. InUse'
    BY <1>1, <1>2, <1>6, <1>7, <1>8 DEF KeysInv, InUse, KeyTypes
  <1>12. Own'
    BY <1>1, <1>2, <1>4, <1>7, <1>8 DEF KeysInv, Own, Answered
  <1>13. AnswersFine'
    <2> SUFFICES ASSUME NEW g \in Flows, Answered(g)' PROVE Fine(flow[g].tok)'
      BY DEF AnswersFine
    <2>1. CASE g = f
      BY <1>2, <1>6, <2>1 DEF Fine
    <2>2. CASE g # f
      <3>1. Answered(g) /\ flow'[g].tok = flow[g].tok
        BY <1>2, <1>4, <2>2
      <3>2. flow[g].tok # t
        BY <3>1, <2>2 DEF KeysInv, Own
      <3>3. PICK u \in Tokens \ {t} : u = flow[g].tok /\ row[u] # "none" /\ Fine(u)
        BY <3>1, <3>2, <1>7 DEF KeysInv, AnswersFine, Answered
      <3>4. Fine(u)'
        BY <3>3, <1>9
      <3> QED
        BY <3>1, <3>3, <3>4 DEF Fine, Excused
    <2> QED
      BY <2>1, <2>2
  <1>14. StoredFine'
    <2> SUFFICES ASSUME stored # Nil
                 PROVE  \/ Fine(stored)'
                        \/ \E g \in Flows : Answered(g)' /\ session'[flow'[g].tok] = session'[stored]
      BY <1>1 DEF StoredFine
    <2>1. CASE stored = t
      BY <2>1, <1>2, <1>4, <1>6, <1>8
    <2>2. CASE stored # t /\ Fine(stored)
      <3>1. PICK u \in Tokens \ {t} : u = stored /\ row[u] # "none" /\ Fine(u)
        BY <2>2, <1>8
      <3>2. Fine(u)'
        BY <3>1, <1>9
      <3> QED
        BY <3>1, <3>2, <1>1 DEF Fine, Excused
    <2>3. CASE \E g \in Flows : Answered(g) /\ session[flow[g].tok] = session[stored]
      <3>1. PICK g \in Flows : Answered(g) /\ session[flow[g].tok] = session[stored]
        BY <2>3
      <3>2. g # f /\ flow[g].tok \in Tokens \ {n}
        BY <3>1, <1>5, <1>7 DEF Answered
      <3>3. flow'[g] = flow[g] /\ Answered(g)'
        BY <3>1, <3>2, <1>2, <1>4
      <3>4. session'[flow[g].tok] = session[flow[g].tok] /\ session'[stored] = session[stored]
        BY <3>2, <1>6, <1>8
      <3> QED
        BY <3>1, <3>3, <3>4
    <2> QED
      BY <2>1, <2>2, <2>3 DEF KeysInv, StoredFine
  <1> QED
    BY <1>10, <1>11, <1>12, <1>13, <1>14 DEF KeysInv

LEMMA StepKeys == ASSUME KeyTypes, KeysInv, [ClientNext]_vars PROVE KeysInv'
  <1> USE FlowFacts DEF keyVars, wsVars, pastVars
  <1>0. \A f \in Flows : /\ req[f].step = "locked" => flow[f].phase = "sent"
                         /\ flow[f] \in FlowStates
    BY DEF KeysInv, Served, KeyTypes
  <1>1. CASE SignIn
    <2>1. /\ flow' = [flow EXCEPT !["rest"].phase = "signin"]
          /\ flow["rest"].phase = "idle"
          /\ UNCHANGED <<row, session, stored, gone, lost>>
      BY <1>1 DEF SignIn, LoginCheck
    <2>2. /\ flow'["rest"].phase = "signin" /\ flow'["rest"].tok = flow["rest"].tok
          /\ \A g \in Flows \ {"rest"} : flow'[g] = flow[g]
      BY <2>1 DEF KeyTypes, FlowStates
    <2>3. \A g \in Flows : req'[g].step = "locked" => g # "rest" /\ req'[g] = req[g]
      BY <1>1 DEF SignIn, LoginCheck, Begin, Idle, KeyTypes, TokensTypeOK
    <2>4. \A g \in Flows : Answered(g)' <=> Answered(g)
      BY <2>1, <2>2 DEF Answered
    <2>5. Served'
      BY <2>2, <2>3 DEF KeysInv, Served
    <2>6. InUse'
      BY <2>1, <2>2 DEF KeysInv, InUse
    <2>7. Own'
      BY <2>1, <2>2, <2>4 DEF KeysInv, Own
    <2>8. AnswersFine' /\ StoredFine'
      BY <2>1, <2>2, <2>4 DEF KeysInv, AnswersFine, StoredFine, Fine, Excused
    <2> QED
      BY <2>5, <2>6, <2>7, <2>8 DEF KeysInv
  <1>2. CASE RestStarts
    <2>1. PICK ph \in {"sent", "no"} :
              flow' = [flow EXCEPT !["rest"] = [phase |-> ph, tok |-> stored]]
      BY <1>2 DEF RestStarts
    <2> QED
      BY <2>1, <1>2, FlowBegins DEF RestStarts, tokenVars
  <1>3. CASE RestSucceeds
    <2>1. /\ flow'["rest"] = NoFlow /\ \A g \in Flows \ {"rest"} : flow'[g] = flow[g]
          /\ UNCHANGED <<row, session, req, gone, lost>>
          /\ stored' = flow["rest"].tok /\ flow["rest"].phase = "ok"
      BY <1>3 DEF RestSucceeds, tokenVars, KeyTypes
    <2>2. CASE Answered("rest")
      BY <2>1, <2>2, FlowStores DEF NoFlow
    <2>3. CASE ~Answered("rest")
      BY <2>1, <2>3, <1>0, FlowGivesUp DEF NoFlow, Answered
    <2> QED
      BY <2>2, <2>3
  <1>4. CASE RestFails
    <2>1. /\ flow'["rest"] = NoFlow /\ \A g \in Flows \ {"rest"} : flow'[g] = flow[g]
          /\ UNCHANGED <<row, session, req, gone, lost>>
          /\ stored' = Nil /\ flow["rest"].phase = "no"
      BY <1>4 DEF RestFails, tokenVars, KeyTypes
    <2> QED
      BY <2>1, <1>0, FlowGivesUp DEF NoFlow, Answered
  <1>5. CASE LogOut
    <2>1. UNCHANGED <<flow, lost>> /\ stored' = Nil /\ flow["rest"].phase = "idle"
      BY <1>5 DEF LogOut
    <2>2. CASE stored # Nil /\ Revoke(stored) /\ gone' = gone \cup {stored}
      BY <2>1, <2>2, Ended DEF KeyTypes
    <2>3. CASE UNCHANGED <<tokenVars, gone>>
      BY <2>1, <2>3, <1>0, FlowGivesUp DEF tokenVars, Answered
    <2> QED
      BY <1>5, <2>2, <2>3 DEF LogOut
  <1>6. CASE Mount
    BY <1>6, KeysStay DEF Mount, tokenVars, keySide
  <1>7. CASE HomeLoaded
    BY <1>7, KeysStay DEF HomeLoaded, tokenVars, keySide
  <1>8. ASSUME NEW n \in Tokens, SignedIn(n) PROVE KeysInv'
    BY <1>8, LoginStores
  <1>9. ASSUME NEW f \in Flows, RefreshReceived(f) PROVE KeysInv'
    <2>1. /\ UNCHANGED <<row, session, stored, flow, gone, lost>>
          /\ flow[f].phase = "sent"
          /\ req'[f].tok = flow[f].tok
          /\ \A g \in Flows \ {f} : req'[g] = req[g]
      BY <1>9 DEF RefreshReceived, SwapLock, Begin, Idle, KeyTypes, TokensTypeOK
    <2>2. Served'
      BY <2>1 DEF KeysInv, Served
    <2> QED
      BY <2>1, <2>2 DEF KeysInv, InUse, Own, AnswersFine, StoredFine, Answered, Fine, Excused
  <1>10. ASSUME NEW f \in Flows, NEW n \in Tokens, RefreshServed(f, n) PROVE KeysInv'
    BY <1>10, SwapAnswers
  <1>11. ASSUME NEW f \in Flows, RefreshRefused(f) PROVE KeysInv'
    <2>1. /\ flow'[f].phase = "no" /\ flow'[f].tok = flow[f].tok
          /\ \A g \in Flows \ {f} : flow'[g] = flow[g]
      BY <1>11 DEF RefreshRefused, KeyTypes, FlowStates
    <2>2. ~Answered(f) /\ req[f].step # "locked" /\ UNCHANGED <<row, session, req, gone, lost, stored>>
      BY <1>11 DEF RefreshRefused, Answered, Idle, tokenVars
    <2> QED
      BY <2>1, <2>2, FlowGivesUp
  <1>12. ASSUME NEW f \in Flows, RefreshLost(f) PROVE KeysInv'
    <2>1. /\ flow' = [flow EXCEPT ![f] = [phase |-> "no", tok |-> Nil]]
          /\ req[f].step # "locked"
          /\ lost' = IF flow[f].phase = "ok" THEN lost \cup {flow[f].tok} ELSE lost
          /\ flow[f].tok # Nil
          /\ UNCHANGED <<row, session, req, gone, stored>>
      BY <1>12 DEF RefreshLost, Idle, tokenVars
    <2>2. CASE Answered(f)
      BY <2>1, <2>2, AnswerLost DEF Answered
    <2>3. CASE ~Answered(f)
      <3>1. /\ flow'[f] = [phase |-> "no", tok |-> Nil]
            /\ \A g \in Flows \ {f} : flow'[g] = flow[g]
        BY <2>1 DEF KeyTypes
      <3>2. lost' = lost
        BY <2>1, <2>3 DEF Answered
      <3> QED
        BY <2>1, <2>3, <3>1, <3>2, FlowGivesUp
    <2> QED
      BY <2>2, <2>3
  <1>13. ASSUME NEW t \in Tokens, SessionEnds(t) PROVE KeysInv'
    BY <1>13, Ended DEF SessionEnds
  <1>14. CASE AccessExpires
    BY <1>14, KeysStay DEF AccessExpires, tokenVars, keySide
  <1>15. CASE TimerFires
    BY <1>15, KeysStay DEF TimerFires, tokenVars, keySide
  <1>16. CASE SendNudge
    BY <1>16, KeysStay DEF SendNudge, tokenVars, keySide
  <1>17. CASE WsStored
    <2>1. /\ flow'["ws"].tok = Nil /\ \A g \in Flows \ {"ws"} : flow'[g] = flow[g]
          /\ Answered("ws") /\ stored' = flow["ws"].tok
          /\ UNCHANGED <<row, session, req, gone, lost>>
      BY <1>17 DEF WsStored, WsStores, Answered, KeyTypes, FlowStates, tokenVars
    <2> QED
      BY <2>1, FlowStores
  <1>18. CASE WsThen
    BY <1>18, KeysStay DEF WsThen, tokenVars, keySide
  <1>19. CASE WsCleared
    <2>1. /\ flow'["ws"] = NoFlow /\ \A g \in Flows \ {"ws"} : flow'[g] = flow[g]
          /\ ~Answered("ws") /\ flow["ws"].phase # "sent"
          /\ UNCHANGED <<row, session, req, gone, lost, stored>>
      BY <1>19 DEF WsCleared, WsSettled, Answered, KeyTypes, tokenVars
    <2> QED
      BY <2>1, <1>0, FlowGivesUp DEF NoFlow
  <1>20. ASSUME NEW s \in Sockets, SockOpens(s) PROVE KeysInv'
    BY <1>20, KeysStay DEF SockOpens, tokenVars, keySide
  <1>21. ASSUME NEW s \in Sockets, SockCloses(s) PROVE KeysInv'
    <2>1. UNCHANGED <<row, session, req, gone, lost, stored>>
      BY <1>21 DEF SockCloses, tokenVars
    <2>2. CASE flow' = flow
      BY <2>1, <2>2, KeysStay DEF keySide
    <2>3. CASE flow' # flow
      <3>1. /\ flow["ws"].phase = "idle"
            /\ flow' = [flow EXCEPT !["ws"] = [phase |-> IF stored = Nil THEN "no" ELSE "sent",
                                               tok |-> stored]]
        BY <1>21, <2>3 DEF SockCloses
      <3>2. PICK ph \in {"sent", "no"} : flow' = [flow EXCEPT !["ws"] = [phase |-> ph, tok |-> stored]]
        BY <3>1
      <3> QED
        BY <2>1, <3>1, <3>2, FlowBegins
    <2> QED
      BY <2>2, <2>3
  <1>22. CASE UNCHANGED vars
    BY <1>22, KeysStay DEF vars, tokenVars, keySide
  <1> QED
    BY <1>1, <1>2, <1>3, <1>4, <1>5, <1>6, <1>7, <1>8, <1>9, <1>10, <1>11, <1>12, <1>13, <1>14, <1>15, <1>16, <1>17, <1>18, <1>19, <1>20, <1>21, <1>22
       DEF ClientNext, Session, Server, Socket

-----------------------------------------------------------------------------
(* The client: its pages and its sockets.                                  *)

(* Whoever is past the login page has an access token, and so had Home     *)
(* when it asked for its first data.                                       *)
Entered ==
    /\ screen # "login" => access # "none"
    /\ loading => memo # "none"

SocketLeft == \E s \in Sockets : sock[s] \notin {"new", "closed"}

(* A shown page that did not give up has a socket, a timer or a callback   *)
(* of the flow that will open one; the flow alone is not enough, for it is *)
(* cleared once the callbacks have run.                                    *)
Reconnects ==
    /\ thens > 0 => flow["ws"].phase # "idle"
    /\ cur # Nil => sock[cur] # "new"
    /\ screen = "app" /\ ~closed => timer \/ thens > 0 \/ SocketLeft

LEMMA OpenLeaves ==
    ASSUME ClientTypeOK, Open
    PROVE  /\ cur' \in Sockets \cup {Nil} /\ sock' \in [Sockets -> SockStates]
           /\ access # "none" => SocketLeft'
           /\ SocketLeft => SocketLeft'
           /\ (cur # Nil => sock[cur] # "new") => (cur' # Nil => sock'[cur'] # "new")
  <1>1. CASE access = "none"
    BY <1>1 DEF Open, ClientTypeOK, SocketLeft
  <1>2. CASE access # "none"
    <2>1. PICK s \in Sockets :
             /\ sock' = [sock EXCEPT ![s] = IF access = "fresh" THEN "connecting" ELSE "doomed"]
             /\ cur' = s
      BY <1>2 DEF Open
    <2>2. sock'[s] \in {"connecting", "doomed"} /\ \A q \in Sockets \ {s} : sock'[q] = sock[q]
      BY <2>1 DEF ClientTypeOK
    <2> QED
      BY <1>2, <2>1, <2>2 DEF ClientTypeOK, SockStates, SocketLeft
  <1> QED
    BY <1>1, <1>2

LEMMA StepPages == ASSUME ClientTypeOK, Entered, Reconnects, [ClientNext]_vars
                   PROVE  Entered' /\ Reconnects'
  <1> USE DEF Entered, keyVars, wsVars, pastVars
  <1>0. /\ sock \in [Sockets -> SockStates] /\ cur \in Sockets \cup {Nil} /\ thens \in Nat
        /\ flow \in [Flows -> FlowStates] /\ closed \in BOOLEAN /\ timer \in BOOLEAN
    BY DEF ClientTypeOK, FlowStates
  <1>1. CASE SignIn
    <2>1. flow'["ws"] = flow["ws"]
      BY <1>1, <1>0, FlowFacts DEF SignIn
    <2> QED
      BY <1>1, <2>1 DEF SignIn, Reconnects, SocketLeft
  <1>2. CASE RestStarts
    <2>1. flow'["ws"] = flow["ws"]
      BY <1>2, <1>0, FlowFacts DEF RestStarts
    <2> QED
      BY <1>2, <2>1 DEF RestStarts, Reconnects, SocketLeft
  <1>3. CASE RestSucceeds
    <2>1. flow'["ws"] = flow["ws"]
      BY <1>3, <1>0, FlowFacts DEF RestSucceeds
    <2> QED
      BY <1>3, <2>1 DEF RestSucceeds, Reconnects, SocketLeft
  <1>4. CASE RestFails
    <2>1. flow'["ws"] = flow["ws"]
      BY <1>4, <1>0, FlowFacts DEF RestFails
    <2> QED
      BY <1>4, <2>1 DEF RestFails, Reconnects, SocketLeft
  <1>5. CASE LogOut
    <2>1. screen' = "login" /\ loading' = FALSE /\ cur' = Nil /\ UNCHANGED <<flow, thens>>
      BY <1>5 DEF LogOut
    <2> QED
      BY <2>1 DEF Reconnects
  <1>6. CASE Mount
    <2>1. /\ screen # "login" /\ access # "none" /\ UNCHANGED <<access, memo, flow, thens, timer>>
          /\ loading' \in {loading, memo # "none"}
      BY <1>6 DEF Mount, ConnectCall
    <2>2. Entered'
      BY <2>1
    <2>3. CASE ((cur # Nil /\ sock[cur] # "closed") \/ timer) /\ UNCHANGED <<cur, sock>>
      <3>1. CASE timer
        BY <2>1, <2>3, <3>1 DEF Reconnects
      <3>2. CASE cur # Nil /\ sock[cur] # "closed"
        BY <2>1, <2>3, <3>2, <1>0 DEF Reconnects, SocketLeft
      <3> QED
        BY <2>3, <3>1, <3>2
    <2>4. CASE Open
      BY <2>1, <2>4, OpenLeaves DEF Reconnects
    <2> QED
      BY <1>6, <2>2, <2>3, <2>4 DEF Mount, ConnectCall
  <1>7. CASE HomeLoaded
    BY <1>7 DEF HomeLoaded, Reconnects, SocketLeft
  <1>8. ASSUME NEW n \in Tokens, SignedIn(n) PROVE Entered' /\ Reconnects'
    <2>1. flow'["ws"] = flow["ws"]
      BY <1>8, <1>0, FlowFacts DEF SignedIn
    <2> QED
      BY <1>8, <2>1 DEF SignedIn, Reconnects, SocketLeft
  <1>9. ASSUME NEW f \in Flows, RefreshReceived(f) PROVE Entered' /\ Reconnects'
    BY <1>9 DEF RefreshReceived, Reconnects, SocketLeft
  <1>10. ASSUME NEW f \in Flows, NEW n \in Tokens, RefreshServed(f, n) PROVE Entered' /\ Reconnects'
    <2>1. flow["ws"].phase # "idle" => flow'["ws"].phase # "idle"
      BY <1>10, <1>0, FlowFacts DEF RefreshServed
    <2> QED
      BY <1>10, <2>1 DEF RefreshServed, Reconnects, SocketLeft
  <1>11. ASSUME NEW f \in Flows, RefreshRefused(f) PROVE Entered' /\ Reconnects'
    <2>1. flow["ws"].phase # "idle" => flow'["ws"].phase # "idle"
      BY <1>11, <1>0, FlowFacts DEF RefreshRefused, FlowStates
    <2> QED
      BY <1>11, <2>1 DEF RefreshRefused, Reconnects, SocketLeft
  <1>12. ASSUME NEW f \in Flows, RefreshLost(f) PROVE Entered' /\ Reconnects'
    <2>1. flow["ws"].phase # "idle" => flow'["ws"].phase # "idle"
      BY <1>12, <1>0, FlowFacts DEF RefreshLost
    <2> QED
      BY <1>12, <2>1 DEF RefreshLost, Reconnects, SocketLeft
  <1>13. ASSUME NEW t \in Tokens, SessionEnds(t) PROVE Entered' /\ Reconnects'
    BY <1>13 DEF SessionEnds, Reconnects, SocketLeft
  <1>14. CASE AccessExpires
    <2>1. \A s \in Sockets : /\ sock[s] = "new" <=> sock'[s] = "new"
                             /\ sock[s] = "closed" <=> sock'[s] = "closed"
      BY <1>14, <1>0 DEF AccessExpires
    <2>2. UNCHANGED <<screen, loading, flow, thens, cur, timer, closed>>
      BY <1>14 DEF AccessExpires
    <2>3. Entered'
      BY <1>14 DEF AccessExpires
    <2> QED
      BY <2>1, <2>2, <2>3, <1>0 DEF Reconnects, SocketLeft
  <1>15. CASE TimerFires
    <2>1. Open /\ UNCHANGED <<screen, access, memo, loading, flow, thens, closed>>
      BY <1>15 DEF TimerFires
    <2> QED
      BY <2>1, OpenLeaves DEF Reconnects
  <1>16. CASE SendNudge
    BY <1>16 DEF SendNudge, Reconnects
  <1>17. CASE WsStored
    <2>1. flow'["ws"].phase = flow["ws"].phase
      BY <1>17, <1>0, FlowFacts DEF WsStored, FlowStates
    <2> QED
      BY <1>17, <2>1 DEF WsStored, WsStores, Reconnects, SocketLeft
  <1>18. CASE WsThen
    <2>1. /\ thens > 0 /\ thens' = thens - 1
          /\ UNCHANGED <<screen, access, memo, loading, flow, timer>>
      BY <1>18 DEF WsThen
    <2>2. CASE closed' = TRUE /\ UNCHANGED <<cur, sock>>
      BY <2>1, <2>2, <1>0 DEF Reconnects
    <2>3. CASE Open
      BY <2>1, <2>3, <1>0, OpenLeaves DEF Reconnects
    <2> QED
      BY <1>18, <1>0, <2>2, <2>3 DEF WsThen
  <1>19. CASE WsCleared
    BY <1>19, <1>0 DEF WsCleared, Reconnects, SocketLeft
  <1>20. ASSUME NEW s \in Sockets, SockOpens(s) PROVE Entered' /\ Reconnects'
    <2>1. \A q \in Sockets : sock[q] \notin {"new", "closed"} => sock'[q] \notin {"new", "closed"}
      BY <1>20, <1>0 DEF SockOpens
    <2>2. \A q \in Sockets : sock'[q] = "new" => sock[q] = "new"
      BY <1>20, <1>0 DEF SockOpens
    <2>3. UNCHANGED <<screen, access, memo, loading, flow, thens, cur, timer, closed>>
      BY <1>20 DEF SockOpens
    <2> QED
      BY <2>1, <2>2, <2>3, <1>0 DEF Reconnects, SocketLeft
  <1>21. ASSUME NEW s \in Sockets, SockCloses(s) PROVE Entered' /\ Reconnects'
    <2>1. UNCHANGED <<screen, access, memo, loading, closed>> /\ cur' = Nil
      BY <1>21 DEF SockCloses
    <2>2. CASE closed
      <3>1. UNCHANGED <<flow, thens>>
        BY <1>21, <2>2 DEF SockCloses
      <3> QED
        BY <2>1, <2>2, <3>1 DEF Reconnects
    <2>3. CASE ~closed /\ sock[s] = "stale"
      <3>1. thens' = thens + 1 /\ flow'["ws"].phase # "idle"
        BY <1>21, <2>3, <1>0, FlowFacts DEF SockCloses
      <3>2. thens' > 0
        BY <3>1, <1>0
      <3> QED
        BY <2>1, <3>1, <3>2 DEF Reconnects
    <2>4. CASE ~closed /\ sock[s] # "stale"
      <3>1. timer' = TRUE /\ UNCHANGED <<flow, thens>>
        BY <1>21, <2>4, <1>0 DEF SockCloses, Reschedules
      <3> QED
        BY <2>1, <3>1 DEF Reconnects
    <2> QED
      BY <2>2, <2>3, <2>4
  <1>22. CASE UNCHANGED vars
    BY <1>22 DEF vars, Reconnects, SocketLeft
  <1> QED
    BY <1>1, <1>2, <1>3, <1>4, <1>5, <1>6, <1>7, <1>8, <1>9, <1>10, <1>11, <1>12, <1>13, <1>14, <1>15, <1>16, <1>17, <1>18, <1>19, <1>20, <1>21, <1>22
       DEF ClientNext, Session, Server, Socket

-----------------------------------------------------------------------------
(* The client only asks the server for what the server does for anybody.   *)
LEMMA StepServer == ASSUME ClientTypeOK, [ClientNext]_vars PROVE [Next]_tokenVars
  <1> USE FlowFacts DEF Handle
  <1>0. stored \in Tokens \cup {Nil} /\ flow \in [Flows -> FlowStates]
    BY DEF ClientTypeOK, FlowStates
  <1>1. CASE SignIn
    BY <1>1 DEF SignIn, Next
  <1>2. CASE LogOut
    <2>1. ASSUME stored # Nil, Revoke(stored) PROVE Next
      BY <2>1, <1>0 DEF Next
    <2> QED
      BY <2>1, <1>2 DEF LogOut
  <1>3. ASSUME NEW n \in Tokens, SignedIn(n) PROVE Next
    BY <1>3 DEF SignedIn, Next
  <1>4. ASSUME NEW f \in Flows, RefreshReceived(f) PROVE Next
    <2>1. SwapLock(f, flow[f].tok) /\ flow[f].tok \in Tokens /\ f \in Requests
      BY <1>4, <1>0 DEF RefreshReceived, FlowStates
    <2> QED
      BY <2>1 DEF Next
  <1>5. ASSUME NEW f \in Flows, NEW n \in Tokens, RefreshServed(f, n) PROVE Next
    BY <1>5 DEF RefreshServed, Next
  <1>6. ASSUME NEW t \in Tokens, SessionEnds(t) PROVE Next
    BY <1>6 DEF SessionEnds, Next
  <1>7. CASE RestStarts \/ RestSucceeds \/ RestFails \/ Mount \/ HomeLoaded
    BY <1>7 DEF RestStarts, RestSucceeds, RestFails, Mount, HomeLoaded
  <1>8. ASSUME NEW f \in Flows, RefreshRefused(f) \/ RefreshLost(f) PROVE UNCHANGED tokenVars
    BY <1>8 DEF RefreshRefused, RefreshLost
  <1>9. CASE AccessExpires \/ TimerFires \/ SendNudge \/ WsStored \/ WsThen \/ WsCleared
    BY <1>9 DEF AccessExpires, TimerFires, SendNudge, WsStored, WsThen, WsCleared
  <1>10. ASSUME NEW s \in Sockets, SockOpens(s) \/ SockCloses(s) PROVE UNCHANGED tokenVars
    BY <1>10 DEF SockOpens, SockCloses
  <1>11. CASE UNCHANGED vars
    BY <1>11 DEF vars
  <1> QED
    BY <1>1, <1>2, <1>3, <1>4, <1>5, <1>6, <1>7, <1>8, <1>9, <1>10, <1>11
       DEF ClientNext, Session, Server, Socket

LEMMA StepClientTypes == ASSUME ClientTypeOK, TokensTypeOK', [ClientNext]_vars PROVE ClientTypeOK'
  <1> USE FlowFacts DEF ClientTypeOK, keyVars, wsVars, pastVars
  <1>1. CASE SignIn
    BY <1>1 DEF SignIn
  <1>2. CASE RestStarts
    BY <1>2 DEF RestStarts
  <1>3. CASE RestSucceeds
    BY <1>3 DEF RestSucceeds, NoFlow
  <1>4. CASE RestFails
    BY <1>4 DEF RestFails, NoFlow
  <1>5. CASE LogOut
    <2>1. gone' \in SUBSET Tokens
      BY <1>5 DEF LogOut
    <2>2. sock' \in [Sockets -> SockStates]
      BY <1>5 DEF LogOut, SockStates
    <2> QED
      BY <1>5, <2>1, <2>2 DEF LogOut
  <1>6. CASE Mount
    <2>1. cur' \in Sockets \cup {Nil} /\ sock' \in [Sockets -> SockStates]
      BY <1>6, OpenLeaves DEF Mount, ConnectCall
    <2>2. loading' \in BOOLEAN
      BY <1>6 DEF Mount
    <2> QED
      BY <1>6, <2>1, <2>2 DEF Mount, ConnectCall
  <1>7. CASE HomeLoaded
    BY <1>7 DEF HomeLoaded
  <1>8. ASSUME NEW n \in Tokens, SignedIn(n) PROVE ClientTypeOK'
    BY <1>8 DEF SignedIn, NoFlow
  <1>9. ASSUME NEW f \in Flows, RefreshReceived(f) PROVE ClientTypeOK'
    BY <1>9 DEF RefreshReceived
  <1>10. ASSUME NEW f \in Flows, NEW n \in Tokens, RefreshServed(f, n) PROVE ClientTypeOK'
    BY <1>10 DEF RefreshServed
  <1>11. ASSUME NEW f \in Flows, RefreshRefused(f) PROVE ClientTypeOK'
    BY <1>11 DEF RefreshRefused
  <1>12. ASSUME NEW f \in Flows, RefreshLost(f) PROVE ClientTypeOK'
    <2>1. lost' \in SUBSET Tokens
      BY <1>12 DEF RefreshLost
    <2> QED
      BY <1>12, <2>1 DEF RefreshLost
  <1>13. ASSUME NEW t \in Tokens, SessionEnds(t) PROVE ClientTypeOK'
    BY <1>13 DEF SessionEnds
  <1>14. CASE AccessExpires
    <2>1. sock' \in [Sockets -> SockStates]
      BY <1>14 DEF AccessExpires, SockStates
    <2>2. expiries' \in 0..MaxExpiries
      BY <1>14, ClientAssumption DEF AccessExpires
    <2> QED
      BY <1>14, <2>1, <2>2 DEF AccessExpires
  <1>15. CASE TimerFires
    <2>1. cur' \in Sockets \cup {Nil} /\ sock' \in [Sockets -> SockStates]
      BY <1>15, OpenLeaves DEF TimerFires
    <2> QED
      BY <1>15, <2>1 DEF TimerFires
  <1>16. CASE SendNudge
    BY <1>16 DEF SendNudge
  <1>17. CASE WsStored
    BY <1>17 DEF WsStored, WsStores
  <1>18. CASE WsThen
    <2>1. cur' \in Sockets \cup {Nil} /\ sock' \in [Sockets -> SockStates]
      BY <1>18, OpenLeaves DEF WsThen
    <2>2. thens' \in Nat
      <3>1. thens \in Nat /\ thens > 0 /\ thens' = thens - 1
        BY <1>18 DEF WsThen
      <3> QED
        BY ONLY <3>1
    <2>3. closed' = TRUE \/ closed' = closed
      BY <1>18 DEF WsThen
    <2>4. closed' \in BOOLEAN
      BY <2>3
    <2> QED
      BY <1>18, <2>1, <2>2, <2>4 DEF WsThen
  <1>19. CASE WsCleared
    BY <1>19 DEF WsCleared, NoFlow
  <1>20. ASSUME NEW s \in Sockets, SockOpens(s) PROVE ClientTypeOK'
    BY <1>20 DEF SockOpens, SockStates
  <1>21. ASSUME NEW s \in Sockets, SockCloses(s) PROVE ClientTypeOK'
    <2>1. sock' \in [Sockets -> SockStates]
      BY <1>21 DEF SockCloses, SockStates
    <2>2. /\ thens' \in Nat
          /\ flow' \in [Flows -> [phase : {"idle", "signin", "sent", "ok", "no"}, tok : Tokens \cup {Nil}]]
      BY <1>21 DEF SockCloses
    <2>3. timer' \in BOOLEAN
      BY <1>21 DEF SockCloses
    <2> QED
      BY <1>21, <2>1, <2>2, <2>3 DEF SockCloses
  <1>22. CASE UNCHANGED vars
    BY <1>22 DEF vars
  <1> QED
    BY <1>1, <1>2, <1>3, <1>4, <1>5, <1>6, <1>7, <1>8, <1>9, <1>10, <1>11, <1>12, <1>13, <1>14, <1>15, <1>16, <1>17, <1>18, <1>19, <1>20, <1>21, <1>22
       DEF ClientNext, Session, Server, Socket

-----------------------------------------------------------------------------
ClientInv == IInv /\ ClientTypeOK /\ KeysInv /\ Entered /\ Reconnects

LEMMA StartsAsServer == ClientInit => Init
  BY DEF ClientInit, Init

LEMMA InitClient == ClientInit => ClientInv
  <1> SUFFICES ASSUME ClientInit PROVE ClientInv
    OBVIOUS
  <1>1. IInv /\ TokensTypeOK
    BY StartsAsServer, InitInv DEF IInv, TypeOK
  <1>2. ClientTypeOK
    <2>1. flow \in [Flows -> [phase : {"idle", "signin", "sent", "ok", "no"}, tok : Tokens \cup {Nil}]]
      BY DEF ClientInit, NoFlow
    <2>2. expiries \in 0..MaxExpiries /\ sock \in [Sockets -> SockStates]
      BY ClientAssumption DEF ClientInit, SockStates
    <2>3. loading \in BOOLEAN /\ timer \in BOOLEAN /\ closed \in BOOLEAN
      BY Zenon DEF ClientInit
    <2> QED
      BY <1>1, <2>1, <2>2, <2>3 DEF ClientInit, ClientTypeOK
  <1>3. KeysInv
    <2>1. \A f \in Flows : flow[f] = NoFlow /\ req[f] = Idle
      BY FlowFacts DEF ClientInit, TokensInit
    <2> QED
      BY <2>1 DEF ClientInit, KeysInv, Served, InUse, Own, AnswersFine, StoredFine, Answered, NoFlow, Idle
  <1>4. Entered /\ Reconnects
    BY DEF ClientInit, Entered, Reconnects
  <1> QED
    BY <1>1, <1>2, <1>3, <1>4 DEF ClientInv

LEMMA ClientInductive == ClientSpec => []ClientInv
  <1>1. ASSUME ClientInv, [ClientNext]_vars PROVE ClientInv'
    <2>1. IInv' /\ TokensTypeOK'
      BY <1>1, StepServer, NextInv DEF ClientInv, IInv, TypeOK
    <2>2. KeyTypes
      BY <1>1 DEF ClientInv, ClientTypeOK, KeyTypes, FlowStates
    <2> QED
      BY <1>1, <2>1, <2>2, StepClientTypes, StepKeys, StepPages DEF ClientInv
  <1> QED
    BY InitClient, <1>1, PTL DEF ClientSpec

(* Types of the client's state, its server included.                       *)
THEOREM ClientTypes == ClientSpec => []ClientTypeOK
  BY ClientInductive, PTL DEF ClientInv

(* api/client.ts and ws/client.ts against refresh.go: what a client and    *)
(* the others do to the table of tokens is what any handlers do, so that   *)
(* all that holds of the table holds below this client.                    *)
THEOREM ClientUsesServer == ClientSpec => Spec
  <1>1. ClientInv /\ [ClientNext]_vars => [Next]_tokenVars
    BY StepServer DEF ClientInv
  <1> QED
    BY <1>1, StartsAsServer, ClientInductive, PTL DEF ClientSpec, Spec

(* api/client.ts and ws/client.ts: between refreshes the stored token is   *)
(* one the server accepts, in whatever order the two flows store, fail and *)
(* start, unless somebody ended the session or an answer was lost.         *)
THEOREM ClientHoldsLiveToken == ClientSpec => []HoldsLiveToken
  <1>1. ClientInv => HoldsLiveToken
    BY DEF ClientInv, KeysInv, StoredFine, Answered, Fine, Excused, HoldsLiveToken
  <1> QED
    BY <1>1, ClientInductive, PTL

(* ws/client.ts: a shown page that has not given up has a socket, a timer  *)
(* or a refresh that opens one, for any number of sockets.                 *)
THEOREM ClientNeverStranded == ClientSpec => []NotStranded
  <1>1. ClientInv => NotStranded
    BY DEF ClientInv, Reconnects, SocketLeft, NotStranded
  <1> QED
    BY <1>1, ClientInductive, PTL
=============================================================================
