----------------------------- MODULE RefreshTokens -----------------------------
(***************************************************************************)
(* The refresh tokens of one user: table refresh_tokens and the requests   *)
(* of server/internal/auth that change it, with the requests elsewhere     *)
(* that end sessions (admin: status, forced logout; user: deletion).       *)
(*                                                                         *)
(* Transactions run READ COMMITTED.  Swap holds the row lock of the token  *)
(* it rotates from its SELECT ... FOR UPDATE to its commit.  A statement   *)
(* over all tokens of the user (a sweep) works on the rows that existed    *)
(* when it began, waits for the locks on them, and then skips those that   *)
(* no longer satisfy its WHERE; rows inserted meanwhile it never sees.     *)
(*                                                                         *)
(* A token is never drawn twice.  A deleted row counts as revoked, and     *)
(* expiry is a revocation that may happen at any time.                     *)
(***************************************************************************)
EXTENDS Naturals, FiniteSets

CONSTANTS Tokens,      \* random 32-byte tokens
          Requests,    \* request handlers, each serving one request at a time
          MaxChanges,  \* bound: password resets, bans and deletions
          Blips,       \* whether requests and statements may fail
          Nil

ASSUME TokenAssumption == Nil \notin Tokens /\ MaxChanges \in Nat /\ Blips \in BOOLEAN

VARIABLES row,         \* refresh_tokens: "none", "live" or "revoked"
          session,     \* history: the first token of the login a token descends from
          proof,       \* history: the credential epoch that login was checked in
          epoch,       \* history: number of credential changes that committed
          account,     \* users.status and password: "active", "banned", "erased"
          req,         \* what each handler is doing
          spared       \* history: tokens a sweep could not reach

tokenVars == <<row, session, proof, epoch, account, req, spared>>

Steps == {"idle", "issue", "locked", "barred", "sweep"}
Kinds == {"reset", "bar", "revoke"}
Handler == [step : Steps, kind : Kinds, tok : Tokens \cup {Nil}, seen : SUBSET Tokens,
            proof : Nat, raced : BOOLEAN]
Idle == [step |-> "idle", kind |-> "revoke", tok |-> Nil, seen |-> {},
         proof |-> 0, raced |-> FALSE]

TokensTypeOK ==
    /\ row \in [Tokens -> {"none", "live", "revoked"}]
    /\ session \in [Tokens -> Tokens \cup {Nil}]
    /\ proof \in [Tokens -> Nat]
    /\ epoch \in Nat
    /\ account \in {"active", "banned", "erased"}
    /\ req \in [Requests -> Handler]
    /\ spared \in SUBSET Tokens
    /\ \A t \in Tokens : row[t] = "none" => session[t] = Nil    \* rows are kept

TokensInit ==
    /\ row = [t \in Tokens |-> "none"]
    /\ session = [t \in Tokens |-> Nil]
    /\ proof = [t \in Tokens |-> 0]
    /\ epoch = 0
    /\ account = "active"
    /\ req = [q \in Requests |-> Idle]
    /\ spared = {}

Live == {t \in Tokens : row[t] = "live"}
Holds(q, t) == req[q].step = "locked" /\ req[q].tok = t
Unlocked(t) == \A q \in Requests : ~Holds(q, t)
Sweeping == \E q \in Requests : req[q].step = "sweep"
Begin(q, r) == req[q] = Idle /\ req' = [req EXCEPT ![q] = r]
Finish(q) == req' = [req EXCEPT ![q] = Idle]

-----------------------------------------------------------------------------
\* Login: status and password are checked on one read of the user ...
LoginCheck(q) ==
    /\ account = "active"
    /\ Begin(q, [Idle EXCEPT !.step = "issue", !.proof = epoch, !.raced = Sweeping])
    /\ UNCHANGED <<row, session, proof, epoch, account, spared>>

\* ... and Issue inserts the token.
Issue(q, n) ==
    /\ req[q].step = "issue" /\ row[n] = "none"
    /\ row' = [row EXCEPT ![n] = "live"]
    /\ session' = [session EXCEPT ![n] = n]
    /\ proof' = [proof EXCEPT ![n] = req[q].proof]
    /\ spared' = IF req[q].raced THEN spared \cup {n} ELSE spared
    /\ Finish(q)
    /\ UNCHANGED <<epoch, account>>

\* Mutant: the row is read without FOR UPDATE.
SwapLock_Plain(q, t) ==
    /\ row[t] = "live"
    /\ Begin(q, [Idle EXCEPT !.step = "locked", !.tok = t, !.raced = Sweeping])
    /\ UNCHANGED <<row, session, proof, epoch, account, spared>>

\* Swap, up to the checks; the SELECT waits for another holder of the row.
SwapLock(q, t) ==
    /\ row[t] = "live" /\ Unlocked(t)
    /\ Begin(q, [Idle EXCEPT !.step = "locked", !.tok = t, !.raced = Sweeping])
    /\ UNCHANGED <<row, session, proof, epoch, account, spared>>

\* Swap answers ErrRefreshInvalid or ErrRefreshExpired.
Refused(t) == Unlocked(t) /\ row[t] # "live"

\* Swap: revoke the token, insert its successor, commit.
SwapCommit(q, n) ==
    LET t == req[q].tok
    IN  /\ req[q].step = "locked" /\ row[n] = "none"
        /\ row' = [row EXCEPT ![t] = "revoked", ![n] = "live"]
        /\ session' = [session EXCEPT ![n] = session[t]]
        /\ proof' = [proof EXCEPT ![n] = proof[t]]
        /\ spared' = IF req[q].raced \/ t \in spared THEN spared \cup {n} ELSE spared
        /\ Finish(q)
        /\ UNCHANGED <<epoch, account>>

\* An error after LoginCheck or SwapLock: nothing is committed.
Abandon(q) ==
    /\ Blips
    /\ req[q].step \in {"issue", "locked"}
    /\ Finish(q)
    /\ UNCHANGED <<row, session, proof, epoch, account, spared>>

\* Revoke (logout), or expires_at passes.
Revoke(t) ==
    /\ row[t] = "live" /\ Unlocked(t)
    /\ row' = [row EXCEPT ![t] = "revoked"]
    /\ UNCHANGED <<session, proof, epoch, account, req, spared>>

-----------------------------------------------------------------------------
\* Sweeps.

\* Handlers that are about to insert a token are too late for this one.
MarkRaced(except) ==
    [p \in Requests |-> IF p # except /\ req[p].step \in {"issue", "locked"}
                        THEN [req[p] EXCEPT !.raced = TRUE] ELSE req[p]]

Snapshot(q, kind, seen) ==
    req' = [MarkRaced(q) EXCEPT ![q] = [Idle EXCEPT !.step = "sweep", !.kind = kind,
                                                    !.seen = seen]]

\* patchUserStatus and deleteMe commit the new status first ...
Bar(q, status) ==
    /\ epoch < MaxChanges
    /\ Begin(q, [Idle EXCEPT !.step = "barred", !.kind = "bar"])
    /\ account' = IF account = "erased" THEN account ELSE status
    /\ epoch' = epoch + 1
    /\ UNCHANGED <<row, session, proof, spared>>

\* ... and revoke the sessions next.
BarSweep(q) ==
    /\ req[q].step = "barred"
    /\ Snapshot(q, "bar", Live)
    /\ UNCHANGED <<row, session, proof, epoch, account, spared>>

\* resetPassword's transaction up to its DELETE; forceLogoutUser; and
\* RevokeOthers and RevokeByPrefix, which keep one token or all but one.
StartSweep(q, kind, keep) ==
    /\ \/ kind = "reset" /\ keep = {} /\ epoch < MaxChanges
       \/ kind = "revoke"
    /\ req[q] = Idle
    /\ Snapshot(q, kind, Live \ keep)
    /\ UNCHANGED <<row, session, proof, epoch, account, spared>>

\* Mutant: the statement passes over rows that are locked.
EndSweep_SkipsLocked(q) ==
    /\ req[q].step = "sweep"
    /\ row' = [t \in Tokens |-> IF t \in req[q].seen /\ row[t] = "live" /\ Unlocked(t)
                               THEN "revoked" ELSE row[t]]
    /\ epoch' = IF req[q].kind = "reset" THEN epoch + 1 ELSE epoch
    /\ Finish(q)
    /\ UNCHANGED <<session, proof, account, spared>>

\* The statement has got past every lock and commits; with a reset the new
\* password commits too.
EndSweep(q) ==
    /\ req[q].step = "sweep"
    /\ \A t \in req[q].seen : Unlocked(t)
    /\ row' = [t \in Tokens |-> IF t \in req[q].seen /\ row[t] = "live"
                               THEN "revoked" ELSE row[t]]
    /\ epoch' = IF req[q].kind = "reset" THEN epoch + 1 ELSE epoch
    /\ Finish(q)
    /\ UNCHANGED <<session, proof, account, spared>>

\* The sweep fails.  A reset is rolled back as a whole; after a change of
\* status the error is ignored and the sessions stay.
SweepFails(q) ==
    /\ Blips
    /\ req[q].step \in {"barred", "sweep"}
    /\ LET left == req[q].kind = "bar"
       IN  /\ spared' = IF left THEN spared \cup Live ELSE spared
           /\ req' = [(IF left THEN MarkRaced(q) ELSE req) EXCEPT ![q] = Idle]
    /\ UNCHANGED <<row, session, proof, epoch, account>>

\* An administrator sets the status back to 0; an erased password stays so.
Unban ==
    /\ account = "banned"
    /\ account' = "active"
    /\ UNCHANGED <<row, session, proof, epoch, req, spared>>
=============================================================================
