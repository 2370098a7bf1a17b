----------------------------- MODULE TokenRotation -----------------------------
(***************************************************************************)
(* The server's side of sessions on its own: any number of logins,         *)
(* rotations, revocations and sweeps of one user interleave.               *)
(***************************************************************************)
EXTENDS RefreshTokens

TypeOK == TokensTypeOK

Init == TokensInit

Handle(q) ==
    \/ LoginCheck(q) \/ Abandon(q)
    \/ \E t \in Tokens : Issue(q, t) \/ SwapLock(q, t) \/ SwapCommit(q, t)

Sweep(q) ==
    \/ \E status \in {"banned", "erased"} : Bar(q, status)
    \/ BarSweep(q) \/ EndSweep(q) \/ SweepFails(q)
    \/ \E kind \in Kinds : StartSweep(q, kind, {})
    \/ \E t \in Live : StartSweep(q, "revoke", {t}) \/ StartSweep(q, "revoke", Live \ {t})

Next ==
    \/ \E q \in Requests : Handle(q) \/ Sweep(q)
    \/ \E t \in Tokens : Revoke(t)
    \/ Unban

Spec == Init /\ [][Next]_tokenVars

-----------------------------------------------------------------------------
(* Refresh tokens are single-use: however many requests present the same   *)
(* token at once, only one gets a successor, so a login never has two live *)
(* tokens.                                                                 *)
OneTokenPerLogin ==
    \A t, u \in Live : session[t] = session[u] => t = u

\* A request that changed the status is still on its way to t.
BarPending(t) ==
    \E q \in Requests : /\ req[q].kind = "bar"
                        /\ \/ req[q].step = "barred"
                           \/ req[q].step = "sweep" /\ t \in req[q].seen

(* A session from before a reset, a ban or a deletion only lives on if a   *)
(* login or a rotation overlapped the sweep, or the sweep failed.          *)
SurvivorsOverlapped ==
    \A t \in Live : proof[t] < epoch => t \in spared \/ BarPending(t)

Held == {<<session[t], t>> : t \in Live}
Used == {t \in Tokens : row[t] # "none"}

Sessions == INSTANCE SingleSession WITH held <- Held, used <- Used

(* Row locks, overlapping sweeps and failures included, the table behaves  *)
(* as a set of sessions with one token each: a rotation replaces the token *)
(* of the session it was presented for and nothing revives an ended one.   *)
OneHolder == Sessions!SingleSpec

(* What the comments of resetPassword and patchUserStatus say: afterwards  *)
(* every earlier session is dead.                                          *)
EarlierSessionsDie ==
    (\A q \in Requests : req[q].step \notin {"barred", "sweep"})
        => \A t \in Live : proof[t] = epoch
=============================================================================
