----------------------------- MODULE SingleSession -----------------------------
(***************************************************************************)
(* What refresh tokens promise, without tables, locks and sweeps: a login  *)
(* opens a session, one token continues it at any time, every token is     *)
(* handed out once, and a session that has ended stays ended.              *)
(***************************************************************************)
CONSTANT Tokens

VARIABLES held,   \* <<session, token>>: the token that continues a session,
                  \* which is named by its first token
          used    \* the tokens handed out so far

SingleInit == held = {} /\ used = {}

LogIn(n) ==
    /\ n \notin used
    /\ held' = held \cup {<<n, n>>}
    /\ used' = used \cup {n}

Rotate(s, t, n) ==
    /\ <<s, t>> \in held /\ n \notin used
    /\ held' = (held \ {<<s, t>>}) \cup {<<s, n>>}
    /\ used' = used \cup {n}

\* Logout, expiry, or a sweep over several sessions.
End == held' \subseteq held /\ used' = used

SingleNext ==
    \/ End
    \/ \E n \in Tokens : LogIn(n) \/ \E s, t \in Tokens : Rotate(s, t, n)

SingleSpec == SingleInit /\ [][SingleNext]_<<held, used>>
=============================================================================
