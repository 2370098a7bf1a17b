------------------------------- MODULE SignIn -------------------------------
(* Logging in, and the ways to be logged out of everywhere: the login page *)
(* with its lock-out, the forgotten password, and the settings that change *)
(* the password, delete the account or end sessions.  The clients are      *)
(* windows of one user or of others who try his name; a client waits for   *)
(* the answer to its form.  A login is judged in three steps: is the name  *)
(* locked, is the password right, and the session is stored.  Access       *)
(* tokens, which outlive their session by minutes, are left out.           *)
EXTENDS Naturals, FiniteSets

CONSTANTS Clients, Passwords, Links,
          FailLimit,  \* loginFailLimit
          MaxEras,    \* bound: times that everybody is logged out
          None

ASSUME SignInAssumption ==
  /\ None \notin Passwords \union Links /\ FailLimit \in Nat \ {0} /\ MaxEras \in Nat
  /\ IsFiniteSet(Clients)

VARIABLES
  credentials,   \* password and status, and how often everybody was logged out
  fails,     \* the bucket of wrong passwords of the name, and its lock
  attempts,  \* the form that a client has sent, as far as the server is with it
  sessions,  \* refresh_tokens
  reset,     \* password_reset_tokens
  pages      \* what each client shows

signInVars == <<credentials, fails, attempts, sessions, reset, pages>>

Accounts == [password : Passwords \union {None}, deleted : BOOLEAN, era : 0..MaxEras]
\* A session, or a login with the right password; crossed: everybody was
\* logged out between the check and the session.
SignedIn == [who : Clients, era : 0..MaxEras, crossed : BOOLEAN]
Forms ==
  [op : {"login"}, password : Passwords]
    \union [op : {"right"}, era : 0..MaxEras, crossed : BOOLEAN]
    \union [op : {"reset"}, password : Passwords, link : Links]
    \union [op : {"revoke"}]
\* list: the devices that are shown.
Pages == [at : {"login", "forgot", "reset", "home"}, link : Links \union {None}, list : SUBSET Clients]

At(p) == [at |-> p, link |-> None, list |-> {}]

SignInInit ==
  \E p \in Passwords :
    /\ credentials = [password |-> p, deleted |-> FALSE, era |-> 0]
    /\ fails = [count |-> 0, locked |-> FALSE]
    /\ attempts = [c \in Clients |-> None] /\ sessions = {}
    /\ reset = [l \in Links |-> "none"] /\ pages = [c \in Clients |-> At("login")]

Submit(c, f) == attempts' = [attempts EXCEPT ![c] = f]
Goes(c, p) == pages' = [pages EXCEPT ![c] = p]

\* Everybody is logged out; a login that has been checked is not.
LogOutAll ==
  /\ credentials.era < MaxEras
  /\ sessions' = {}

Crossing(as) ==
  [c \in Clients |-> IF as[c] # None /\ as[c].op = "right" THEN [as[c] EXCEPT !.crossed = TRUE] ELSE as[c]]

-----------------------------------------------------------------------------
(* The login page *)

\* The form is sent and the name is not locked: isLoginLocked.
Login(c, p) ==
  /\ pages[c].at = "login" /\ attempts[c] = None /\ ~fails.locked
  /\ Submit(c, [op |-> "login", password |-> p])
  /\ UNCHANGED <<credentials, fails, sessions, reset, pages>>

\* Mutant: the lock comes one mistake later.
Failed_Late == [count |-> fails.count + 1, locked |-> fails.count + 1 > FailLimit]

\* recordLoginFailure
Failed == [count |-> fails.count + 1, locked |-> fails.count + 1 >= FailLimit]

Check(c) ==
  LET a == attempts[c]
  IN /\ a # None /\ a.op = "login"
     /\ IF credentials.deleted THEN Submit(c, None) /\ UNCHANGED fails
        ELSE IF a.password # credentials.password THEN Submit(c, None) /\ fails' = Failed
        ELSE Submit(c, [op |-> "right", era |-> credentials.era, crossed |-> FALSE]) /\ UNCHANGED fails
     /\ UNCHANGED <<credentials, sessions, reset, pages>>

\* The session is stored; recordLoginSuccess forgets the mistakes.
Issue(c) ==
  LET a == attempts[c]
  IN /\ a # None /\ a.op = "right"
     /\ sessions' = sessions \union {[who |-> c, era |-> a.era, crossed |-> a.crossed]}
     /\ fails' = [count |-> 0, locked |-> FALSE]
     /\ Submit(c, None) /\ Goes(c, At("home"))
     /\ UNCHANGED <<credentials, reset>>

\* The window of the mistakes, or the lock, runs out.
Forget ==
  /\ fails.count > 0
  /\ fails' = [count |-> 0, locked |-> FALSE]
  /\ UNCHANGED <<credentials, attempts, sessions, reset, pages>>

Navigate(c, from, to) ==
  /\ pages[c].at = from /\ attempts[c] = None /\ Goes(c, At(to))
  /\ UNCHANGED <<credentials, fails, attempts, sessions, reset>>

-----------------------------------------------------------------------------
(* The forgotten password *)

\* The answer is the same whether the account exists or not.
Forgot(c, l) ==
  /\ pages[c].at = "forgot" /\ attempts[c] = None /\ reset[l] = "none"
  /\ reset' = IF credentials.deleted THEN reset ELSE [reset EXCEPT ![l] = "sent"]
  /\ UNCHANGED <<credentials, fails, attempts, sessions, pages>>

OpenLink(c, l) ==
  /\ reset[l] # "none" /\ attempts[c] = None
  /\ Goes(c, [At("reset") EXCEPT !.link = l])
  /\ UNCHANGED <<credentials, fails, attempts, sessions, reset>>

\* resetPassword reads the link outside the transaction.
ResetChecked(c, p) ==
  /\ pages[c].at = "reset" /\ attempts[c] = None /\ reset[pages[c].link] = "sent"
  /\ Submit(c, [op |-> "reset", password |-> p, link |-> pages[c].link])
  /\ UNCHANGED <<credentials, fails, sessions, reset, pages>>

\* Mutant: the sessions are kept.
ResetDone_KeepsSessions(c) ==
  LET a == attempts[c]
  IN /\ a # None /\ a.op = "reset" /\ credentials.era < MaxEras
     /\ credentials' = [credentials EXCEPT !.password = a.password, !.era = @ + 1]
     /\ attempts' = Crossing([attempts EXCEPT ![c] = None]) /\ Goes(c, At("login"))
     /\ reset' = [reset EXCEPT ![a.link] = "used"]
     /\ UNCHANGED <<fails, sessions>>

\* The transaction: password, link, sessions; the page goes to the login.
ResetDone(c) ==
  LET a == attempts[c]
  IN /\ a # None /\ a.op = "reset" /\ LogOutAll
     /\ credentials' = [credentials EXCEPT !.password = a.password, !.era = @ + 1]
     /\ attempts' = Crossing([attempts EXCEPT ![c] = None]) /\ Goes(c, At("login"))
     /\ reset' = [reset EXCEPT ![a.link] = "used"]
     /\ UNCHANGED fails

\* The link is an hour old.
Lapses(l) ==
  /\ reset[l] = "sent" /\ reset' = [reset EXCEPT ![l] = "used"]
  /\ UNCHANGED <<credentials, fails, attempts, sessions, pages>>

-----------------------------------------------------------------------------
(* The settings *)

AtHome(c) == pages[c].at = "home" /\ attempts[c] = None

\* With the right password; no session is touched.
ChangePassword(c, p) ==
  /\ AtHome(c) /\ ~credentials.deleted
  /\ credentials' = [credentials EXCEPT !.password = p]
  /\ UNCHANGED <<fails, attempts, sessions, reset, pages>>

\* deleteMe, with the right password: the row, ...
DeleteRow(c) ==
  /\ AtHome(c) /\ ~credentials.deleted
  /\ credentials' = [credentials EXCEPT !.password = None, !.deleted = TRUE]
  /\ Submit(c, [op |-> "revoke"])
  /\ UNCHANGED <<fails, sessions, reset, pages>>

\* ... then the sessions, whose failure is not looked at.
DeleteSessions(c) ==
  /\ attempts[c] # None /\ attempts[c].op = "revoke"
  /\ \/ LogOutAll /\ credentials' = [credentials EXCEPT !.era = @ + 1]
        /\ attempts' = Crossing([attempts EXCEPT ![c] = None])
     \/ Submit(c, None) /\ UNCHANGED <<credentials, sessions>>
  /\ Goes(c, At("login"))
  /\ UNCHANGED <<fails, reset>>

ListDevices(c) ==
  /\ AtHome(c)
  /\ Goes(c, [pages[c] EXCEPT !.list = {s.who : s \in sessions}])
  /\ UNCHANGED <<credentials, fails, attempts, sessions, reset>>

\* From the list, one session or all but the own; the list is read again.
EndSessions(c, ended) ==
  /\ AtHome(c) /\ ended # {}
  /\ sessions' = {s \in sessions : s.who \notin ended}
  /\ Goes(c, [pages[c] EXCEPT !.list = {s.who : s \in sessions'}])
  /\ UNCHANGED <<credentials, fails, attempts, reset>>

Revoke(c, w) == w \in pages[c].list /\ EndSessions(c, {w})
RevokeOthers(c) == EndSessions(c, IF pages[c].list \subseteq {c} THEN {} ELSE Clients \ {c})

\* A client logs out, or learns that its session is gone.
SignOut(c) ==
  /\ AtHome(c) /\ Goes(c, At("login"))
  /\ sessions' = {s \in sessions : s.who # c}
  /\ UNCHANGED <<credentials, fails, attempts, reset>>

-----------------------------------------------------------------------------
SignInNext ==
  \/ Forget
  \/ \E c \in Clients :
       \/ \E p \in Passwords : Login(c, p) \/ ResetChecked(c, p) \/ ChangePassword(c, p)
       \/ Check(c) \/ Issue(c) \/ ResetDone(c)
       \/ Navigate(c, "login", "forgot") \/ Navigate(c, "forgot", "login") \/ Navigate(c, "reset", "login")
       \/ \E l \in Links : Forgot(c, l) \/ OpenLink(c, l)
       \/ DeleteRow(c) \/ DeleteSessions(c)
       \/ ListDevices(c) \/ RevokeOthers(c) \/ SignOut(c) \/ \E w \in Clients : Revoke(c, w)
  \/ \E l \in Links : Lapses(l)

-----------------------------------------------------------------------------
(* Properties *)

SignInTypeOK ==
  /\ credentials \in Accounts /\ fails \in [count : Nat, locked : BOOLEAN]
  /\ attempts \in [Clients -> Forms \union {None}] /\ sessions \subseteq SignedIn
  /\ reset \in [Links -> {"none", "sent", "used"}] /\ pages \in [Clients -> Pages]

\* Whoever was logged out by a reset or a deletion stays out, unless his login
\* had been checked and was not stored yet (server/internal/auth/handler.go:470).
LoggedOutStaysOut == \A s \in sessions : s.era # credentials.era => s.crossed

\* Between two pauses of the lock no more wrong passwords are judged than the
\* limit and one for each other login that was under way
\* (server/internal/auth/throttle.go:119-121).
GuessesBounded ==
  fails.count + Cardinality({c \in Clients : attempts[c] # None /\ attempts[c].op = "login"})
    <= FailLimit - 1 + Cardinality(Clients)
=============================================================================
