----------------------------- MODULE ClientSession -----------------------------
(***************************************************************************)
(* One client's session and its WebSocket: client/src/api/client.ts (REST  *)
(* interceptor), client/src/ws/client.ts (WSClient), userStore.ts and the  *)
(* places that log in, out and mount Home, on top of the server's refresh  *)
(* tokens.                                                                 *)
(*                                                                         *)
(* The client refreshes in two flows, "rest" after a 401 and "ws" after a  *)
(* close with code 4401; each is single-flight, and both read and write    *)
(* the tokens in localStorage.  JavaScript callbacks are atomic.  Access   *)
(* tokens are reduced to whether the server still accepts them.            *)
(***************************************************************************)
EXTENDS RefreshTokens

CONSTANTS Sockets,      \* WebSocket objects the client may create
          MaxExpiries   \* bound: how often the access tokens expire

Flows == {"rest", "ws"}

ASSUME ClientAssumption == Flows \subseteq Requests /\ Nil \notin Sockets /\ MaxExpiries \in Nat

VARIABLES screen,    \* "login", "entering" (signed in, no page mounted yet) or "app"
          stored,    \* localStorage.refreshToken, or Nil
          access,    \* localStorage.accessToken: "none", "fresh", "stale"
          memo,      \* userStore.accessToken, which no refresh updates
          loading,   \* Home's first requests are in flight
          flow,      \* the refresh flows
          thens,     \* callbacks handleTokenExpired has attached to its flow
          cur,       \* WSClient.ws, or Nil
          sock,      \* state of each socket
          timer,     \* WSClient.reconnectTimer is set
          closed,    \* WSClient.manuallyClosed
          expiries,  \* how often the access tokens have expired
          gone,      \* history: tokens ended by logout, another device or expiry
          lost       \* history: tokens whose answer did not reach the client

keyVars == <<stored, access, memo>>
wsVars == <<cur, sock, timer, closed>>
pastVars == <<expiries, gone, lost>>
vars == <<tokenVars, screen, keyVars, loading, flow, thens, wsVars, pastVars>>

SockStates == {"new", "connecting", "doomed", "open", "stale", "closed"}
NoFlow == [phase |-> "idle", tok |-> Nil]

ClientTypeOK ==
    /\ TokensTypeOK
    /\ screen \in {"login", "entering", "app"}
    /\ stored \in Tokens \cup {Nil}
    /\ access \in {"none", "fresh", "stale"} /\ memo \in {"none", "fresh", "stale"}
    /\ loading \in BOOLEAN
    /\ flow \in [Flows -> [phase : {"idle", "signin", "sent", "ok", "no"},
                           tok : Tokens \cup {Nil}]]
    /\ thens \in Nat
    /\ cur \in Sockets \cup {Nil}
    /\ sock \in [Sockets -> SockStates]
    /\ timer \in BOOLEAN /\ closed \in BOOLEAN
    /\ expiries \in 0..MaxExpiries
    /\ gone \in SUBSET Tokens /\ lost \in SUBSET Tokens

ClientInit ==
    /\ TokensInit
    /\ screen = "login"
    /\ stored = Nil /\ access = "none" /\ memo = "none"
    /\ loading = FALSE
    /\ flow = [f \in Flows |-> NoFlow] /\ thens = 0
    /\ cur = Nil /\ sock = [s \in Sockets |-> "new"]
    /\ timer = FALSE /\ closed = FALSE
    /\ expiries = 0 /\ gone = {} /\ lost = {}

-----------------------------------------------------------------------------
\* The server's side of a flow.

\* POST /auth/login is answered (Login.tsx): setSession.
SignIn ==
    /\ screen = "login" /\ flow["rest"].phase = "idle"
    /\ LoginCheck("rest")
    /\ flow' = [flow EXCEPT !["rest"].phase = "signin"]
    /\ UNCHANGED <<screen, keyVars, loading, thens, wsVars, pastVars>>

SignedIn(n) ==
    /\ flow["rest"].phase = "signin"
    /\ Issue("rest", n)
    /\ flow' = [flow EXCEPT !["rest"] = NoFlow]
    /\ screen' = "entering"
    /\ stored' = n /\ access' = "fresh" /\ memo' = "fresh"
    /\ UNCHANGED <<loading, thens, wsVars, pastVars>>

RefreshReceived(f) ==
    /\ flow[f].phase = "sent" /\ flow[f].tok # Nil
    /\ SwapLock(f, flow[f].tok)
    /\ UNCHANGED <<screen, keyVars, loading, flow, thens, wsVars, pastVars>>

RefreshServed(f, n) ==
    /\ SwapCommit(f, n)
    /\ flow' = [flow EXCEPT ![f] = [phase |-> "ok", tok |-> n]]
    /\ UNCHANGED <<screen, keyVars, loading, thens, wsVars, pastVars>>

RefreshRefused(f) ==
    /\ flow[f].phase = "sent" /\ req[f] = Idle
    /\ Refused(flow[f].tok)
    /\ flow' = [flow EXCEPT ![f].phase = "no"]
    /\ UNCHANGED <<tokenVars, screen, keyVars, loading, thens, wsVars, pastVars>>

\* The request or its answer is lost, or times out.
RefreshLost(f) ==
    /\ Blips
    /\ flow[f].phase \in {"sent", "ok"} /\ flow[f].tok # Nil /\ req[f] = Idle
    /\ lost' = IF flow[f].phase = "ok" THEN lost \cup {flow[f].tok} ELSE lost
    /\ flow' = [flow EXCEPT ![f] = [phase |-> "no", tok |-> Nil]]
    /\ UNCHANGED <<tokenVars, screen, keyVars, loading, thens, wsVars, expiries, gone>>

\* Another device ends this session, or the refresh token expires.
SessionEnds(t) ==
    /\ Revoke(t)
    /\ gone' = gone \cup {t}
    /\ UNCHANGED <<screen, keyVars, loading, flow, thens, wsVars, expiries, lost>>

\* Every access token handed out so far expires, with the sockets using one.
AccessExpires ==
    /\ expiries < MaxExpiries
    /\ access = "fresh"
    /\ expiries' = expiries + 1
    /\ access' = "stale"
    /\ memo' = IF memo = "fresh" THEN "stale" ELSE memo
    /\ sock' = [s \in Sockets |-> IF sock[s] = "connecting" THEN "doomed"
                                 ELSE IF sock[s] = "open" THEN "stale" ELSE sock[s]]
    /\ UNCHANGED <<tokenVars, screen, stored, loading, flow, thens, cur, timer, closed,
                   gone, lost>>

-----------------------------------------------------------------------------
\* The REST interceptor.

\* tryRefresh, for a request answered 401.  Without a refresh token it is
\* null at once.
RestStarts ==
    /\ screen = "app" /\ access # "fresh"
    /\ flow["rest"].phase = "idle"
    /\ flow' = [flow EXCEPT !["rest"] = [phase |-> IF stored = Nil THEN "no" ELSE "sent",
                                         tok |-> stored]]
    /\ UNCHANGED <<tokenVars, screen, keyVars, loading, thens, wsVars, pastVars>>

RestSucceeds ==
    /\ flow["rest"].phase = "ok"
    /\ stored' = flow["rest"].tok /\ access' = "fresh"
    /\ flow' = [flow EXCEPT !["rest"] = NoFlow]
    /\ UNCHANGED <<tokenVars, screen, memo, loading, thens, wsVars, pastVars>>

\* bounceToLogin; the socket is left alone.
RestFails ==
    /\ flow["rest"].phase = "no"
    /\ screen' = "login"
    /\ stored' = Nil /\ access' = "none"
    /\ loading' = FALSE
    /\ flow' = [flow EXCEPT !["rest"] = NoFlow]
    /\ UNCHANGED <<tokenVars, memo, thens, wsVars, pastVars>>

-----------------------------------------------------------------------------
\* WSClient.

\* open(): a socket with the access token of localStorage.  It replaces the
\* one in cur, which is not closed.
Open ==
    IF access = "none" THEN UNCHANGED <<cur, sock>>
    ELSE \E s \in Sockets :
            /\ sock[s] = "new"
            /\ sock' = [sock EXCEPT ![s] = IF access = "fresh" THEN "connecting" ELSE "doomed"]
            /\ cur' = s

\* connect()
ConnectCall ==
    /\ closed' = FALSE
    /\ IF (cur # Nil /\ sock[cur] # "closed") \/ timer THEN UNCHANGED <<cur, sock>>
       ELSE Open
    /\ UNCHANGED timer

\* Home or Live mounts; Home also starts its first requests.
Mount ==
    /\ screen # "login"
    /\ screen' = "app"
    /\ ConnectCall
    /\ loading' \in {loading, memo # "none"}
    /\ UNCHANGED <<tokenVars, keyVars, flow, thens, pastVars>>

\* Home's requests have been answered: setSession(me, accessToken), with the
\* access token of the store.
HomeLoaded ==
    /\ loading /\ access = "fresh"
    /\ loading' = FALSE
    /\ access' = memo
    /\ UNCHANGED <<tokenVars, screen, stored, memo, flow, thens, wsVars, pastVars>>

TimerFires ==
    /\ timer
    /\ timer' = FALSE
    /\ Open
    /\ UNCHANGED <<tokenVars, screen, keyVars, loading, flow, thens, closed, pastVars>>

Connected == IF cur = Nil THEN FALSE ELSE sock[cur] = "open"

\* send() while the socket is not open: it nudges the reconnect loop.
SendNudge ==
    /\ ~Connected
    /\ ~closed /\ access # "none" /\ ~timer
    /\ timer' = TRUE
    /\ UNCHANGED <<tokenVars, screen, keyVars, loading, flow, thens, cur, sock, closed,
                   pastVars>>

SockOpens(s) ==
    /\ sock[s] = "connecting"
    /\ sock' = [sock EXCEPT ![s] = "open"]
    /\ UNCHANGED <<tokenVars, screen, keyVars, loading, flow, thens, cur, timer, closed,
                   pastVars>>

\* Mutant: a reconnect is only scheduled for a socket that had opened.
Reschedules_Opened(s) == ~closed /\ sock[s] = "open"

\* A close with another code than 4401 leads to scheduleReconnect.
Reschedules(s) == ~closed /\ sock[s] # "stale"

\* onclose of any socket clears this.ws.  After 4401 handleTokenExpired joins
\* or starts the flow, otherwise a reconnect is scheduled.
SockCloses(s) ==
    LET expires == ~closed /\ sock[s] = "stale"
    IN  /\ sock[s] \notin {"new", "closed"}
        /\ sock[s] \in {"open", "connecting"} => Blips
        /\ sock' = [sock EXCEPT ![s] = "closed"]
        /\ cur' = Nil
        /\ timer' = (timer \/ Reschedules(s))
        /\ IF expires
           THEN /\ thens' = thens + 1
                /\ flow' = IF flow["ws"].phase # "idle" THEN flow
                           ELSE [flow EXCEPT !["ws"] =
                                   [phase |-> IF stored = Nil THEN "no" ELSE "sent",
                                    tok |-> stored]]
           ELSE UNCHANGED <<thens, flow>>
        /\ UNCHANGED <<tokenVars, screen, keyVars, loading, closed, pastVars>>

\* Mutant: the refresh token of the answer is not stored.
WsStores_AccessOnly == access' = "fresh" /\ UNCHANGED <<stored, memo>>

WsStores == stored' = flow["ws"].tok /\ access' = "fresh" /\ UNCHANGED memo

\* The flow has its answer; a success is stored before any callback runs.
WsStored ==
    /\ flow["ws"].phase = "ok" /\ flow["ws"].tok # Nil
    /\ WsStores
    /\ flow' = [flow EXCEPT !["ws"].tok = Nil]
    /\ UNCHANGED <<tokenVars, screen, loading, thens, wsVars, pastVars>>

WsSettled == flow["ws"].phase = "no" \/ (flow["ws"].phase = "ok" /\ flow["ws"].tok = Nil)

\* A callback of handleTokenExpired: reopen, or give up for good.
WsThen ==
    /\ WsSettled = TRUE /\ thens > 0
    /\ thens' = thens - 1
    /\ IF closed THEN UNCHANGED <<cur, sock, closed>>
       ELSE IF flow["ws"].phase = "ok" THEN Open /\ UNCHANGED closed
       ELSE closed' = TRUE /\ UNCHANGED <<cur, sock>>
    /\ UNCHANGED <<tokenVars, screen, keyVars, loading, flow, timer, pastVars>>

\* The timeout that clears refreshInFlight, after the callbacks.
WsCleared ==
    /\ WsSettled = TRUE /\ thens = 0
    /\ flow' = [flow EXCEPT !["ws"] = NoFlow]
    /\ UNCHANGED <<tokenVars, screen, keyVars, loading, thens, wsVars, pastVars>>

-----------------------------------------------------------------------------
\* handleLogout: revoke if the server can be reached, close(), clear().  The
\* onclose of the socket comes later.
LogOut ==
    /\ screen = "app" /\ flow["rest"].phase = "idle"
    /\ \/ /\ stored # Nil /\ access = "fresh"
          /\ Revoke(stored)
          /\ gone' = gone \cup {stored}
       \/ UNCHANGED <<tokenVars, gone>>
    /\ screen' = "login"
    /\ stored' = Nil /\ access' = "none" /\ memo' = "none"
    /\ loading' = FALSE
    /\ closed' = TRUE /\ timer' = FALSE
    /\ sock' = IF cur = Nil THEN sock ELSE [sock EXCEPT ![cur] = IF @ = "closed" THEN @ ELSE "doomed"]
    /\ cur' = Nil
    /\ UNCHANGED <<flow, thens, expiries, lost>>

-----------------------------------------------------------------------------
Session ==
    \/ SignIn \/ RestStarts \/ RestSucceeds \/ RestFails \/ LogOut
    \/ Mount \/ HomeLoaded
    \/ \E n \in Tokens : SignedIn(n)

Server ==
    \/ \E f \in Flows : \/ RefreshReceived(f) \/ RefreshRefused(f) \/ RefreshLost(f)
                        \/ \E n \in Tokens : RefreshServed(f, n)
    \/ \E t \in Tokens : SessionEnds(t)
    \/ AccessExpires

Socket ==
    \/ TimerFires \/ SendNudge \/ WsStored \/ WsThen \/ WsCleared
    \/ \E s \in Sockets : SockOpens(s) \/ SockCloses(s)

ClientNext == Session \/ Server \/ Socket

ClientSpec == ClientInit /\ [][ClientNext]_vars

-----------------------------------------------------------------------------
(* Between refreshes the client holds a token the server accepts, whatever *)
(* order the two flows, logouts and remounts come in, unless somebody else *)
(* ended the session or an answer of the server was lost on the way.       *)
HoldsLiveToken ==
    (stored # Nil /\ \A f \in Flows : flow[f].phase \in {"idle", "signin"})
        => \/ row[stored] = "live" \/ stored \in gone
           \/ \E t \in lost : session[t] = session[stored]

\* Sockets the user has, or will have as soon as the handshake ends.
Alive == {s \in Sockets : sock[s] \in {"connecting", "open"}}

(* What ws/client.ts says: calling connect() from several pages must not   *)
(* create parallel sockets.                                                *)
OneSocket == Cardinality(Alive) <= 1

(* A page that is shown never sits without a socket, a reconnect timer or  *)
(* a refresh that will reopen one: the client stops reconnecting only by   *)
(* deciding to (manuallyClosed), however closes, refreshes, logouts and    *)
(* remounts interleave.                                                    *)
NotStranded ==
    screen = "app" /\ ~closed
        => \/ timer \/ flow["ws"].phase # "idle"
           \/ \E s \in Sockets : sock[s] \notin {"new", "closed"}

(* What api/client.ts says: concurrent 401s share one swap, so that the    *)
(* interceptor bounces the user to the login page only when somebody ended *)
(* the session.                                                            *)
NoSelfLogout ==
    [][flow["rest"].phase = "no" /\ screen' # screen => gone # {}]_vars

\* Whether the REST interceptor would refresh successfully.
CanRefresh == IF stored = Nil THEN FALSE ELSE row[stored] = "live"

(* What ws/client.ts says: it stops reconnecting because the REST          *)
(* interceptor will bounce the user on its next 401; hence not in a        *)
(* session that the interceptor can refresh.                               *)
GivesUpOnlySignedOut == [][~closed /\ closed' /\ screen' # "login" => ~CanRefresh]_vars

(* What ws/client.ts says: connect reads the latest access token, so that  *)
(* a refresh that landed in between is picked up; hence a token that was   *)
(* refreshed is not replaced by an expired one.                            *)
RefreshKept ==
    [][access = "fresh" /\ access' = "stale" => expiries' # expiries]_vars
=============================================================================
