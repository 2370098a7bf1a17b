----------------------------- MODULE LivePlayer -----------------------------
(* The player of a room that is watched and its playback address.  It is   *)
(* hls.js: it loads the playlist, plays, and tells of fatal errors, after  *)
(* which it does nothing until it is told to (external).  All of it goes   *)
(* with the page.                                                          *)
EXTENDS Naturals

CONSTANT MaxRetries  \* network errors of one player before it gives up

ASSUME PlayerAssumption == MaxRetries \in Nat

VARIABLES
  watched,  \* a room is watched
  player,   \* its player: address, engine, error, requests
  stream    \* the room's stream can be loaded

playerVars == <<watched, player, stream>>

\* refreshes: requests for a new address; blank: the address never came.
Players == [url : {"none", "fresh", "stale"}, engine : {"none", "loading", "playing", "waiting", "dead"},
            loaded : BOOLEAN, tries : 0..MaxRetries,
            error : {"none", "expired", "offline", "gone", "broken"},
            first : BOOLEAN, refreshes : 0..2, blank : BOOLEAN]
NoPlayer == [url |-> "none", engine |-> "none", loaded |-> FALSE, tries |-> 0, error |-> "none",
             first |-> FALSE, refreshes |-> 0, blank |-> FALSE]

PlayerInit == watched = FALSE /\ player = NoPlayer /\ stream \in BOOLEAN

\* Watch mounts and asks for the detail of its room; Watch goes.
Watch == ~watched /\ watched' = TRUE /\ player' = [NoPlayer EXCEPT !.first = TRUE] /\ UNCHANGED stream
Unwatch == watched /\ watched' = FALSE /\ player' = NoPlayer /\ UNCHANGED stream

-----------------------------------------------------------------------------
Plays(p) == watched /\ player' = p /\ UNCHANGED <<watched, stream>>

\* A new address builds a new player.
Built(p) == [p EXCEPT !.url = "fresh", !.engine = "loading", !.loaded = FALSE, !.tries = 0]
Refreshing(p) ==
  [p EXCEPT !.refreshes = IF @ = 2 THEN 2 ELSE @ + 1]

\* The first request for the detail; its failure is swallowed.
DetailCame ==
  /\ player.first
  /\ \/ Plays(Built([player EXCEPT !.first = FALSE]))
     \/ Plays([player EXCEPT !.first = FALSE, !.blank = TRUE])

\* MANIFEST_LOADED: once for each player.
Loaded ==
  /\ player.engine = "loading" /\ ~player.loaded /\ stream /\ player.url = "fresh"
  /\ Plays([player EXCEPT !.engine = "playing", !.loaded = TRUE, !.tries = 0, !.error = "none"])

\* Loading goes on after a mistake; the count of the mistakes stays.
Resumed ==
  /\ player.engine = "loading" /\ player.loaded /\ stream /\ player.url = "fresh"
  /\ Plays([player EXCEPT !.engine = "playing"])

\* A fatal network error with 401 or 403: the address is not good any more.
Refused ==
  /\ player.engine \in {"loading", "playing"} /\ player.url = "stale"
  /\ Plays(Refreshing([player EXCEPT !.engine = "dead", !.error = "expired"]))

\* Mutant: the player gives up without a word.
NetworkError_Silent ==
  /\ player.engine \in {"loading", "playing"} /\ player.url = "fresh"
  /\ Plays(IF player.tries = MaxRetries THEN [player EXCEPT !.engine = "dead"]
           ELSE [player EXCEPT !.tries = @ + 1, !.engine = "waiting"])

\* Any other: the next attempt comes in 2 s, the last one ends the player.
NetworkError ==
  /\ player.engine \in {"loading", "playing"} /\ player.url = "fresh"
  /\ Plays(IF player.tries = MaxRetries THEN [player EXCEPT !.engine = "dead", !.error = "offline"]
           ELSE [player EXCEPT !.tries = @ + 1, !.engine = "waiting"])

StartLoad ==
  /\ player.engine = "waiting"
  /\ Plays([player EXCEPT !.engine = "loading"])

\* An error that is neither of the network nor of the decoder.
Broken ==
  /\ player.engine \in {"loading", "playing"}
  /\ Plays([player EXCEPT !.engine = "dead", !.error = "broken"])

\* refreshPlayback
RefreshDone ==
  /\ player.refreshes > 0
  /\ \/ Plays([Built(player) EXCEPT !.refreshes = @ - 1])
     \/ Plays([player EXCEPT !.refreshes = @ - 1, !.error = "gone"])

\* The button of the error card.
Retry ==
  /\ player.error # "none"
  /\ Plays(Refreshing([player EXCEPT !.error = "none"]))

\* The address is good for an hour, or until the stream key is rotated.
Expire ==
  /\ player.url = "fresh"
  /\ Plays([player EXCEPT !.url = "stale"])

StreamTurns == stream' = ~stream /\ UNCHANGED <<watched, player>>

Outcome == Loaded \/ Resumed \/ Refused \/ NetworkError \/ Broken
PlayerNext ==
  \/ Watch \/ Unwatch \/ StreamTurns
  \/ DetailCame \/ Outcome \/ StartLoad \/ RefreshDone \/ Retry \/ Expire

-----------------------------------------------------------------------------
PlayerTypeOK == watched \in BOOLEAN /\ player \in Players /\ stream \in BOOLEAN

\* A room that is watched plays or says why not, again and again, unless its
\* first request failed, which leaves a black picture.
PlayerSettles ==
  []<>(~watched \/ player.engine = "playing" \/ player.error # "none" \/ player.blank)
=============================================================================
