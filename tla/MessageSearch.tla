--------------------------- MODULE MessageSearch ---------------------------
(* The search window, and the jump to a message it found.  The window asks *)
(* the server once typing has paused; every change of the query, and the   *)
(* closing of the window, takes back the pause and not the search that is  *)
(* under way.  A jump waits in the store until the conversation has the    *)
(* message on the screen; its effect starts anew with every message that   *)
(* the conversation gains.                                                 *)
EXTENDS Integers

CONSTANT MaxHits  \* hits of the queries 1..MaxHits: as many as the number says

ASSUME SearchAssumption == MaxHits \in Nat

VARIABLES
  search,    \* the window: the query, 0 if empty, the query of its hits, the marked hit
  asking,    \* queries whose search is under way
  overtaken, \* history: a search was under way when the query changed
  hop,       \* the jump, and the conversation it leads to
  missed     \* history: reading around the message has failed since

searchVars == <<search, asking, overtaken, hop, missed>>

Queries == 0..MaxHits
Searches == [open : BOOLEAN, q : Queries, pause : BOOLEAN, busy : BOOLEAN, hits : Queries, active : -1..MaxHits]
\* wanted: the jump waits; shown: the conversation is; has: the message is
\* among those the store has; history: its first page is under way; live: the effect that runs;
\* old: one that was taken back and is not done yet.
Hops == [wanted : BOOLEAN, shown : BOOLEAN, has : BOOLEAN, history : BOOLEAN,
         live : {"none", "around", "frame"}, old : BOOLEAN]

SearchInit ==
  /\ search = [open |-> FALSE, q |-> 0, pause |-> FALSE, busy |-> FALSE, hits |-> 0, active |-> 0]
  /\ asking = {} /\ overtaken = FALSE /\ missed = FALSE
  /\ hop = [wanted |-> FALSE, shown |-> FALSE, has |-> FALSE, history |-> FALSE, live |-> "none", old |-> FALSE]

-----------------------------------------------------------------------------
(* The window *)

NoHop == UNCHANGED <<hop, missed>>
\* Opening empties the query and the hits.
OpenSearch ==
  /\ ~search.open /\ overtaken' = (asking # {}) /\ UNCHANGED asking /\ NoHop
  /\ search' = [open |-> TRUE, q |-> 0, pause |-> FALSE, busy |-> FALSE, hits |-> 0, active |-> 0]
Closed(s) == [s EXCEPT !.open = FALSE, !.pause = FALSE]
CloseSearch == search.open /\ search' = Closed(search) /\ UNCHANGED <<asking, overtaken>> /\ NoHop

\* Any typing starts the pause again; an empty query has no hits.
TypeQuery(q) ==
  /\ search.open /\ q # search.q /\ overtaken' = (asking # {}) /\ UNCHANGED asking /\ NoHop
  /\ search' = [search EXCEPT !.q = q, !.pause = q # 0, !.busy = q # 0, !.hits = IF q = 0 THEN 0 ELSE @]

AskServer ==
  /\ search.pause /\ asking' = asking \union {search.q} /\ search' = [search EXCEPT !.pause = FALSE]
  /\ UNCHANGED overtaken /\ NoHop
HitsCame(q) ==
  /\ asking' = asking \ {q} /\ search' = [search EXCEPT !.hits = q, !.active = 0, !.busy = FALSE]
  /\ UNCHANGED overtaken /\ NoHop
HitsFailed(q) ==
  /\ asking' = asking \ {q} /\ search' = [search EXCEPT !.hits = 0, !.busy = FALSE]
  /\ UNCHANGED overtaken /\ NoHop

\* The arrows; the lower end is looked at even when there are no hits.
Arrow(down) ==
  /\ search.open /\ UNCHANGED <<asking, overtaken>> /\ NoHop
  /\ search' = [search EXCEPT !.active =
       IF down THEN (IF @ + 1 < search.hits THEN @ + 1 ELSE search.hits - 1)
       ELSE IF @ > 0 THEN @ - 1 ELSE 0]

-----------------------------------------------------------------------------
(* The jump *)

NoSearch == UNCHANGED <<search, asking, overtaken>>
\* The effect, as often as the jump or the conversation changes.
Runs(h) ==
  [h EXCEPT !.old = @ \/ h.live # "none",
            !.live = IF ~(h.wanted /\ h.shown) THEN "none" ELSE IF h.has THEN "frame" ELSE "around"]

\* openHit, by the mouse or by Enter on the marked hit: the conversation is
\* shown, and read if it was not.
OpenHit ==
  /\ search.open /\ search.hits > 0 /\ search' = Closed(search)
  /\ hop' = Runs([hop EXCEPT !.wanted = TRUE, !.shown = TRUE, !.history = @ \/ ~hop.shown])
  /\ missed' = FALSE /\ UNCHANGED <<asking, overtaken>>
LeaveConv ==
  /\ hop.shown /\ NoSearch /\ UNCHANGED missed
  /\ hop' = Runs([hop EXCEPT !.shown = FALSE, !.history = FALSE])

\* The first page replaces what is shown, or is merged into it; one of the
\* same length, which the effect would not notice, is left out.
HistoryPage(merged) ==
  /\ hop.history /\ NoSearch /\ UNCHANGED missed
  /\ hop' = Runs([hop EXCEPT !.history = FALSE, !.has = merged /\ @])
NewMessage == hop.shown /\ hop' = Runs(hop) /\ NoSearch /\ UNCHANGED missed

\* Mutant: what was read around the message is not shown.
AroundCame_Lost == hop.live = "around" /\ hop' = [hop EXCEPT !.live = "none"] /\ NoSearch /\ UNCHANGED missed

\* What is shown is longer now, so the effect runs again.
AroundCame == hop.live = "around" /\ hop' = Runs([hop EXCEPT !.has = TRUE]) /\ NoSearch /\ UNCHANGED missed
AroundFailed == hop.live = "around" /\ hop' = [hop EXCEPT !.live = "none"] /\ missed' = TRUE /\ NoSearch

\* The frame after: an effect that was taken back shows the message as well.
Framed(h) == IF h.has /\ h.shown THEN [h EXCEPT !.wanted = FALSE, !.live = "none"] ELSE h
DrawFrame == hop.live = "frame" /\ hop' = [Framed(hop) EXCEPT !.live = "none"] /\ NoSearch /\ UNCHANGED missed
OldFrame == hop.old /\ hop' = [Framed(hop) EXCEPT !.old = FALSE] /\ NoSearch /\ UNCHANGED missed

SearchNext ==
  \/ OpenSearch \/ CloseSearch \/ AskServer \/ OpenHit
  \/ \E q \in Queries : TypeQuery(q)
  \/ \E q \in asking : HitsCame(q) \/ HitsFailed(q)
  \/ \E b \in BOOLEAN : Arrow(b) \/ HistoryPage(b)
  \/ LeaveConv \/ NewMessage \/ AroundCame \/ AroundFailed \/ DrawFrame \/ OldFrame

-----------------------------------------------------------------------------
SearchTypeOK ==
  /\ search \in Searches /\ asking \subseteq Queries /\ overtaken \in BOOLEAN
  /\ hop \in Hops /\ missed \in BOOLEAN

\* A window at rest shows the hits of the query it shows, or none, and stops
\* turning: unless the query changed, or the window was opened again, while a
\* search was under way.  The hit that Enter opens is among those shown.
HitsMatch ==
  /\ search.open /\ ~search.pause /\ asking = {} /\ ~overtaken => search.hits \in {search.q, 0} /\ ~search.busy
  /\ search.hits > 0 => search.active \in 0..search.hits - 1

\* A jump does not hang in a conversation that is shown: it is under way, or
\* done, whatever else arrives meanwhile, unless the message was not had.
JumpLands == hop.wanted /\ hop.shown => hop.live # "none" \/ missed

\* What is found is what was asked for, and leads to the message.
SearchLeadsThere == HitsMatch /\ JumpLands
=============================================================================
