----------------------------- MODULE MessageSync -----------------------------
(***************************************************************************)
(* How one client learns the messages of one conversation.                 *)
(*                                                                         *)
(* Server: message/repo.go numbers messages 1, 2, ... under the row lock   *)
(* of conversation_seq; handlers publish on the bus after the commit, so   *)
(* events of concurrent requests may overtake each other.                  *)
(* Client: the WebSocket (ws/client.ts) delivers events; after every open  *)
(* syncAllConversations (sync/engine.ts) pulls what is newer than the      *)
(* persisted high-water mark lastSeq; the chat view fetches the latest     *)
(* page when it is opened; a sender also appends the answer of its POST.   *)
(*                                                                         *)
(* A message is its seq and the version of its row: an edit or a recall    *)
(* makes a new version.  Deletions are not modelled here.                  *)
(***************************************************************************)
EXTENDS Wsbus, SequencesExt

CONSTANTS Reader,      \* the user of the client; the only user of the bus here
          PageSize,      \* 200: limit of the pull and size of the first backfill
          RecentSize,    \* 50: page fetched when the view is opened
          ArchiveSize,   \* 200: rows the view asks the archive for
          CacheSize,     \* MSG_CACHE_LIMIT
          Blips,         \* whether requests and processes may fail
          Clients,       \* the clients considered: web or desktop, and their bounds
          None

\* archive: the desktop shell with its archive.  The rest are bounds: sockets,
\* messages, how many of the first messages are mine, versions of one message.
Client == [archive : BOOLEAN, sockets : Nat, sent : Nat, own : Nat, versions : Nat \ {0}]

ASSUME SyncAssumption ==
    /\ Users = {Reader}
    /\ PageSize \in Nat \ {0} /\ RecentSize \in Nat \ {0}
    /\ ArchiveSize \in Nat \ {0} /\ CacheSize \in Nat
    /\ Clients \subseteq Client /\ Blips \in BOOLEAN
    /\ None \notin Subs

VARIABLES client,     \* which of the clients this is; never changes
          log,        \* server: log[n] is the version of message n
          unsent,     \* server: events committed and not yet published
          replies,    \* own messages whose POST has not been answered
          link,       \* server side of each connection
          ws,         \* client: current socket, or None
          opened,     \* client: onopen of ws has run
          lastSeq,    \* client: seqStore.last, persisted
          msgs,       \* client: chatStore.messagesByConv
          kept,       \* client: version in the archive, 0 if none
          sync,       \* client: the in-flight syncAllConversations
          fetch,      \* client: the in-flight listMessages of the view
          local,      \* client: the archive's rows, not yet merged, or None
          why         \* history: what can have left a gap below lastSeq

serverVars == <<log, unsent>>
netVars == <<link, ws, opened>>
storeVars == <<lastSeq, msgs, kept, why>>
viewVars == <<fetch, local>>
vars == <<busVars, client, serverVars, replies, netVars, storeVars, sync, viewVars>>

Archive == client.archive
Seqs == 1..client.sent
Versions == 1..client.versions
Row == [seq : Seqs, ver : Versions]
Event == [type : {"chat.recv", "chat.edit"}, seq : Seqs, ver : Versions]
NoSync == [phase |-> "idle", head |-> 0, since |-> 0, rows |-> <<>>]
NoFetch == [phase |-> "idle", rows |-> <<>>]

TypeOK ==
    /\ BusTypeOK(Event)
    /\ client \in Clients
    /\ log \in Seq(Versions) /\ Len(log) <= client.sent
    /\ unsent \in SUBSET Event
    /\ replies \in SUBSET Seqs
    /\ link \in [Subs -> {"new", "upgraded", "up", "gone"}]
    /\ ws \in {None} \cup Subs /\ opened \in BOOLEAN
    /\ lastSeq \in 0..client.sent
    /\ msgs \in Seq(Row)
    /\ kept \in [Seqs -> 0..client.versions]
    /\ sync \in [phase : {"idle", "head", "headIs", "pull", "rows"},
                 head : Nat, since : Nat, rows : Seq(Row)]
    /\ fetch \in [phase : {"idle", "asked", "rows"}, rows : Seq(Row)]
    /\ local = None \/ local \in Seq(Row)
    /\ why \in SUBSET {"overtaken", "page", "replaced", "trimmed"}

Init ==
    /\ BusInit
    /\ client \in Clients
    /\ log = <<>> /\ unsent = {} /\ replies = {}
    /\ link = [c \in Subs |-> "new"]
    /\ ws = None /\ opened = FALSE
    /\ lastSeq = 0 /\ msgs = <<>> /\ kept = [n \in Seqs |-> 0]
    /\ sync = NoSync /\ fetch = NoFetch /\ local = None
    /\ why = {}

-----------------------------------------------------------------------------
\* The store: chatStore.ts.

SeqsOf(rows) == {rows[i].seq : i \in DOMAIN rows}

\* The elements of a finite set from the first to the last; before holds the
\* pairs of a strict order of it.
Ordered(S, before) ==
    [k \in 1..Cardinality(S) |->
        CHOOSE x \in S : Cardinality({y \in S : <<y, x>> \in before}) = k - 1]

\* The rows at the places I, in that order.
RowsAt(rows, I, before) ==
    LET places == Ordered(I, before)
    IN  [k \in DOMAIN places |-> rows[places[k]]]

\* The rows whose messages are not known, in their order.
Unknown(rows, known) ==
    LET I == {i \in DOMAIN rows : rows[i].seq \notin known}
    IN  RowsAt(rows, I, {p \in I \X I : p[1] < p[2]})

\* The version of message n among distinct rows.
VersionIn(rows, n) == rows[CHOOSE i \in DOMAIN rows : rows[i].seq = n].ver

\* archiveAppend of each row: an upsert.
Archived(copies, rows) ==
    [n \in Seqs |-> IF Archive /\ n \in SeqsOf(rows) THEN VersionIn(rows, n)
                   ELSE copies[n]]

\* Mutant: the store does not look whether it has the message.
AppendRows_NoDedupe(rows) ==
    /\ lastSeq' = Max({lastSeq} \cup SeqsOf(rows))
    /\ kept' = Archived(kept, rows)
    /\ msgs' = msgs \o rows

\* appendMessage for each row in turn: bumpLast, archiveAppend, then append
\* unless the id is known.  The rows of one answer are distinct.
AppendRows(rows) ==
    /\ lastSeq' = Max({lastSeq} \cup SeqsOf(rows))
    /\ kept' = Archived(kept, rows)
    /\ msgs' = msgs \o Unknown(rows, SeqsOf(msgs))

\* replaceMessage; the message is within the authority window.
Replace(row) ==
    /\ kept' = Archived(kept, <<row>>)
    /\ msgs' = [i \in DOMAIN msgs |-> IF msgs[i].seq = row.seq THEN row ELSE msgs[i]]
    /\ UNCHANGED lastSeq

\* Array.sort by seq, which is stable.
BySeq(rows) ==
    LET I == DOMAIN rows
        Before(i, j) == \/ rows[i].seq < rows[j].seq
                        \/ rows[i].seq = rows[j].seq /\ i < j
    IN  RowsAt(rows, I, {p \in I \X I : Before(p[1], p[2])})

\* Mutant: the page wins over the copies the list has.
MergeRows_PageWins(rows) ==
    /\ msgs' = BySeq(Unknown(msgs, SeqsOf(rows)) \o rows)
    /\ kept' = Archived(kept, rows)
    /\ UNCHANGED lastSeq

\* mergeMessages: known ids keep the copy the list has.
MergeRows(rows) ==
    LET fresh == Unknown(rows, SeqsOf(msgs))
    IN  /\ msgs' = BySeq(msgs \o fresh)
        /\ kept' = Archived(kept, fresh)
        /\ UNCHANGED lastSeq

\* setMessages
SetRows(rows) ==
    /\ msgs' = Reverse(rows)
    /\ kept' = Archived(kept, Reverse(rows))
    /\ UNCHANGED lastSeq

-----------------------------------------------------------------------------
\* The server: message/repo.go and the handlers of message/handler.go.

\* send: Insert commits message n, mine or another member's; the events of
\* the fan-out are still to be published.
Commit(mine) ==
    LET n == Len(log) + 1
    IN  /\ n <= client.sent /\ (mine => n <= client.own)
        /\ log' = Append(log, 1)
        /\ unsent' = unsent \cup {[type |-> "chat.recv", seq |-> n, ver |-> 1]}
        /\ replies' = IF mine THEN replies \cup {n} ELSE replies
        /\ UNCHANGED <<client, busVars, netVars, storeVars, sync, viewVars>>

\* edit and recall: a new version of the row, then the event.
Rewrite(n) ==
    /\ log[n] < client.versions
    /\ log' = [log EXCEPT ![n] = @ + 1]
    /\ unsent' = unsent \cup {[type |-> "chat.edit", seq |-> n, ver |-> log[n] + 1]}
    /\ UNCHANGED <<client, busVars, replies, netVars, storeVars, sync, viewVars>>

PublishNext(ev) ==
    /\ Publish(Reader, ev)
    /\ unsent' = unsent \ {ev}
    /\ UNCHANGED <<client, log, replies, netVars, storeVars, sync, viewVars>>

\* Mutant: the pull starts one message too late.
ListAfter_SkipsOne(n, limit) ==
    [i \in 1..Max({0, Min({limit, Len(log) - n - 1})}) |->
        [seq |-> n + 1 + i, ver |-> log[n + 1 + i]]]

ListAfter(n, limit) ==
    [i \in 1..Min({limit, Len(log) - n}) |-> [seq |-> n + i, ver |-> log[n + i]]]

ListRecent(limit) ==
    [i \in 1..Min({limit, Len(log)}) |->
        [seq |-> Len(log) + 1 - i, ver |-> log[Len(log) + 1 - i]]]

\* The process dies between a commit and its publications, with every
\* connection.
ServerRestarts ==
    /\ Blips
    /\ unsent' = {} /\ replies' = {}
    /\ link' = [c \in Subs |-> IF link[c] = "new" THEN "new" ELSE "gone"]
    /\ registered' = {}
    /\ chan' = [c \in Subs |-> IF link[c] = "new" THEN chan[c] ELSE "closed"]
    /\ buf' = [c \in Subs |-> <<>>]
    /\ sync' = IF sync.phase \in {"head", "pull"} THEN NoSync ELSE sync
    /\ fetch' = IF fetch.phase = "asked" THEN NoFetch ELSE fetch
    /\ UNCHANGED <<client, panicked, log, ws, opened, storeVars, local>>

-----------------------------------------------------------------------------
\* The connection: realtime/handler.go and ws/client.ts.

\* open(): the upgrade is answered before the server subscribes.
Connect(c) ==
    /\ ws = None /\ link[c] = "new"
    /\ Cardinality({d \in Subs : link[d] # "new"}) < client.sockets
    /\ ws' = c /\ opened' = FALSE
    /\ link' = [link EXCEPT ![c] = "upgraded"]
    /\ UNCHANGED <<client, busVars, serverVars, replies, storeVars, sync, viewVars>>

Attach(c) ==
    /\ link[c] = "upgraded"
    /\ Subscribe(c)
    /\ link' = [link EXCEPT ![c] = "up"]
    /\ UNCHANGED <<client, serverVars, replies, ws, opened, storeVars, sync, viewVars>>

\* onopen: a round already in flight serves this trigger too.
SocketOpened ==
    /\ ws # None /\ ~opened
    /\ opened' = TRUE
    /\ sync' = IF sync.phase = "idle" THEN [sync EXCEPT !.phase = "head"] ELSE sync
    /\ UNCHANGED <<client, busVars, serverVars, replies, link, ws, storeVars, viewVars>>

\* onclose, or the heartbeat giving up.
SocketLost ==
    /\ ws # None
    /\ ws' = None /\ opened' = FALSE
    /\ UNCHANGED <<client, busVars, serverVars, replies, link, storeVars, sync, viewVars>>

\* The server's side ends, which may be noticed much later by the client.
Detach(c) ==
    /\ link[c] \in {"upgraded", "up"}
    /\ link' = [link EXCEPT ![c] = "gone"]
    /\ registered' = registered \ {c}
    /\ chan' = [chan EXCEPT ![c] = "closed"]
    /\ buf' = [buf EXCEPT ![c] = <<>>]
    /\ UNCHANGED <<client, panicked, serverVars, replies, ws, opened, storeVars, sync, viewVars>>

\* What a message beyond lastSeq + 1 leaves behind.
Overtakes(n) == IF n > lastSeq + 1 THEN {"overtaken"} ELSE {}

\* onmessage after onopen: chat.recv appends, chat.edit and chat.recall
\* replace.
Deliver ==
    /\ ws # None /\ opened
    /\ Receive(ws)
    /\ LET ev == Head(buf[ws])
           row == [seq |-> ev.seq, ver |-> ev.ver]
       IN  \/ /\ ev.type = "chat.recv"
              /\ AppendRows(<<row>>)
              /\ why' = why \cup Overtakes(ev.seq)
           \/ /\ ev.type = "chat.edit"
              /\ Replace(row)
              /\ UNCHANGED why
    /\ UNCHANGED <<client, serverVars, replies, netVars, sync, viewVars>>

\* The answer of the client's own POST, sent after its publications.
PostAnswered(n) ==
    /\ [type |-> "chat.recv", seq |-> n, ver |-> 1] \notin unsent
    /\ AppendRows(<<[seq |-> n, ver |-> 1]>>)
    /\ why' = why \cup Overtakes(n)
    /\ replies' = replies \ {n}
    /\ UNCHANGED <<client, busVars, serverVars, netVars, sync, viewVars>>

AnswerLost(n) ==
    /\ Blips
    /\ replies' = replies \ {n}
    /\ UNCHANGED <<client, busVars, serverVars, netVars, storeVars, sync, viewVars>>

-----------------------------------------------------------------------------
\* One round of syncAllConversations (sync/engine.ts, sync/handler.go).

ServeHead ==
    /\ sync.phase = "head"
    /\ sync' = [sync EXCEPT !.phase = "headIs", !.head = Len(log)]
    /\ UNCHANGED <<client, busVars, serverVars, replies, netVars, storeVars, viewVars>>

\* lastSeq is read now, after the answer.
GotHead ==
    /\ sync.phase = "headIs"
    /\ IF sync.head <= lastSeq
       THEN sync' = NoSync /\ UNCHANGED why
       ELSE LET since == IF lastSeq > 0 THEN lastSeq
                         ELSE Max({0, sync.head - PageSize})
            IN  /\ sync' = [sync EXCEPT !.phase = "pull", !.since = since]
                /\ why' = IF since > lastSeq THEN why \cup {"page"} ELSE why
    /\ UNCHANGED <<client, busVars, serverVars, replies, netVars, lastSeq, msgs, kept, viewVars>>

\* list: afterSeq = 0 means "the most recent", newest first.
ServePull ==
    /\ sync.phase = "pull"
    /\ sync' = [sync EXCEPT !.phase = "rows",
                            !.rows = IF sync.since > 0 THEN ListAfter(sync.since, PageSize)
                                     ELSE ListRecent(PageSize)]
    /\ UNCHANGED <<client, busVars, serverVars, replies, netVars, storeVars, viewVars>>

GotRows ==
    /\ sync.phase = "rows"
    /\ AppendRows(sync.rows)
    /\ why' = IF sync.since = 0 /\ Len(sync.rows) = PageSize
              THEN why \cup {"page"} ELSE why
    /\ sync' = NoSync
    /\ UNCHANGED <<client, busVars, serverVars, replies, netVars, viewVars>>

\* A request of the round fails: the error is swallowed, inflight cleared.
SyncFails ==
    /\ Blips
    /\ sync.phase # "idle"
    /\ sync' = NoSync
    /\ UNCHANGED <<client, busVars, serverVars, replies, netVars, storeVars, viewVars>>

-----------------------------------------------------------------------------
\* The chat view (ChatView.tsx) and the application.

\* archive.query: the newest rows, newest first.
KeptRows ==
    LET K == {n \in Seqs : kept[n] > 0}
        newest == Ordered(K, {p \in K \X K : p[1] > p[2]})
    IN  [k \in 1..Min({ArchiveSize, Cardinality(K)}) |->
            [seq |-> newest[k], ver |-> kept[newest[k]]]]

\* Entering the conversation: the archive, if any, and the latest page are
\* queried.  The archive process serves its requests in order, so the query
\* sees what was archived before it.
OpenView ==
    /\ fetch.phase = "idle" /\ local = None
    /\ fetch' = [fetch EXCEPT !.phase = "asked"]
    /\ local' = IF Archive THEN KeptRows ELSE None
    /\ UNCHANGED <<client, busVars, serverVars, replies, netVars, storeVars, sync>>

\* The archive's rows may come before or after the page.
GotArchive ==
    /\ local # None
    /\ MergeRows(local)
    /\ local' = None
    /\ UNCHANGED <<client, busVars, serverVars, replies, netVars, why, sync, fetch>>

ServeRecent ==
    /\ fetch.phase = "asked"
    /\ fetch' = [phase |-> "rows", rows |-> ListRecent(RecentSize)]
    /\ UNCHANGED <<client, busVars, serverVars, replies, netVars, storeVars, sync, local>>

GotRecent ==
    /\ fetch.phase = "rows"
    /\ fetch' = NoFetch
    /\ IF Archive THEN MergeRows(fetch.rows) ELSE SetRows(fetch.rows)
    /\ why' = IF ~Archive /\ ~(SeqsOf(msgs) \subseteq SeqsOf(fetch.rows))
              THEN why \cup {"replaced"} ELSE why
    /\ UNCHANGED <<client, busVars, serverVars, replies, netVars, sync, local>>

FetchFails ==
    /\ Blips
    /\ fetch.phase # "idle"
    /\ fetch' = NoFetch
    /\ UNCHANGED <<client, busVars, serverVars, replies, netVars, storeVars, sync, local>>

\* The view is left: both answers are ignored when they come.
CloseView ==
    /\ fetch' = NoFetch /\ local' = None
    /\ UNCHANGED <<client, busVars, serverVars, replies, netVars, storeVars, sync>>

\* The client is closed and started again: localStorage and the archive
\* survive, everything in flight does not.
Reload ==
    /\ Blips
    /\ ws' = None /\ opened' = FALSE
    /\ sync' = NoSync /\ fetch' = NoFetch /\ local' = None /\ replies' = {}
    /\ msgs' = SubSeq(msgs, Max({0, Len(msgs) - CacheSize}) + 1, Len(msgs))
    /\ why' = IF Len(msgs) > CacheSize THEN why \cup {"trimmed"} ELSE why
    /\ UNCHANGED <<client, busVars, serverVars, link, lastSeq, kept>>

-----------------------------------------------------------------------------
Server ==
    \/ \E mine \in BOOLEAN : Commit(mine)
    \/ \E n \in DOMAIN log : Rewrite(n)
    \/ \E ev \in unsent : PublishNext(ev)
    \/ ServerRestarts

Connection ==
    \/ \E c \in Subs : Connect(c) \/ Attach(c) \/ Detach(c)
    \/ SocketOpened \/ SocketLost \/ Deliver
    \/ \E n \in replies : PostAnswered(n) \/ AnswerLost(n)

Round == ServeHead \/ GotHead \/ ServePull \/ GotRows

View == OpenView \/ GotArchive \/ ServeRecent \/ GotRecent \/ FetchFails \/ CloseView

Next == Server \/ Connection \/ Round \/ SyncFails \/ View \/ Reload

Spec == Init /\ [][Next]_vars

-----------------------------------------------------------------------------
(* A message is shown once, whichever of the live event, the catch-up      *)
(* pull, the answer of the sender's own POST, the archive and the page of  *)
(* the view bring it, in whatever order.                                   *)
ShownOnce ==
    \A i, j \in DOMAIN msgs : msgs[i].seq = msgs[j].seq => i = j

(* Below the high-water mark nothing is missing unless something the code  *)
(* knows no repair for happened: a live event or own answer overtook the   *)
(* pull, the backfill is limited to one page, the view replaced the list,  *)
(* or the cache was trimmed.  In particular a pull leaves no gap, even if  *)
(* live events arrive and the mark moves while it is in flight.            *)
GapsExplained ==
    why = {} => 1..lastSeq \subseteq SeqsOf(msgs)

(* With the archive, what has been shown stays on screen: only closing the *)
(* client takes messages from the list.                                    *)
StaysShown ==
    [][Archive /\ SeqsOf(msgs') # SeqsOf(msgs)
         => SeqsOf(msgs) \subseteq SeqsOf(msgs') \/ (ws' = None /\ sync' = NoSync)]_vars

(* The copy on screen goes back to an older version only when the event of *)
(* an earlier edit or recall is delivered after a later one; no page, pull *)
(* or answer, however late it arrives, overwrites a newer copy.            *)
NeverReverts ==
    [][Archive => \A i \in DOMAIN msgs, j \in DOMAIN msgs' :
          \/ msgs[i].seq # msgs'[j].seq
          \/ msgs'[j].ver >= msgs[i].ver
          \/ /\ ws # None /\ buf[ws] # <<>> /\ buf'[ws] = Tail(buf[ws])
             /\ Head(buf[ws]) = [type |-> "chat.edit", seq |-> msgs'[j].seq,
                                 ver |-> msgs'[j].ver]]_vars

(* What is on screen neither goes nor gets older by what the list, the     *)
(* archive and the events do to each other.                                *)
ShownStays == StaysShown /\ NeverReverts

-----------------------------------------------------------------------------
(* What the comments of the code say and its behaviour does not bear out. *)

\* Nothing is on its way to the client, which is connected.
Settled ==
    /\ ws # None /\ opened /\ link[ws] = "up" /\ buf[ws] = <<>>
    /\ unsent = {} /\ replies = {} /\ sync.phase = "idle"
    /\ fetch.phase = "idle" /\ local = None

(* What engine.ts says of itself: a reconnected client has caught up on    *)
(* any messages it missed, so that none is missing below the newest it has *)
(* received.                                                               *)
CaughtUp == Settled => 1..lastSeq \subseteq SeqsOf(msgs)

(* What ChatView.tsx says: the page fetched when the view opens overwrites *)
(* any rows that still exist server-side.                                  *)
PageOverwrites ==
    [][fetch.phase = "rows" /\ fetch'.phase = "idle" /\ ws' = ws
         => \A i \in DOMAIN fetch.rows :
               \E j \in DOMAIN msgs' : /\ msgs'[j].seq = fetch.rows[i].seq
                                       /\ msgs'[j].ver >= fetch.rows[i].ver]_vars

(* What chatStore.ts says: every row is written through to the archive,    *)
(* "the long-term store; this in-memory map is just the hot cache", so the *)
(* archive is never behind what is on screen.                              *)
ArchiveKeepsUp ==
    Archive => \A i \in DOMAIN msgs : kept[msgs[i].seq] >= msgs[i].ver

(* What engine.ts says: a pull brings messages ascending, oldest first.    *)
PullAscending ==
    \A i, j \in DOMAIN sync.rows : i < j => sync.rows[i].seq < sync.rows[j].seq
=============================================================================
