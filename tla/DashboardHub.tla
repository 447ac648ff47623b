----------------------------- MODULE DashboardHub -----------------------------
(***************************************************************************)
(* The live dashboard feed: recorder goroutines (proxy/handler.go, dbWrite), *)
(* the hub's event loop and the history replay to a new client              *)
(* (dashboard/hub.go), and a client's two pumps (dashboard/websocket.go).    *)
(*                                                                          *)
(* Only Run changes the client set, but a client's send channel has two      *)
(* senders: Run, which may also close it, and the client's replay goroutine. *)
(***************************************************************************)
EXTENDS Naturals, Sequences, FiniteSets

CONSTANTS
    Event,         \* requests to record
    Client,        \* WebSocket connections
    Nobody,        \* no event
    BroadcastCap,  \* cap(h.broadcast): 256
    SendCap,       \* cap(client.send): 256
    HistoryLimit,  \* h.limit
    MaxOther,      \* bound: broadcasts that are not request events
    DBFails        \* TRUE: an insert or a query may return an error

ASSUME HubConstants ==
    /\ Nobody \notin Event
    /\ BroadcastCap \in Nat \ {0} /\ SendCap \in Nat \ {0} /\ HistoryLimit \in Nat \ {0}
    /\ MaxOther \in Nat /\ DBFails \in BOOLEAN

VARIABLES
    recorder,   \* the goroutine that records each request
    rows,       \* the requests table, oldest first
    queue,      \* h.broadcast
    others,     \* cost updates and agent totals still to be broadcast
    clients,    \* h.clients
    send,       \* each client's channel
    closed,     \* channels that were closed
    reader,     \* readPump
    writer,     \* writePump
    replay,     \* replayHistory
    shown,      \* events written to the client's connection
    panic,      \* the goroutine that brought the process down, if any
    dropped,    \* events Broadcast dropped, its queue being full (history)
    cut         \* events a replay left out or gave up (history)

channels == <<send, closed>>
vars == <<recorder, rows, queue, others, clients, channels, reader, writer, replay,
          shown, panic, dropped, cut>>

Message == [kind : {"live", "row", "other"}, ev : Event \cup {Nobody}]
Live(e)  == [kind |-> "live", ev |-> e]
Past(e)  == [kind |-> "row", ev |-> e]
Other    == [kind |-> "other", ev |-> Nobody]
Quiet    == [at |-> "none", todo |-> <<>>]

TypeOK ==
    /\ recorder \in [Event -> {"new", "inserted", "done"}]
    /\ rows \in Seq(Event)
    /\ queue \in Seq(Message) /\ Len(queue) <= BroadcastCap
    /\ others \in 0 .. MaxOther
    /\ clients \subseteq Client
    /\ send \in [Client -> Seq(Message)]
    /\ \A c \in Client : Len(send[c]) <= SendCap
    /\ closed \subseteq Client
    /\ reader \in [Client -> {"none", "reading", "leaving", "gone"}]
    /\ writer \in [Client -> {"none", "writing", "gone"}]
    /\ replay \in [Client -> [at : {"none", "query", "stats", "send"}, todo : Seq(Message)]]
    /\ shown \in [Client -> SUBSET Event]
    /\ panic \in {"none", "run", "replay"}
    /\ dropped \subseteq Event /\ cut \in [Client -> SUBSET Event]

Init ==
    /\ recorder = [e \in Event |-> "new"] /\ rows = <<>>
    /\ queue = <<>> /\ others = MaxOther
    /\ clients = {} /\ closed = {} /\ send = [c \in Client |-> <<>>]
    /\ reader = [c \in Client |-> "none"] /\ writer = [c \in Client |-> "none"]
    /\ replay = [c \in Client |-> Quiet]
    /\ shown = [c \in Client |-> {}]
    /\ panic = "none" /\ dropped = {} /\ cut = [c \in Client |-> {}]

\* A panic ends the process: neither goroutine recovers.
Alive == panic = "none"

-----------------------------------------------------------------------------
(* dbWrite and Broadcast *)

Insert(e) ==
    /\ Alive /\ recorder[e] = "new"
    /\ recorder' = [recorder EXCEPT ![e] = "inserted"]
    /\ rows' = Append(rows, e) \/ (DBFails /\ UNCHANGED rows)
    /\ UNCHANGED <<queue, others, clients, channels, reader, writer, replay, shown,
                   panic, dropped, cut>>

\* Prune: the oldest rows have outlived the retention (store/db.go).
Prune ==
    /\ Alive
    /\ \E n \in 1 .. Len(rows) : rows' = SubSeq(rows, n + 1, Len(rows))
    /\ UNCHANGED <<recorder, queue, others, clients, channels, reader, writer, replay,
                   shown, panic, dropped, cut>>

QueueHasRoom == Len(queue) < BroadcastCap

BroadcastEvent(e) ==
    /\ Alive /\ recorder[e] = "inserted"
    /\ recorder' = [recorder EXCEPT ![e] = "done"]
    /\ IF QueueHasRoom
       THEN queue' = Append(queue, Live(e)) /\ UNCHANGED dropped
       ELSE dropped' = dropped \cup {e} /\ UNCHANGED queue
    /\ UNCHANGED <<rows, others, clients, channels, reader, writer, replay, shown, panic, cut>>

\* broadcastSessionUpdate and the agent totals share the queue.
BroadcastOther ==
    /\ Alive /\ others > 0
    /\ others' = others - 1
    /\ queue' = IF QueueHasRoom THEN Append(queue, Other) ELSE queue
    /\ UNCHANGED <<recorder, rows, clients, channels, reader, writer, replay, shown,
                   panic, dropped, cut>>

-----------------------------------------------------------------------------
(* Run: one goroutine, one case of its select at a time *)

\* ServeWS: the register handshake starts the replay and the pumps.
Register(c) ==
    /\ Alive /\ reader[c] = "none"
    /\ clients' = clients \cup {c}
    /\ replay' = [replay EXCEPT ![c].at = "query"]
    /\ reader' = [reader EXCEPT ![c] = "reading"]
    /\ writer' = [writer EXCEPT ![c] = "writing"]
    /\ UNCHANGED <<recorder, rows, queue, others, channels, shown, panic, dropped, cut>>

\* close(client.send) for each of `gone`; closing twice is a panic.
CloseChannels(gone) ==
    /\ closed' = closed \cup gone
    /\ panic' = IF gone \cap closed # {} THEN "run" ELSE panic

Unregister_Unchecked(c) ==   \* mutant: closes without asking whether c is still there
    /\ Alive /\ reader[c] = "leaving"
    /\ reader' = [reader EXCEPT ![c] = "gone"]
    /\ clients' = clients \ {c}
    /\ CloseChannels({c})
    /\ UNCHANGED <<recorder, rows, queue, others, send, writer, replay, shown, dropped, cut>>
Unregister_Open(c) ==        \* mutant: forgets to close
    /\ Alive /\ reader[c] = "leaving"
    /\ reader' = [reader EXCEPT ![c] = "gone"]
    /\ clients' = clients \ {c}
    /\ UNCHANGED <<recorder, rows, queue, others, channels, writer, replay, shown, panic,
                   dropped, cut>>

Unregister(c) ==
    /\ Alive /\ reader[c] = "leaving"
    /\ reader' = [reader EXCEPT ![c] = "gone"]
    /\ clients' = clients \ {c}
    /\ CloseChannels(clients \cap {c})
    /\ UNCHANGED <<recorder, rows, queue, others, send, writer, replay, shown, dropped, cut>>

Deliver_AfterReplay ==   \* mutant: spares clients whose replay is running
    /\ Alive /\ queue # <<>>
    /\ queue' = Tail(queue)
    /\ LET ready == {c \in clients : replay[c].at = "none"}
           dead == {c \in ready : Len(send[c]) >= SendCap} IN
         /\ send' = [c \in Client |-> IF c \in ready \ dead
                                       THEN Append(send[c], Head(queue)) ELSE send[c]]
         /\ clients' = clients \ dead
         /\ CloseChannels(dead)
    /\ UNCHANGED <<recorder, rows, others, reader, writer, replay, shown, dropped, cut>>

\* A client whose buffer is full is dropped, its channel closed.
Deliver ==
    /\ Alive /\ queue # <<>>
    /\ queue' = Tail(queue)
    /\ LET dead == {c \in clients : Len(send[c]) >= SendCap} IN
         /\ send' = [c \in Client |-> IF c \in clients \ dead
                                       THEN Append(send[c], Head(queue)) ELSE send[c]]
         /\ clients' = clients \ dead
         /\ CloseChannels(dead)
    /\ UNCHANGED <<recorder, rows, others, reader, writer, replay, shown, dropped, cut>>

-----------------------------------------------------------------------------
(* replayHistory, a goroutine per client *)

EventsOf(s) == { s[i].ev : i \in DOMAIN s } \ {Nobody}
Recorded == { rows[i] : i \in DOMAIN rows }

\* RecentRequests(h.limit), turned oldest first.
ReplayQuery(c) ==
    /\ Alive /\ replay[c].at = "query"
    /\ LET first == IF Len(rows) > HistoryLimit THEN Len(rows) - HistoryLimit + 1 ELSE 1
           recent == [i \in 1 .. Len(rows) + 1 - first |-> Past(rows[first + i - 1])]
       IN \/ /\ replay' = [replay EXCEPT ![c] =
                             IF rows = <<>> THEN Quiet ELSE [at |-> "stats", todo |-> recent]]
             /\ cut' = [cut EXCEPT ![c] = Recorded \ EventsOf(recent)]
          \/ /\ DBFails
             /\ replay' = [replay EXCEPT ![c] = Quiet]
             /\ cut' = [cut EXCEPT ![c] = Recorded]
    /\ UNCHANGED <<recorder, rows, queue, others, clients, channels, reader, writer,
                   shown, panic, dropped>>

\* The totals are queried afterwards; agent totals follow them.
ReplayStats(c) ==
    /\ Alive /\ replay[c].at = "stats"
    /\ \E totals \in {<<Other, Other>>} \cup (IF DBFails THEN {<<Other>>, <<>>} ELSE {}) :
         replay' = [replay EXCEPT ![c] = [at |-> "send", todo |-> totals \o @.todo]]
    /\ UNCHANGED <<recorder, rows, queue, others, clients, channels, reader, writer,
                   shown, panic, dropped, cut>>

\* `select { case client.send <- data: default: }` panics on a closed channel.
ReplaySend(c) ==
    /\ Alive /\ replay[c].at = "send"
    /\ IF replay[c].todo = <<>>
       THEN /\ replay' = [replay EXCEPT ![c] = Quiet]
            /\ UNCHANGED <<send, panic, cut>>
       ELSE LET m == Head(replay[c].todo) IN
            \/ /\ c \in closed
               /\ panic' = "replay"
               /\ UNCHANGED <<send, replay, cut>>
            \/ /\ c \notin closed /\ Len(send[c]) < SendCap
               /\ send' = [send EXCEPT ![c] = Append(@, m)]
               /\ replay' = [replay EXCEPT ![c].todo = Tail(@)]
               /\ UNCHANGED <<panic, cut>>
            \/ /\ c \notin closed /\ Len(send[c]) >= SendCap
               /\ IF m.kind = "row"
                  THEN /\ replay' = [replay EXCEPT ![c] = Quiet]
                       /\ cut' = [cut EXCEPT ![c] = @ \cup EventsOf(replay[c].todo)]
                  ELSE /\ replay' = [replay EXCEPT ![c].todo = Tail(@)]
                       /\ UNCHANGED cut
               /\ UNCHANGED <<send, panic>>
    /\ UNCHANGED <<recorder, rows, queue, others, clients, closed, reader, writer,
                   shown, dropped>>

-----------------------------------------------------------------------------
(* The pumps *)

\* writePump writes one message to the connection.
WritePump(c) ==
    /\ Alive /\ writer[c] = "writing" /\ send[c] # <<>>
    /\ send' = [send EXCEPT ![c] = Tail(@)]
    /\ shown' = [shown EXCEPT ![c] = @ \cup ({Head(send[c]).ev} \ {Nobody})]
    /\ UNCHANGED <<recorder, rows, queue, others, clients, closed, reader, writer, replay,
                   panic, dropped, cut>>

\* The channel is closed and drained, or a write to the socket fails.
WriterStops(c) ==
    /\ Alive /\ writer[c] = "writing"
    /\ (c \in closed /\ send[c] = <<>>) \/ reader[c] # "reading"
    /\ writer' = [writer EXCEPT ![c] = "gone"]
    /\ UNCHANGED <<recorder, rows, queue, others, clients, channels, reader, replay, shown,
                   panic, dropped, cut>>

\* ReadMessage fails: the browser left, the pong is late, or writePump closed
\* the connection.
ReaderStops(c) ==
    /\ Alive /\ reader[c] = "reading"
    /\ reader' = [reader EXCEPT ![c] = "leaving"]
    /\ UNCHANGED <<recorder, rows, queue, others, clients, channels, writer, replay, shown,
                   panic, dropped, cut>>

Recorders == (\E e \in Event : Insert(e) \/ BroadcastEvent(e)) \/ BroadcastOther
Run == (\E c \in Client : Register(c) \/ Unregister(c)) \/ Deliver
Replays == \E c \in Client : ReplayQuery(c) \/ ReplayStats(c) \/ ReplaySend(c)
Pumps == \E c \in Client : WritePump(c) \/ WriterStops(c) \/ ReaderStops(c)

Next == Recorders \/ Prune \/ Run \/ Replays \/ Pumps

Spec == Init /\ [][Next]_vars

\* The event loop and the pumps of a connection that is going away run too;
\* nobody has to connect or to leave.
Fairness ==
    /\ WF_vars(Deliver)
    /\ \A c \in Client :
          /\ WF_vars(Unregister(c))
          /\ WF_vars(c \in closed /\ WritePump(c))
          /\ WF_vars(c \in closed /\ send[c] = <<>> /\ WriterStops(c))

FairSpec == Spec /\ Fairness

-----------------------------------------------------------------------------
(* Properties *)

\* Run never closes a channel twice and never sends on a closed one, although
\* a client can be dropped as too slow while its reader is unregistering it
\* (hub.go:36-38, 87-108).
RunNeverPanics == panic # "run" /\ clients \cap closed = {}

Undelivered(c) ==
    EventsOf(queue) \cup EventsOf(send[c]) \cup EventsOf(replay[c].todo)
    \cup {e \in Event : recorder[e] = "inserted"}

\* Replay and live feed leave no gap (handler.go:1022-1027, "in that order so
\* replay is consistent"): a request in the table reaches every connected
\* client by one path or the other, unless a full buffer dropped it or it is
\* older than the history limit.
NoGap ==
    \A c \in clients :
        replay[c].at # "query" =>
            Recorded \subseteq shown[c] \cup Undelivered(c) \cup dropped \cup cut[c]

\* A connection that is going away leaves nothing behind: it is taken out of
\* the client set and its writePump ends.
NoLeak ==
    \A c \in Client : reader[c] = "leaving" ~>
        (c \notin clients /\ writer[c] = "gone") \/ panic # "none"

=============================================================================
