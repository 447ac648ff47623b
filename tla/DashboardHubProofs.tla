-------------------------- MODULE DashboardHubProofs --------------------------
(* The event loop never closes a channel twice and never sends on a closed    *)
(* one, for any number of clients and any capacity.                           *)
EXTENDS DashboardHub, TLAPS

\* A channel is closed only by removing its client, and a client that has not
\* connected has neither; so no client in the set has a closed channel.
IInv ==
    /\ reader \in [Client -> {"none", "reading", "leaving", "gone"}]
    /\ closed \subseteq Client /\ clients \subseteq Client
    /\ \A c \in clients \cup closed : reader[c] # "none"
    /\ RunNeverPanics

\* The event loop starts with no client and no closed channel.
LEMMA InitIInv == Init => IInv
  BY DEF Init, IInv, RunNeverPanics

\* Outside the event loop only the replay writes panic, and only readPump
\* changes reader.
LEMMA OthersKeepIInv ==
  ASSUME IInv, Recorders \/ Prune \/ Replays \/ Pumps PROVE IInv'
<1>1. CASE Recorders
  BY <1>1 DEF IInv, RunNeverPanics, Recorders, Insert, BroadcastEvent, BroadcastOther, channels
<1>2. CASE Replays
  BY <1>2 DEF IInv, RunNeverPanics, Replays, ReplayQuery, ReplayStats, ReplaySend, channels
<1>3. CASE Pumps
  <2>1. ASSUME NEW c \in Client, WritePump(c) \/ WriterStops(c) PROVE IInv'
    BY <2>1 DEF IInv, RunNeverPanics, WritePump, WriterStops, channels
  <2>2. ASSUME NEW c \in Client, ReaderStops(c) PROVE IInv'
    BY <2>2 DEF IInv, RunNeverPanics, ReaderStops, channels
  <2>3. QED BY <1>3, <2>1, <2>2 DEF Pumps
<1>4. CASE Prune
  BY <1>4 DEF IInv, RunNeverPanics, Prune, channels
<1>5. QED BY <1>1, <1>2, <1>3, <1>4

\* Each case of the event loop's select keeps the invariant.
LEMMA RunKeepsIInv ==
  ASSUME IInv, Run PROVE IInv'
<1>1. ASSUME NEW c \in Client, Register(c) PROVE IInv'
  BY <1>1 DEF IInv, RunNeverPanics, Register, channels
<1>2. ASSUME NEW c \in Client, Unregister(c) PROVE IInv'
  BY <1>2 DEF IInv, RunNeverPanics, Unregister, CloseChannels
<1>3. ASSUME Deliver PROVE IInv'
  <2>1. PICK dead \in SUBSET clients :
          clients' = clients \ dead /\ CloseChannels(dead)
    BY <1>3 DEF Deliver
  <2>2. dead \cap closed = {}
    BY <2>1 DEF IInv, RunNeverPanics
  <2>3. closed' = closed \cup dead /\ panic' = panic /\ reader' = reader
    BY <1>3, <2>1, <2>2 DEF Deliver, CloseChannels
  <2>4. QED BY <2>1, <2>3 DEF IInv, RunNeverPanics
<1>4. QED BY <1>1, <1>2, <1>3 DEF Run

\* RunNeverPanics for every number of clients, events and capacities.
THEOREM EventLoopNeverPanics == Spec => []RunNeverPanics
<1>1. IInv /\ [Next]_vars => IInv'
  <2>1. ASSUME IInv, UNCHANGED vars PROVE IInv'
    BY <2>1 DEF IInv, RunNeverPanics, vars, channels
  <2>2. QED BY <2>1, OthersKeepIInv, RunKeepsIInv DEF Next
<1>2. IInv => RunNeverPanics
  BY DEF IInv
<1>3. QED BY InitIInv, <1>1, <1>2, PTL DEF Spec

-----------------------------------------------------------------------------
(* What a queue of messages carries *)

LEMMA AppendCarries ==
  ASSUME NEW s \in Seq(Message), NEW m \in Message
  PROVE  /\ Append(s, m) \in Seq(Message) /\ Len(Append(s, m)) = Len(s) + 1
         /\ EventsOf(s) \subseteq EventsOf(Append(s, m))
         /\ {m.ev} \ {Nobody} \subseteq EventsOf(Append(s, m))
<1> DEFINE t == Append(s, m)
<1>1. t \in Seq(Message) /\ Len(t) = Len(s) + 1 /\ DOMAIN t = 1 .. Len(s) + 1 /\ Len(s) \in Nat
  OBVIOUS
<1>2. t[Len(s) + 1] = m /\ \A i \in DOMAIN s : i \in DOMAIN t /\ t[i] = s[i]
  BY <1>1
<1>3. Len(s) + 1 \in DOMAIN t
  BY <1>1
<1> HIDE DEF t
<1>4. EventsOf(s) \subseteq EventsOf(t)
  BY <1>2 DEF EventsOf
<1>5. {m.ev} \ {Nobody} \subseteq EventsOf(t)
  BY <1>2, <1>3 DEF EventsOf
<1>6. QED BY <1>1, <1>4, <1>5 DEF t

LEMMA TailCarries ==
  ASSUME NEW s \in Seq(Message), s # <<>>
  PROVE  /\ Tail(s) \in Seq(Message) /\ Len(Tail(s)) = Len(s) - 1 /\ Len(s) > 0
         /\ Head(s) \in Message /\ Head(s) = s[1]
         /\ \A i \in DOMAIN Tail(s) : i + 1 \in DOMAIN s /\ Tail(s)[i] = s[i + 1]
         /\ EventsOf(s) \subseteq EventsOf(Tail(s)) \cup ({Head(s).ev} \ {Nobody})
<1> DEFINE t == Tail(s)
<1>1. /\ t \in Seq(Message) /\ Len(t) = Len(s) - 1 /\ Len(s) > 0 /\ DOMAIN t = 1 .. Len(s) - 1
      /\ Head(s) = s[1] /\ Head(s) \in Message /\ Len(s) \in Nat /\ DOMAIN s = 1 .. Len(s)
  OBVIOUS
<1>2. \A i \in 1 .. Len(s) - 1 : t[i] = s[i + 1]
  OBVIOUS
<1> HIDE DEF t
<1>3. ASSUME NEW i \in DOMAIN s PROVE i = 1 \/ \E j \in DOMAIN t : s[i] = t[j]
  <2>1. CASE i # 1
    <3>1. i - 1 \in 1 .. Len(s) - 1 /\ t[i - 1] = s[i]
      BY <1>1, <1>2, <1>3, <2>1
    <3>2. QED BY <1>1, <3>1
  <2>2. QED BY <2>1
<1>4. EventsOf(s) \subseteq EventsOf(t) \cup ({Head(s).ev} \ {Nobody})
  BY <1>1, <1>3 DEF EventsOf
<1>5. \A i \in DOMAIN t : i + 1 \in DOMAIN s /\ t[i] = s[i + 1]
  BY <1>1, <1>2
<1>6. QED BY <1>1, <1>4, <1>5 DEF t

LEMMA SuffixCarries ==
  ASSUME NEW s \in Seq(Message), NEW t \in Seq(Message)
  PROVE  t \o s \in Seq(Message) /\ EventsOf(s) \subseteq EventsOf(t \o s)
<1>1. /\ t \o s \in Seq(Message) /\ Len(t) \in Nat /\ DOMAIN s = 1 .. Len(s)
      /\ DOMAIN (t \o s) = 1 .. Len(t) + Len(s) /\ Len(s) \in Nat
  OBVIOUS
<1>2. \A i \in DOMAIN s : Len(t) + i \in DOMAIN (t \o s) /\ (t \o s)[Len(t) + i] = s[i]
  BY <1>1
<1>3. EventsOf(s) \subseteq EventsOf(t \o s)
  BY <1>2 DEF EventsOf
<1>4. QED BY <1>1, <1>3

LEMMA CarriesEvents ==
  ASSUME NEW s \in Seq(Message) PROVE EventsOf(s) \subseteq Event
<1>1. \A i \in DOMAIN s : s[i] \in Message
  OBVIOUS
<1>2. QED BY <1>1 DEF EventsOf, Message

-----------------------------------------------------------------------------
(* Types *)

LEMMA InitTyped == Init => TypeOK
<1> SUFFICES ASSUME Init PROVE TypeOK
  OBVIOUS
<1>1. <<>> \in Seq(Event) /\ <<>> \in Seq(Message) /\ Len(<<>>) = 0
  OBVIOUS
<1>2. Quiet \in [at : {"none", "query", "stats", "send"}, todo : Seq(Message)]
  BY <1>1 DEF Quiet
<1>3. Len(queue) <= BroadcastCap /\ \A c \in Client : Len(send[c]) <= SendCap
  BY <1>1, HubConstants DEF Init
<1>4. QED BY <1>1, <1>2, <1>3, HubConstants DEF Init, TypeOK

LEMMA RecordersTyped == ASSUME TypeOK, Recorders PROVE TypeOK'
<1>1. ASSUME NEW e \in Event, Insert(e) PROVE TypeOK'
  <2>0. rows \in Seq(Event) /\ (rows' = Append(rows, e) \/ rows' = rows)
    BY <1>1 DEF TypeOK, Insert
  <2>1. rows' \in Seq(Event)
    BY <2>0
  <2>2. QED BY <1>1, <2>1 DEF TypeOK, Insert, channels
<1>2. ASSUME NEW e \in Event, BroadcastEvent(e) PROVE TypeOK'
  <2>1. Live(e) \in Message
    BY DEF Live, Message
  <2>0. /\ queue \in Seq(Message) /\ Len(queue) <= BroadcastCap /\ Len(queue) \in Nat
        /\ queue' = queue \/ (Len(queue) < BroadcastCap /\ queue' = Append(queue, Live(e)))
    BY <1>2 DEF TypeOK, BroadcastEvent, QueueHasRoom
  <2>2. queue' \in Seq(Message) /\ Len(queue') <= BroadcastCap
    BY <2>0, <2>1, AppendCarries, HubConstants
  <2>3. dropped' \subseteq Event
    BY <1>2 DEF TypeOK, BroadcastEvent
  <2>4. QED BY <1>2, <2>2, <2>3 DEF TypeOK, BroadcastEvent, channels
<1>3. CASE BroadcastOther
  <2>1. Other \in Message
    BY DEF Other, Message
  <2>2. queue' \in Seq(Message) /\ Len(queue') <= BroadcastCap
    BY <1>3, <2>1, AppendCarries, HubConstants DEF TypeOK, BroadcastOther, QueueHasRoom
  <2>3. others' \in 0 .. MaxOther
    BY <1>3, HubConstants DEF TypeOK, BroadcastOther
  <2>4. QED BY <1>3, <2>2, <2>3 DEF TypeOK, BroadcastOther, channels
<1>4. QED BY <1>1, <1>2, <1>3 DEF Recorders

LEMMA PruneTyped ==
  ASSUME TypeOK, Prune
  PROVE  TypeOK' /\ Recorded' \subseteq Recorded
<1>1. PICK n \in 1 .. Len(rows) : rows' = SubSeq(rows, n + 1, Len(rows))
  BY DEF Prune
<1>2. rows \in Seq(Event) /\ Len(rows) \in Nat
  BY DEF TypeOK
<1>3. rows' \in Seq(Event) /\ Len(rows') = Len(rows) - n
  BY <1>1, <1>2
<1>4. \A i \in DOMAIN rows' : n + i \in DOMAIN rows /\ rows'[i] = rows[n + i]
  BY <1>1, <1>2, <1>3
<1>5. QED BY <1>3, <1>4 DEF TypeOK, Prune, Recorded, channels

LEMMA RunTyped == ASSUME TypeOK, Run PROVE TypeOK'
<1>1. ASSUME NEW c \in Client, Register(c) PROVE TypeOK'
  <2>1. replay' \in [Client -> [at : {"none", "query", "stats", "send"}, todo : Seq(Message)]]
    BY <1>1 DEF TypeOK, Register
  <2>2. QED BY <1>1, <2>1 DEF TypeOK, Register, channels
<1>2. ASSUME NEW c \in Client, Unregister(c) PROVE TypeOK'
  BY <1>2 DEF TypeOK, Unregister, CloseChannels
<1>3. CASE Deliver
  <2>1. PICK dead \in SUBSET clients :
          /\ dead = {c \in clients : Len(send[c]) >= SendCap}
          /\ send' = [c \in Client |-> IF c \in clients \ dead
                                       THEN Append(send[c], Head(queue)) ELSE send[c]]
          /\ clients' = clients \ dead /\ CloseChannels(dead)
    BY <1>3 DEF Deliver
  <2>2. queue' = Tail(queue) /\ queue # <<>>
    BY <1>3 DEF Deliver
  <2>3. queue' \in Seq(Message) /\ Len(queue') <= BroadcastCap /\ Head(queue) \in Message
    BY <2>2, TailCarries, HubConstants DEF TypeOK
  <2>4. ASSUME NEW c \in Client PROVE send'[c] \in Seq(Message) /\ Len(send'[c]) <= SendCap
    BY <2>1, <2>3, AppendCarries, HubConstants DEF TypeOK
  <2>5. send' \in [Client -> Seq(Message)]
    BY <2>1, <2>4
  <2>6. closed' \subseteq Client /\ panic' \in {"none", "run", "replay"} /\ clients' \subseteq Client
    BY <2>1 DEF TypeOK, CloseChannels
  <2>7. QED BY <1>3, <2>3, <2>4, <2>5, <2>6 DEF TypeOK, Deliver
<1>4. QED BY <1>1, <1>2, <1>3 DEF Run

\* What ReplayQuery lists of the table.
Recent == LET first == IF Len(rows) > HistoryLimit THEN Len(rows) - HistoryLimit + 1 ELSE 1 IN
          [i \in 1 .. Len(rows) + 1 - first |-> Past(rows[first + i - 1])]

LEMMA RecentIs ==
  ASSUME TypeOK
  PROVE  Recent \in Seq(Message) /\ \A i \in DOMAIN Recent : Recent[i].kind = "row"
<1>1. rows \in Seq(Event) /\ Len(rows) \in Nat /\ DOMAIN rows = 1 .. Len(rows)
  BY DEF TypeOK
<1> DEFINE first == IF Len(rows) > HistoryLimit THEN Len(rows) - HistoryLimit + 1 ELSE 1
           Row(i) == Past(rows[first + i - 1])
<1>2. Recent = [i \in 1 .. Len(rows) + 1 - first |-> Row(i)] /\ first \in 1 .. Len(rows) + 1
  BY <1>1, HubConstants DEF Recent
<1> HIDE DEF first
<1>3. ASSUME NEW i \in 1 .. Len(rows) + 1 - first
      PROVE  Row(i) \in Message /\ Row(i).kind = "row"
  <2>1. first + i - 1 \in DOMAIN rows
    BY <1>1, <1>2
  <2>2. rows[first + i - 1] \in Event
    BY <1>1, <2>1
  <2>3. QED BY <2>2 DEF Past, Message
<1>4. Len(rows) + 1 - first \in Nat
  BY <1>1, <1>2
<1> HIDE DEF Row
<1>5. QED BY <1>2, <1>3, <1>4

LEMMA ReplaysTyped == ASSUME TypeOK, Replays PROVE TypeOK'
<1> DEFINE Reading == [at : {"none", "query", "stats", "send"}, todo : Seq(Message)]
<1>0. Quiet \in Reading /\ Recorded \subseteq Event
  BY DEF Quiet, Recorded, TypeOK
<1>1. ASSUME NEW c \in Client, ReplayQuery(c) PROVE TypeOK'
  <2>1. PICK q \in Reading, lost \in SUBSET Event :
          replay' = [replay EXCEPT ![c] = q] /\ cut' = [cut EXCEPT ![c] = lost]
    <3>1. [at |-> "stats", todo |-> Recent] \in Reading
      BY RecentIs
    <3>2. \/ replay' = [replay EXCEPT ![c] = IF rows = <<>> THEN Quiet ELSE [at |-> "stats", todo |-> Recent]]
             /\ cut' = [cut EXCEPT ![c] = Recorded \ EventsOf(Recent)]
          \/ replay' = [replay EXCEPT ![c] = Quiet] /\ cut' = [cut EXCEPT ![c] = Recorded]
      BY <1>1 DEF ReplayQuery, Recent
    <3>3. QED BY <1>0, <3>1, <3>2
  <2>2. QED BY <1>1, <2>1 DEF TypeOK, ReplayQuery, channels
<1>2. ASSUME NEW c \in Client, ReplayStats(c) PROVE TypeOK'
  <2>1. PICK totals \in {<<Other, Other>>, <<Other>>, <<>>} :
          replay' = [replay EXCEPT ![c] = [at |-> "send", todo |-> totals \o replay[c].todo]]
    BY <1>2 DEF ReplayStats, TypeOK
  <2>2. totals \in Seq(Message) /\ replay[c].todo \in Seq(Message)
    <3>1. Other \in Message
      BY DEF Other, Message
    <3>2. <<Other, Other>> \in Seq(Message) /\ <<Other>> \in Seq(Message) /\ <<>> \in Seq(Message)
      BY <3>1
    <3>3. QED BY <2>1, <3>2 DEF TypeOK
  <2>3. [at |-> "send", todo |-> totals \o replay[c].todo] \in Reading
    BY <2>2, SuffixCarries
  <2>4. QED BY <1>2, <2>1, <2>3 DEF TypeOK, ReplayStats, channels
<1>3. ASSUME NEW c \in Client, ReplaySend(c) PROVE TypeOK'
  <2>0. /\ replay \in [Client -> Reading] /\ send \in [Client -> Seq(Message)]
        /\ \A d \in Client : Len(send[d]) <= SendCap
        /\ cut \in [Client -> SUBSET Event]
        /\ replay[c].todo \in Seq(Message) /\ send[c] \in Seq(Message) /\ Len(send[c]) \in Nat
    BY DEF TypeOK
  <2>1. CASE replay[c].todo = <<>>
    BY <1>0, <1>3, <2>1 DEF TypeOK, ReplaySend
  <2>2. CASE replay[c].todo # <<>>
    <3> DEFINE m == Head(replay[c].todo)
    <3>1. m \in Message /\ Tail(replay[c].todo) \in Seq(Message)
      BY <2>0, <2>2, TailCarries
    <3>2. \/ replay' = replay
          \/ replay' = [replay EXCEPT ![c] = Quiet]
          \/ replay' = [replay EXCEPT ![c].todo = Tail(replay[c].todo)]
      BY <1>3, <2>2 DEF ReplaySend
    <3>3. replay' \in [Client -> Reading]
      <4>1. [replay[c] EXCEPT !.todo = Tail(replay[c].todo)] \in Reading
        BY <2>0, <3>1
      <4>2. \/ replay' = replay
            \/ \E q \in Reading : replay' = [replay EXCEPT ![c] = q]
        BY <1>0, <3>2, <4>1
      <4> HIDE DEF Reading
      <4>3. QED BY <2>0, <4>2
    <3>4. send' = send \/ (Len(send[c]) < SendCap /\ send' = [send EXCEPT ![c] = Append(send[c], m)])
      BY <1>3, <2>2 DEF ReplaySend
    <3> HIDE DEF m
    <3>5. Append(send[c], m) \in Seq(Message) /\ Len(Append(send[c], m)) = Len(send[c]) + 1
      BY <2>0, <3>1, AppendCarries
    <3>6. send' \in [Client -> Seq(Message)] /\ \A d \in Client : Len(send'[d]) <= SendCap
      <4>1. CASE send' = send
        BY <2>0, <4>1
      <4>2. CASE Len(send[c]) < SendCap /\ send' = [send EXCEPT ![c] = Append(send[c], m)]
        <5>1. send'[c] = Append(send[c], m) /\ \A d \in Client \ {c} : send'[d] = send[d]
          BY <2>0, <4>2
        <5>2. Len(send'[c]) <= SendCap
          BY <2>0, <3>5, <4>2, <5>1, HubConstants
        <5>3. send' \in [Client -> Seq(Message)]
          BY <2>0, <3>5, <4>2
        <5>4. QED BY <2>0, <5>1, <5>2, <5>3
      <4>3. QED BY <3>4, <4>1, <4>2
    <3>7. cut' = cut \/ cut' = [cut EXCEPT ![c] = cut[c] \cup EventsOf(replay[c].todo)]
      BY <1>3, <2>2 DEF ReplaySend
    <3>8. cut' \in [Client -> SUBSET Event]
      <4>1. EventsOf(replay[c].todo) \subseteq Event
        BY <2>0, CarriesEvents
      <4>2. cut[c] \cup EventsOf(replay[c].todo) \in SUBSET Event
        BY <2>0, <4>1
      <4>3. QED BY <2>0, <3>7, <4>2
    <3>9. panic' \in {"none", "run", "replay"}
      BY <1>3, <2>2 DEF TypeOK, ReplaySend
    <3>10. QED BY <1>3, <3>3, <3>6, <3>8, <3>9 DEF TypeOK, ReplaySend
  <2>3. QED BY <2>1, <2>2
<1>4. QED BY <1>1, <1>2, <1>3 DEF Replays

LEMMA PumpsTyped == ASSUME TypeOK, Pumps PROVE TypeOK'
<1>1. ASSUME NEW c \in Client, WritePump(c) PROVE TypeOK'
  <2>1. send[c] \in Seq(Message) /\ send[c] # <<>> /\ Len(send[c]) <= SendCap
    BY <1>1 DEF TypeOK, WritePump
  <2>2. Tail(send[c]) \in Seq(Message) /\ Len(Tail(send[c])) <= SendCap /\ Head(send[c]) \in Message
    BY <2>1, TailCarries, HubConstants
  <2>3. {Head(send[c]).ev} \ {Nobody} \subseteq Event
    BY <2>2 DEF Message
  <2>4. send' = [send EXCEPT ![c] = Tail(send[c])]
        /\ shown' = [shown EXCEPT ![c] = shown[c] \cup ({Head(send[c]).ev} \ {Nobody})]
    BY <1>1 DEF WritePump
  <2>5. send' \in [Client -> Seq(Message)] /\ shown' \in [Client -> SUBSET Event]
    BY <2>2, <2>3, <2>4 DEF TypeOK
  <2>6. \A d \in Client : Len(send'[d]) <= SendCap
    BY <2>2, <2>4 DEF TypeOK
  <2>7. QED BY <1>1, <2>5, <2>6 DEF TypeOK, WritePump
<1>2. ASSUME NEW c \in Client, WriterStops(c) \/ ReaderStops(c) PROVE TypeOK'
  BY <1>2 DEF TypeOK, WriterStops, ReaderStops, channels
<1>3. QED BY <1>1, <1>2 DEF Pumps

-----------------------------------------------------------------------------
(* No gap.  What a replay has still to send are rows, or totals that carry no *)
(* event: only a row it gives up is a loss, and that one is counted as cut.  *)

RowOrTotal(m) == m.kind = "row" \/ m.ev = Nobody
OnlyRows == \A c \in Client : \A i \in DOMAIN replay[c].todo : RowOrTotal(replay[c].todo[i])

FeedInv == TypeOK /\ OnlyRows /\ NoGap

Inserted == {e \in Event : recorder[e] = "inserted"}
Reached(c) == shown[c] \cup Undelivered(c) \cup dropped \cup cut[c]

LEMMA InitFeed == Init => FeedInv
<1> SUFFICES ASSUME Init PROVE FeedInv
  OBVIOUS
<1>1. OnlyRows
  BY DEF Init, Quiet, OnlyRows
<1>2. QED BY <1>1, InitTyped DEF Init, FeedInv, NoGap

LEMMA RecordersKeepFeed == ASSUME FeedInv, Recorders PROVE FeedInv'
<1>0. TypeOK /\ TypeOK'
  BY RecordersTyped DEF FeedInv
<1>1. OnlyRows' /\ UNCHANGED <<clients, send, replay, shown, cut>>
  BY DEF Recorders, Insert, BroadcastEvent, BroadcastOther, FeedInv, OnlyRows, RowOrTotal, channels
<1>2. \A e \in Recorded' : e \in Recorded \/ e \in Inserted'
  <2>1. ASSUME NEW e \in Event, Insert(e) PROVE \A f \in Recorded' : f \in Recorded \/ f \in Inserted'
    <3>1. rows \in Seq(Event) /\ (rows' = Append(rows, e) \/ rows' = rows) /\ e \in Inserted'
      BY <1>0, <2>1 DEF TypeOK, Insert, Inserted
    <3>2. \A i \in DOMAIN rows' : rows'[i] = e \/ (i \in DOMAIN rows /\ rows'[i] = rows[i])
      BY <3>1
    <3>3. QED BY <3>1, <3>2 DEF Recorded
  <2>2. CASE rows' = rows
    BY <2>2 DEF Recorded
  <2>3. QED BY <2>1, <2>2 DEF Recorders, BroadcastEvent, BroadcastOther
<1>3. Inserted \cup EventsOf(queue) \cup dropped \subseteq Inserted' \cup EventsOf(queue') \cup dropped'
  <2>1. ASSUME NEW e \in Event, Insert(e) PROVE Inserted \subseteq Inserted' /\ UNCHANGED <<queue, dropped>>
    BY <1>0, <2>1 DEF TypeOK, Insert, Inserted
  <2>2. ASSUME NEW e \in Event, BroadcastEvent(e)
        PROVE  /\ Inserted \subseteq Inserted' \cup {e} /\ e \in EventsOf(queue') \cup dropped'
               /\ EventsOf(queue) \subseteq EventsOf(queue') /\ dropped \subseteq dropped'
    <3>1. Inserted \subseteq Inserted' \cup {e}
      BY <1>0, <2>2 DEF TypeOK, BroadcastEvent, Inserted
    <3>2. CASE queue' = Append(queue, Live(e)) /\ dropped' = dropped
      <4>1. Live(e) \in Message /\ Live(e).ev = e /\ e # Nobody /\ queue \in Seq(Message)
        BY <1>0, HubConstants DEF Live, Message, TypeOK
      <4>2. EventsOf(queue) \subseteq EventsOf(queue') /\ {Live(e).ev} \ {Nobody} \subseteq EventsOf(queue')
        BY <3>2, <4>1, AppendCarries
      <4>3. QED BY <3>1, <3>2, <4>1, <4>2
    <3>3. CASE queue' = queue /\ dropped' = dropped \cup {e}
      BY <3>1, <3>3
    <3>4. QED BY <2>2, <3>2, <3>3 DEF BroadcastEvent
  <2>3. CASE BroadcastOther
    <3>1. Other \in Message /\ queue \in Seq(Message) /\ Inserted' = Inserted
      BY <1>0, <2>3 DEF Other, Message, TypeOK, BroadcastOther, Inserted
    <3>2. (queue' = queue \/ queue' = Append(queue, Other)) /\ dropped' = dropped
      BY <2>3 DEF BroadcastOther
    <3>3. QED BY <3>1, <3>2, AppendCarries
  <2>4. QED BY <2>1, <2>2, <2>3 DEF Recorders
<1>4. \A c \in Client : Reached(c) \cup Inserted' \subseteq Reached(c)'
  BY <1>1, <1>3 DEF Reached, Undelivered, Inserted
<1>5. NoGap'
  BY <1>0, <1>1, <1>2, <1>4 DEF FeedInv, NoGap, Reached, TypeOK
<1>6. QED BY <1>0, <1>1, <1>5 DEF FeedInv

LEMMA PruneKeepsFeed == ASSUME FeedInv, Prune PROVE FeedInv'
<1>1. TypeOK' /\ Recorded' \subseteq Recorded
  BY PruneTyped DEF FeedInv
<1>2. UNCHANGED <<recorder, queue, clients, send, replay, shown, dropped, cut>>
  BY DEF Prune, channels
<1>3. OnlyRows'
  BY <1>2 DEF FeedInv, OnlyRows
<1>4. NoGap'
  BY <1>1, <1>2 DEF FeedInv, NoGap, Undelivered
<1>5. QED BY <1>1, <1>3, <1>4 DEF FeedInv

LEMMA RunKeepsFeed == ASSUME FeedInv, Run PROVE FeedInv'
<1>0. TypeOK /\ TypeOK'
  BY RunTyped DEF FeedInv
<1>1. ASSUME NEW c \in Client, Register(c) PROVE FeedInv'
  <2>1. /\ replay' = [replay EXCEPT ![c].at = "query"] /\ clients' = clients \cup {c}
        /\ UNCHANGED <<recorder, rows, queue, send, shown, dropped, cut>>
    BY <1>1 DEF Register, channels
  <2>2. /\ \A d \in Client : replay'[d].todo = replay[d].todo
        /\ \A d \in Client \ {c} : replay'[d] = replay[d]
        /\ replay'[c].at = "query"
    BY <1>0, <2>1 DEF TypeOK
  <2>3. OnlyRows'
    BY <2>2 DEF FeedInv, OnlyRows
  <2>4. \A d \in Client : Reached(d)' = Reached(d)
    BY <2>1, <2>2 DEF Reached, Undelivered
  <2>5. NoGap'
    BY <1>0, <2>1, <2>2, <2>4 DEF FeedInv, NoGap, Reached, Recorded, TypeOK
  <2>6. QED BY <1>0, <2>3, <2>5 DEF FeedInv
<1>2. ASSUME NEW c \in Client, Unregister(c) PROVE FeedInv'
  <2>1. clients' \subseteq clients /\ UNCHANGED <<recorder, rows, queue, send, replay, shown, dropped, cut>>
    BY <1>2 DEF Unregister
  <2>2. OnlyRows' /\ NoGap'
    BY <2>1 DEF FeedInv, OnlyRows, NoGap, Undelivered, Recorded
  <2>3. QED BY <1>0, <2>2 DEF FeedInv
<1>3. CASE Deliver
  <2>1. PICK dead \in SUBSET clients :
          /\ send' = [c \in Client |-> IF c \in clients \ dead
                                       THEN Append(send[c], Head(queue)) ELSE send[c]]
          /\ clients' = clients \ dead
    BY <1>3 DEF Deliver
  <2>2. /\ queue' = Tail(queue) /\ queue # <<>> /\ queue \in Seq(Message)
        /\ UNCHANGED <<recorder, rows, replay, shown, dropped, cut>>
    BY <1>0, <1>3 DEF Deliver, TypeOK
  <2>3. EventsOf(queue) \subseteq EventsOf(queue') \cup ({Head(queue).ev} \ {Nobody}) /\ Head(queue) \in Message
    BY <2>2, TailCarries
  <2>4. ASSUME NEW c \in clients'
        PROVE  EventsOf(send[c]) \cup ({Head(queue).ev} \ {Nobody}) \subseteq EventsOf(send'[c])
    BY <1>0, <2>1, <2>3, AppendCarries DEF TypeOK
  <2>5. \A c \in clients' : Reached(c) \subseteq Reached(c)'
    BY <2>2, <2>3, <2>4 DEF Reached, Undelivered
  <2>6. NoGap'
    BY <2>1, <2>2, <2>5 DEF FeedInv, NoGap, Reached, Recorded
  <2>7. QED BY <1>0, <2>2, <2>6 DEF FeedInv, OnlyRows
<1>4. QED BY <1>1, <1>2, <1>3 DEF Run

LEMMA ReplaysKeepFeed == ASSUME FeedInv, Replays PROVE FeedInv'
<1>0. TypeOK /\ TypeOK'
  BY ReplaysTyped DEF FeedInv
<1>1. UNCHANGED <<recorder, rows, queue, clients, shown, dropped>>
  BY DEF Replays, ReplayQuery, ReplayStats, ReplaySend
<1>2. ASSUME NEW c \in Client,
             \A d \in Client \ {c} : replay'[d] = replay[d] /\ cut'[d] = cut[d] /\ send'[d] = send[d],
             \A i \in DOMAIN replay'[c].todo : RowOrTotal(replay'[c].todo[i]),
             \/ Recorded \subseteq EventsOf(replay'[c].todo) \cup cut'[c]
             \/ /\ replay[c].at # "query"
                /\ EventsOf(send[c]) \cup EventsOf(replay[c].todo) \cup cut[c]
                     \subseteq EventsOf(send'[c]) \cup EventsOf(replay'[c].todo) \cup cut'[c]
      PROVE  FeedInv'
  <2>1. OnlyRows'
    BY <1>2 DEF FeedInv, OnlyRows, RowOrTotal
  <2>2. \A d \in Client \ {c} : Reached(d)' = Reached(d) /\ replay'[d].at = replay[d].at
    BY <1>1, <1>2 DEF Reached, Undelivered
  <2>3. \/ Recorded \subseteq Reached(c)'
        \/ replay[c].at # "query" /\ Reached(c) \subseteq Reached(c)'
    BY <1>1, <1>2 DEF Reached, Undelivered
  <2>4. Recorded' = Recorded
    BY <1>1 DEF Recorded
  <2>5. NoGap'
    BY <1>0, <1>1, <2>2, <2>3, <2>4 DEF FeedInv, NoGap, Reached, TypeOK
  <2>6. QED BY <1>0, <2>1, <2>5 DEF FeedInv
<1>3. ASSUME NEW c \in Client, ReplayQuery(c) PROVE FeedInv'
  <2>1. \/ /\ rows = <<>> /\ replay' = [replay EXCEPT ![c] = Quiet]
        \/ /\ replay' = [replay EXCEPT ![c] = [at |-> "stats", todo |-> Recent]]
           /\ cut' = [cut EXCEPT ![c] = Recorded \ EventsOf(Recent)]
        \/ replay' = [replay EXCEPT ![c] = Quiet] /\ cut' = [cut EXCEPT ![c] = Recorded]
    BY <1>3 DEF ReplayQuery, Recent
  <2>2. \A d \in Client \ {c} : replay'[d] = replay[d] /\ cut'[d] = cut[d] /\ send'[d] = send[d]
    BY <1>0, <1>3 DEF TypeOK, ReplayQuery, channels
  <2>3. CASE rows = <<>> /\ replay' = [replay EXCEPT ![c] = Quiet]
    <3>1. replay'[c].todo = <<>> /\ Recorded = {}
      BY <1>0, <2>3 DEF TypeOK, Quiet, Recorded
    <3>2. QED BY <1>2, <2>2, <3>1
  <2>4. CASE /\ replay' = [replay EXCEPT ![c] = [at |-> "stats", todo |-> Recent]]
             /\ cut' = [cut EXCEPT ![c] = Recorded \ EventsOf(Recent)]
    <3>1. replay'[c].todo = Recent /\ cut'[c] = Recorded \ EventsOf(Recent)
      BY <1>0, <2>4 DEF TypeOK
    <3>2. \A i \in DOMAIN Recent : RowOrTotal(Recent[i])
      BY <1>0, RecentIs DEF RowOrTotal
    <3>3. QED BY <1>2, <2>2, <3>1, <3>2
  <2>5. CASE replay' = [replay EXCEPT ![c] = Quiet] /\ cut' = [cut EXCEPT ![c] = Recorded]
    <3>1. replay'[c].todo = <<>> /\ cut'[c] = Recorded
      BY <1>0, <2>5 DEF TypeOK, Quiet
    <3>2. QED BY <1>2, <2>2, <3>1
  <2>6. QED BY <2>1, <2>3, <2>4, <2>5
<1>4. ASSUME NEW c \in Client, ReplayStats(c) PROVE FeedInv'
  <2>1. PICK totals \in {<<Other, Other>>, <<Other>>, <<>>} :
          replay' = [replay EXCEPT ![c] = [at |-> "send", todo |-> totals \o replay[c].todo]]
    BY <1>4 DEF ReplayStats, TypeOK
  <2> DEFINE todo == replay[c].todo
  <2>2. Other \in Message /\ Other.ev = Nobody
    BY DEF Other, Message
  <2>3. totals \in Seq(Message) /\ \A i \in DOMAIN totals : totals[i] = Other
    <3>1. CASE totals = <<Other, Other>>
      BY <2>2, <3>1
    <3>2. CASE totals = <<Other>>
      BY <2>2, <3>2
    <3>3. CASE totals = <<>>
      BY <3>3
    <3>4. QED BY <2>1, <3>1, <3>2, <3>3
  <2>4. todo \in Seq(Message) /\ \A i \in DOMAIN todo : RowOrTotal(todo[i])
    BY <1>0 DEF FeedInv, OnlyRows, TypeOK
  <2>5. replay'[c].todo = totals \o todo
    BY <1>0, <2>1 DEF TypeOK
  <2>6. replay[c].at # "query" /\ UNCHANGED <<send, cut>>
        /\ \A d \in Client \ {c} : replay'[d] = replay[d]
    BY <1>0, <1>4, <2>1 DEF ReplayStats, TypeOK, channels
  <2> HIDE DEF todo
  <2>7. EventsOf(todo) \subseteq EventsOf(totals \o todo)
    BY <2>3, <2>4, SuffixCarries
  <2>8. \A i \in DOMAIN (totals \o todo) :
          \/ i \in DOMAIN totals /\ (totals \o todo)[i] = totals[i]
          \/ i - Len(totals) \in DOMAIN todo /\ (totals \o todo)[i] = todo[i - Len(totals)]
    BY <2>3, <2>4
  <2>9. \A i \in DOMAIN (totals \o todo) : RowOrTotal((totals \o todo)[i])
    BY <2>2, <2>3, <2>4, <2>8 DEF RowOrTotal
  <2>10. QED BY <1>2, <2>5, <2>6, <2>7, <2>9 DEF todo
<1>5. ASSUME NEW c \in Client, ReplaySend(c) PROVE FeedInv'
  <2> DEFINE todo == replay[c].todo
  <2>1. /\ replay[c].at # "query" /\ todo \in Seq(Message) /\ send[c] \in Seq(Message)
        /\ \A i \in DOMAIN todo : RowOrTotal(todo[i])
    BY <1>0, <1>5 DEF FeedInv, OnlyRows, TypeOK, ReplaySend
  <2>2. \A d \in Client \ {c} : replay'[d] = replay[d] /\ cut'[d] = cut[d] /\ send'[d] = send[d]
    BY <1>0, <1>5 DEF TypeOK, ReplaySend
  <2>3. CASE todo = <<>>
    <3>1. replay'[c].todo = <<>> /\ UNCHANGED <<send, cut>>
      BY <1>0, <1>5, <2>3 DEF TypeOK, ReplaySend, Quiet
    <3>2. QED BY <1>2, <2>1, <2>2, <2>3, <3>1
  <2>4. CASE todo # <<>>
    <3> DEFINE m == Head(todo)
    <3>1. \/ UNCHANGED <<replay, send, cut>>
          \/ /\ send' = [send EXCEPT ![c] = Append(send[c], m)]
             /\ replay' = [replay EXCEPT ![c].todo = Tail(todo)] /\ cut' = cut
          \/ /\ m.kind = "row" /\ send' = send
             /\ replay' = [replay EXCEPT ![c] = Quiet]
             /\ cut' = [cut EXCEPT ![c] = cut[c] \cup EventsOf(todo)]
          \/ /\ m.kind # "row" /\ send' = send
             /\ replay' = [replay EXCEPT ![c].todo = Tail(todo)] /\ cut' = cut
      BY <1>5, <2>4 DEF ReplaySend
    <3>2. \/ replay'[c] = replay[c] /\ UNCHANGED <<send, cut>>
          \/ send'[c] = Append(send[c], m) /\ replay'[c].todo = Tail(todo) /\ cut' = cut
          \/ /\ send' = send /\ replay'[c].todo = <<>> /\ cut'[c] = cut[c] \cup EventsOf(todo)
          \/ m.kind # "row" /\ send' = send /\ replay'[c].todo = Tail(todo) /\ cut' = cut
      <4>0. /\ replay \in [Client -> [at : {"none", "query", "stats", "send"}, todo : Seq(Message)]]
            /\ send \in [Client -> Seq(Message)] /\ cut \in [Client -> SUBSET Event]
        BY <1>0 DEF TypeOK
      <4> HIDE DEF m
      <4>1. CASE /\ send' = [send EXCEPT ![c] = Append(send[c], m)]
                 /\ replay' = [replay EXCEPT ![c].todo = Tail(todo)] /\ cut' = cut
        BY <4>0, <4>1
      <4>2. CASE /\ m.kind = "row" /\ send' = send
                 /\ replay' = [replay EXCEPT ![c] = Quiet]
                 /\ cut' = [cut EXCEPT ![c] = cut[c] \cup EventsOf(todo)]
        <5>1. replay'[c].todo = <<>>
          BY <4>0, <4>2 DEF Quiet
        <5>2. QED BY <4>0, <4>2, <5>1
      <4>3. CASE /\ m.kind # "row" /\ send' = send
                 /\ replay' = [replay EXCEPT ![c].todo = Tail(todo)] /\ cut' = cut
        BY <4>0, <4>3
      <4>4. CASE UNCHANGED <<replay, send, cut>>
        BY <4>4
      <4>5. QED BY <3>1, <4>1, <4>2, <4>3, <4>4
    <3>3. /\ m \in Message /\ m = todo[1] /\ 1 \in DOMAIN todo
          /\ EventsOf(todo) \subseteq EventsOf(Tail(todo)) \cup ({m.ev} \ {Nobody})
          /\ \A i \in DOMAIN Tail(todo) : i + 1 \in DOMAIN todo /\ Tail(todo)[i] = todo[i + 1]
      <4>1. 1 \in DOMAIN todo
        BY <2>1, <2>4
      <4>2. QED BY <2>1, <2>4, <4>1, TailCarries
    <3>4. \A i \in DOMAIN Tail(todo) : RowOrTotal(Tail(todo)[i])
      BY <2>1, <3>3
    <3>5. m.kind = "row" \/ m.ev = Nobody
      BY <2>1, <3>3 DEF RowOrTotal
    <3>6. EventsOf(send[c]) \cup ({m.ev} \ {Nobody}) \subseteq EventsOf(Append(send[c], m))
      BY <2>1, <3>3, AppendCarries
    <3> HIDE DEF m
    <3> HIDE DEF todo
    <3>7. \A i \in DOMAIN replay'[c].todo : RowOrTotal(replay'[c].todo[i])
      <4>1. CASE replay'[c].todo = todo
        BY <2>1, <4>1 DEF todo
      <4>2. CASE replay'[c].todo = Tail(todo)
        BY <3>4, <4>2
      <4>3. CASE replay'[c].todo = <<>>
        BY <4>3
      <4>4. QED BY <3>2, <4>1, <4>2, <4>3 DEF todo
    <3>8. EventsOf(send[c]) \cup EventsOf(todo) \cup cut[c]
            \subseteq EventsOf(send'[c]) \cup EventsOf(replay'[c].todo) \cup cut'[c]
      <4>1. CASE replay'[c] = replay[c] /\ UNCHANGED <<send, cut>>
        BY <4>1 DEF todo
      <4>2. CASE send'[c] = Append(send[c], m) /\ replay'[c].todo = Tail(todo) /\ cut' = cut
        BY <3>3, <3>6, <4>2
      <4>3. CASE send' = send /\ replay'[c].todo = <<>> /\ cut'[c] = cut[c] \cup EventsOf(todo)
        BY <4>3
      <4>4. CASE m.kind # "row" /\ send' = send /\ replay'[c].todo = Tail(todo) /\ cut' = cut
        BY <3>3, <3>5, <4>4
      <4>5. QED BY <3>2, <4>1, <4>2, <4>3, <4>4
    <3>9. QED BY <1>2, <2>1, <2>2, <3>7, <3>8 DEF todo
  <2>5. QED BY <2>3, <2>4
<1>6. QED BY <1>3, <1>4, <1>5 DEF Replays

LEMMA PumpsKeepFeed == ASSUME FeedInv, Pumps PROVE FeedInv'
<1>0. TypeOK /\ TypeOK'
  BY PumpsTyped DEF FeedInv
<1>1. UNCHANGED <<recorder, rows, queue, clients, replay, dropped, cut>>
  BY DEF Pumps, WritePump, WriterStops, ReaderStops, channels
<1>2. \A d \in Client : shown[d] \cup EventsOf(send[d]) \subseteq shown'[d] \cup EventsOf(send'[d])
  <2>1. ASSUME NEW c \in Client, WritePump(c), NEW d \in Client
        PROVE  shown[d] \cup EventsOf(send[d]) \subseteq shown'[d] \cup EventsOf(send'[d])
    <3>1. /\ send[c] \in Seq(Message) /\ send[c] # <<>>
          /\ send'[c] = Tail(send[c]) /\ shown'[c] = shown[c] \cup ({Head(send[c]).ev} \ {Nobody})
          /\ d # c => send'[d] = send[d] /\ shown'[d] = shown[d]
      BY <1>0, <2>1 DEF TypeOK, WritePump
    <3>2. EventsOf(send[c]) \subseteq EventsOf(Tail(send[c])) \cup ({Head(send[c]).ev} \ {Nobody})
      BY <3>1, TailCarries
    <3>3. QED BY <3>1, <3>2
  <2>2. QED BY <2>1 DEF Pumps, WriterStops, ReaderStops, channels
<1>3. \A d \in Client : Reached(d) \subseteq Reached(d)'
  BY <1>1, <1>2 DEF Reached, Undelivered
<1>4. OnlyRows' /\ Recorded' = Recorded
  BY <1>1 DEF FeedInv, OnlyRows, Recorded
<1>5. NoGap'
  BY <1>0, <1>1, <1>3, <1>4 DEF FeedInv, NoGap, Reached, TypeOK
<1>6. QED BY <1>0, <1>4, <1>5 DEF FeedInv

LEMMA FeedHolds == Spec => []FeedInv
<1>1. FeedInv /\ [Next]_vars => FeedInv'
  <2>1. ASSUME FeedInv, UNCHANGED vars PROVE FeedInv'
    BY <2>1 DEF FeedInv, TypeOK, OnlyRows, NoGap, Undelivered, Recorded, vars, channels
  <2>2. QED BY <2>1, RecordersKeepFeed, PruneKeepsFeed, RunKeepsFeed, ReplaysKeepFeed, PumpsKeepFeed DEF Next
<1>2. QED BY InitFeed, <1>1, PTL DEF Spec

(* Types of the hub's state; neither its queue nor a client's channel ever  *)
(* exceeds its capacity (hub.go, websocket.go).                             *)
THEOREM HubTypeOK == Spec => []TypeOK
<1>1. FeedInv => TypeOK
  BY DEF FeedInv
<1>2. QED BY FeedHolds, <1>1, PTL

(* For any number of clients, events, rows and capacities, whatever queries *)
(* fail: replay and live feed together leave no gap (handler.go:1022-1027). *)
THEOREM FeedLeavesNoGap == Spec => []NoGap
<1>1. FeedInv => NoGap
  BY DEF FeedInv
<1>2. QED BY FeedHolds, <1>1, PTL
=============================================================================
