------------------------------ MODULE Sessions ------------------------------
(***************************************************************************)
(* What the proxy remembers of a session: the tracker's running totals     *)
(* (tracker/session.go), the loop detector's recent prompts                *)
(* (detector/request_store.go, loop_detector.go), the row of the sessions  *)
(* table (store/db.go) and the way a request's record gets there           *)
(* (proxy/handler.go: persistAndBroadcast), through evictions, the hourly  *)
(* sweep and restarts (main.go).  Requests are the handler's goroutines;   *)
(* each goes through it once.  Money is counted in requests: a request     *)
(* that costs anything costs 1; tokens and request counts move with it.    *)
(***************************************************************************)
EXTENDS Integers, Sequences, FiniteSets, SequencesExt

CONSTANTS
  Request,          \* requests, one goroutine each
  Sid,              \* session ids, the default one included
  Topic,            \* classes of prompts that count as similar
  MaxSessions,      \* maxSize of the tracker
  MaxLoopSessions,  \* maxSessions of the request store
  MaxAge,           \* maxAge: idle time after which a session may be swept
  Window,           \* ttl of the loop detector's prompts
  PersistSlots,     \* maxPersistGoroutines
  MaxNow,           \* bound: the clock stops here
  MaxRestarts,      \* bound: restarts of the process
  None              \* nil

(* What the configuration allows, and names that are told apart *)
SessionsConstants ==
  /\ {MaxSessions, MaxLoopSessions, MaxAge, Window} \subseteq Nat \ {0}
  /\ {PersistSlots, MaxNow, MaxRestarts} \subseteq Nat
  /\ Request \cap Sid = {} /\ None \notin Request \cup Sid \cup Topic \cup Nat

VARIABLES
  now,
  restarts,
  pc,         \* where each request is in the handler
  sid,        \* its session id
  topic,      \* what its prompt is about
  held,       \* the *Session it holds
  outcome,    \* how it was answered
  fate,       \* what became of its record
  sessions,   \* SessionTracker.sessions: id -> *Session
  heap,       \* the sessions themselves: TotalCost and LastSeen
  stale,      \* what a sweep has collected: the cutoff and the ids
  recent,     \* RequestStore.sessions: id -> prompts [by, at], oldest first
  table,      \* the sessions table: id -> total_cost
  added,      \* ghost: when each request of this process stored its prompt
  dropped,    \* ghost: ids whose totals this process has thrown away
  forgotten   \* ghost: ids the request store evicted at its limit

vars == <<now, restarts, pc, sid, topic, held, outcome, fate, sessions, heap,
          stale, recent, table, added, dropped, forgotten>>

request  == <<sid, topic, outcome>>
tracker  == <<sessions, heap, dropped>>
detector == <<recent, added, forgotten>>

(* A *Session is named by the request that created it, or by its id when   *)
(* it was restored from the table.                                         *)
Object == Request \cup Sid
Live == {s \in Sid : sessions[s] # None}
Background == {r \in Request : fate[r] = "background"}
Fresh == [cost |-> 0, seen |-> now]
Unused == [cost |-> 0, seen |-> 0]

(* Go collects the sessions that neither the map nor a request refers to *)
Retained(h, ss, hs) ==
  [o \in Object |-> IF o \in Range(ss) \cup Range(hs) THEN h[o] ELSE Unused]

Init ==
  /\ now = 0 /\ restarts = 0
  /\ pc = [r \in Request |-> "idle"]
  /\ sid = [r \in Request |-> None] /\ topic = [r \in Request |-> None]
  /\ held = [r \in Request |-> None]
  /\ outcome = [r \in Request |-> "none"] /\ fate = [r \in Request |-> "none"]
  /\ table = [s \in Sid |-> None]
  /\ sessions = [s \in Sid |-> None]
  /\ heap = [o \in Object |-> Unused]
  /\ stale = None
  /\ recent = [s \in Sid |-> <<>>]
  /\ added = [r \in Request |-> None]
  /\ dropped = {} /\ forgotten = {}

-----------------------------------------------------------------------------
(* GetOrCreateSession: the fast path looks under the read lock and touches *)
(* the session after releasing it; the slow path looks again under the     *)
(* write lock, makes room and inserts.                                     *)

Arrive(r) ==
  /\ pc[r] = "idle"
  /\ \E s \in Sid :
       /\ sid' = [sid EXCEPT ![r] = s]
       /\ held' = [held EXCEPT ![r] = sessions[s]]
       /\ pc' = [pc EXCEPT ![r] = IF s \in Live THEN "touch" ELSE "create"]
  /\ UNCHANGED <<now, restarts, topic, outcome, fate, stale, table, tracker, detector>>

Touch(r) ==
  /\ pc[r] = "touch"
  /\ heap' = [heap EXCEPT ![held[r]].seen = now]
  /\ pc' = [pc EXCEPT ![r] = "prompt"]
  /\ UNCHANGED <<now, restarts, held, fate, stale, table, sessions, dropped,
                 request, detector>>

(* evictOldest(1): the session last seen longest ago; any of them on a tie *)
Oldest == {s \in Live : \A t \in Live : heap[sessions[s]].seen <= heap[sessions[t]].seen}

Victims == IF Cardinality(Live) >= MaxSessions THEN {{s} : s \in Oldest} ELSE {{}}

Found(r) ==
  /\ pc[r] = "create" /\ sid[r] \in Live
  /\ held' = [held EXCEPT ![r] = sessions[sid[r]]]
  /\ heap' = [heap EXCEPT ![sessions[sid[r]]].seen = now]
  /\ pc' = [pc EXCEPT ![r] = "prompt"]
  /\ UNCHANGED <<now, restarts, fate, stale, table, sessions, dropped, request, detector>>

(* the double check is this action's first guard *)
\* mutant: the session is created without a second look
Create_Unchecked(r) ==
  /\ pc[r] = "create"
  /\ sessions' = [sessions EXCEPT ![sid[r]] = r]
  /\ held' = [held EXCEPT ![r] = r]
  /\ heap' = Retained([heap EXCEPT ![r] = Fresh], sessions', held')
  /\ pc' = [pc EXCEPT ![r] = "prompt"]
  /\ UNCHANGED <<now, restarts, fate, stale, table, dropped, request, detector>>
Create(r) ==
  /\ pc[r] = "create" /\ sid[r] \notin Live
  /\ \E out \in Victims :
       /\ sessions' = [s \in Sid |-> IF s = sid[r] THEN r
                                     ELSE IF s \in out THEN None ELSE sessions[s]]
       /\ dropped' = dropped \cup out
  /\ held' = [held EXCEPT ![r] = r]
  /\ heap' = Retained([heap EXCEPT ![r] = Fresh], sessions', held')
  /\ pc' = [pc EXCEPT ![r] = "prompt"]
  /\ UNCHANGED <<now, restarts, fate, stale, table, request, detector>>

-----------------------------------------------------------------------------
(* DetectLoop: store the prompt, then read the session's recent ones back  *)
(* in a second critical section.                                           *)

Expired(p, t) == p.at < t - Window

(* from the first prompt on that is not expired: they are in time order *)
Trim(ps, t) ==
  SubSeq(ps, Min({i \in 1 .. Len(ps) + 1 : i \in DOMAIN ps => ~Expired(ps[i], t)}), Len(ps))

Known == {s \in Sid : recent[s] # <<>>}
Quietest == {s \in Known : \A t \in Known : Last(recent[s]).at <= Last(recent[t]).at}
LoopVictims(s) ==
  IF s \notin Known /\ Cardinality(Known) >= MaxLoopSessions
    THEN {{t} : t \in Quietest} ELSE {{}}

Add(r) ==
  /\ pc[r] = "prompt"
  /\ \E out \in LoopVictims(sid[r]), t \in Topic :
       /\ topic' = [topic EXCEPT ![r] = t]
       /\ recent' = [s \in Sid |->
            IF s = sid[r] THEN Append(Trim(recent[s], now), [by |-> r, at |-> now])
                          ELSE IF s \in out THEN <<>> ELSE recent[s]]
       /\ forgotten' = forgotten \cup out
  /\ added' = [added EXCEPT ![r] = now]
  /\ pc' = [pc EXCEPT ![r] = "compare"]
  /\ UNCHANGED <<now, restarts, sid, held, outcome, fate, stale, table, tracker>>

(* the meter-only endpoint skips the detector *)
SkipLoop(r) ==
  /\ pc[r] = "prompt"
  /\ pc' = [pc EXCEPT ![r] = "answer"]
  /\ UNCHANGED <<now, restarts, held, fate, stale, table, request, tracker, detector>>

(* GetRecent and the comparisons: how many recent prompts resemble r's.  A *)
(* loop is reported when that is at least the threshold.                   *)
\* mutant: GetRecent returns what Add has not trimmed yet
Similar_Expired(r) ==
  LET ps == recent[sid[r]]
  IN Cardinality({i \in DOMAIN ps : topic[ps[i].by] = topic[r]})
Similar(r) ==
  LET ps == Trim(recent[sid[r]], now)
  IN Cardinality({i \in DOMAIN ps : topic[ps[i].by] = topic[r]})

Compare(r) ==
  /\ pc[r] = "compare"
  /\ pc' = [pc EXCEPT ![r] = "answer"]
  /\ UNCHANGED <<now, restarts, held, fate, stale, table, request, tracker, detector>>

(* the minute ticker: trims every session, drops those left with nothing *)
Cleanup ==
  /\ recent' = [s \in Sid |-> Trim(recent[s], now)]
  /\ recent' # recent
  /\ UNCHANGED <<now, restarts, pc, held, fate, stale, table, added, forgotten,
                 request, tracker>>

-----------------------------------------------------------------------------
(* The rest of handleRequest, as far as the session goes: an answer from   *)
(* upstream is charged to the session the request holds ("charged"); a     *)
(* blocked request is recorded with its estimated cost and a cache hit     *)
(* with the cost it saved, and a response that could not be read with its  *)
(* input's ("unspent"); a failed call with none ("free").                  *)

Charged == {"charged"}

Answer(r) ==
  /\ pc[r] = "answer"
  /\ \E o \in {"charged", "unspent", "free"} :
       /\ outcome' = [outcome EXCEPT ![r] = o]
       /\ heap' = IF o \in Charged
                    THEN [heap EXCEPT ![held[r]] = [cost |-> @.cost + 1, seen |-> now]]
                    ELSE heap
  /\ pc' = [pc EXCEPT ![r] = "record"]
  /\ UNCHANGED <<now, restarts, sid, topic, held, fate, stale, table, sessions,
                 dropped, detector>>

(* the handler, or the goroutine it left behind, returns *)
Release(r) ==
  /\ held' = [held EXCEPT ![r] = None]
  /\ heap' = Retained(heap, sessions, held')

(* persistAndBroadcast: into a goroutine while a slot is free, else the    *)
(* handler writes the row itself                                           *)
\* mutant: when the slots are full the row is written by a goroutine anyway
Record_Spawn(r) ==
  /\ pc[r] = "record"
  /\ fate' = [fate EXCEPT ![r] = "background"]
  /\ pc' = [pc EXCEPT ![r] = "done"]
  /\ Release(r)
  /\ UNCHANGED <<now, restarts, stale, table, sessions, dropped, request, detector>>
Record(r) ==
  /\ pc[r] = "record"
  /\ IF Cardinality(Background) < PersistSlots
       THEN /\ fate' = [fate EXCEPT ![r] = "background"]
            /\ pc' = [pc EXCEPT ![r] = "done"]
            /\ Release(r)
       ELSE /\ pc' = [pc EXCEPT ![r] = "write"]
            /\ UNCHANGED <<fate, held, heap>>
  /\ UNCHANGED <<now, restarts, stale, table, sessions, dropped, request, detector>>

CostOf(row) == IF row = None THEN 0 ELSE row

(* InsertRequest: one transaction over the request's and the session's row *)
Insert(r) ==
  /\ pc[r] = "write" \/ fate[r] = "background"
  /\ \/ /\ table' = [table EXCEPT ![sid[r]] =
                       CostOf(@) + (IF outcome[r] = "free" THEN 0 ELSE 1)]
        /\ fate' = [fate EXCEPT ![r] = "recorded"]
     \/ /\ fate' = [fate EXCEPT ![r] = "failed"]
        /\ UNCHANGED table
  /\ pc' = [pc EXCEPT ![r] = IF @ = "write" THEN "done" ELSE @]
  /\ Release(r)
  /\ UNCHANGED <<now, restarts, stale, sessions, dropped, request, detector>>

-----------------------------------------------------------------------------
(* evictStale: collect under the read lock, delete under the write lock    *)
(* what is still older than the same cutoff                                *)

Older(cutoff) == {s \in Live : heap[sessions[s]].seen < cutoff}

SweepCollect ==
  /\ stale = None
  /\ Older(now - MaxAge) # {}
  /\ stale' = [cutoff |-> now - MaxAge, ids |-> Older(now - MaxAge)]
  /\ UNCHANGED <<now, restarts, pc, held, fate, table, request, tracker, detector>>

\* mutant: what was collected is deleted without a second look
Swept_Unchecked == stale.ids \cap Live
Swept == stale.ids \cap Older(stale.cutoff)

SweepDelete ==
  /\ stale # None
  /\ sessions' = [s \in Sid |-> IF s \in Swept THEN None ELSE sessions[s]]
  /\ dropped' = dropped \cup Swept
  /\ stale' = None
  /\ heap' = Retained(heap, sessions', held)
  /\ UNCHANGED <<now, restarts, pc, held, fate, table, request, detector>>

(* The process ends, in whatever state its goroutines are: a graceful stop *)
(* first waits for the handlers (srv.Shutdown, at most 15 s), nothing      *)
(* waits for the persist goroutines.  The next one restores the totals of  *)
(* the table, all of them as last seen just now, unless the query fails.   *)
Running(r) == pc[r] \notin {"idle", "done"}

Rows == {s \in Sid : table[s] # None}

Restart ==
  /\ restarts < MaxRestarts
  /\ restarts' = restarts + 1
  /\ pc' = [r \in Request |-> "idle"]
  /\ held' = [r \in Request |-> None]
  /\ sid' = [r \in Request |-> None] /\ topic' = [r \in Request |-> None]
  /\ outcome' = [r \in Request |-> "none"] /\ fate' = [r \in Request |-> "none"]
  /\ \E restored \in {Rows, {}} :
       /\ sessions' = [s \in Sid |-> IF s \in restored THEN s ELSE None]
       /\ heap' = [o \in Object |->
                     IF o \in restored THEN [cost |-> table[o], seen |-> now] ELSE Unused]
       /\ dropped' = Rows \ restored
  /\ recent' = [s \in Sid |-> <<>>]
  /\ added' = [r \in Request |-> None]
  /\ forgotten' = {} /\ stale' = None
  /\ UNCHANGED <<now, table>>

Tick == now < MaxNow /\ now' = now + 1
        /\ UNCHANGED <<restarts, pc, held, fate, stale, table, request, tracker, detector>>

Handler(r) ==
  \/ Arrive(r) \/ Touch(r) \/ Found(r) \/ Create(r) \/ Add(r) \/ SkipLoop(r)
  \/ Compare(r) \/ Answer(r) \/ Record(r) \/ Insert(r)

Next ==
  \/ \E r \in Request : Handler(r)
  \/ Cleanup \/ SweepCollect \/ SweepDelete \/ Restart \/ Tick

Spec == Init /\ [][Next]_vars

-----------------------------------------------------------------------------
(* The totals dashboards and cost rules read differ from the table's by    *)
(* exactly what was charged and not recorded (yet), and by what this       *)
(* process recorded without its being spent, unless the session was        *)
(* evicted or could not be restored: AddCost, InsertRequest and            *)
(* RestoreSession on the two sides, in any order.                          *)
Here(s) == {r \in Request : sid[r] = s}

SpendMatchesTable ==
  \A s \in Live \ dropped :
    CostOf(table[s])
      + Cardinality({r \in Here(s) : outcome[r] = "charged" /\ fate[r] # "recorded"})
    = heap[sessions[s]].cost
      + Cardinality({r \in Here(s) : outcome[r] = "unspent" /\ fate[r] = "recorded"})

(* The sweep never removes a session that was used within MaxAge, however  *)
(* long ago it was collected (the second look of evictStale).              *)
SweptWereIdle ==
  [][SweepDelete => \A s \in Live : sessions'[s] = None =>
                      heap[sessions[s]].seen < now - MaxAge]_vars

(* A loop is counted right although storing a prompt and reading the       *)
(* recent ones are two critical sections: the detector counts exactly the  *)
(* similar prompts of the same session stored within the window, its own   *)
(* included, unless the store evicted the session at its limit.            *)
LoopCountExact ==
  \A r \in Request :
    pc[r] = "compare" /\ sid[r] \notin forgotten =>
      Similar(r) = Cardinality({q \in Request :
                      /\ sid[q] = sid[r] /\ topic[q] = topic[r]
                      /\ added[q] # None /\ added[q] >= now - Window})

(* A stop that waited for the handlers loses at most PersistSlots records: *)
(* past that many, persistAndBroadcast makes the handlers write themselves. *)
StopLosesFew ==
  [][restarts' # restarts /\ (\A r \in Request : ~Running(r))
       => Cardinality(Background) <= PersistSlots]_vars
=============================================================================
