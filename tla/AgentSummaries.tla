---------------------------- MODULE AgentSummaries ----------------------------
(***************************************************************************)
(* The agent totals the dashboard shows: the cached result of a GROUP BY    *)
(* over all requests (dashboard/hub.go), made stale by each goroutine that  *)
(* writes a request (proxy/handler.go, dbWrite) and rebuilt by a debounce   *)
(* timer or by the replay to a client that has just connected.  The daily   *)
(* prune deletes rows (store/db.go) and invalidates nothing.                *)
(***************************************************************************)
EXTENDS Naturals, FiniteSets

CONSTANTS
    Event,      \* requests to record
    None,       \* no rebuild under way
    MaxReplays  \* bound: payload requests by newly connected clients

SummaryConstants ==
    /\ None \notin [by : {"timer", "replay"}, rows : SUBSET Event]
    /\ MaxReplays \in Nat

VARIABLES
    rows,        \* the table the totals are computed from
    lingering,   \* rows pruned since the last invalidation (history)
    writer,      \* the goroutine that records each request
    cacheValid,  \* h.cacheValid
    cached,      \* h.cachedAgents: the rows it was computed from
    building,    \* a rebuild: it holds h.cacheMu and has run its query
    armed,       \* h.debounceTimer is pending
    fired,       \* timer callbacks that have not taken h.cacheMu yet
    ready,       \* payloads a callback is about to broadcast
    replays,     \* payloads still to be asked for by new clients
    answer,      \* the last payload agentSummaryPayload returned; turn tells it
                 \* from an equal one before it
    shown,       \* rows that some broadcast payload has covered (history)
    missed       \* rows whose payload was not computed, or dropped (history)

cache == <<cacheValid, cached>>
timer == <<armed, fired>>
sent  == <<shown, missed>>
vars == <<rows, lingering, writer, cache, building, timer, ready, replays, answer, sent>>

Rebuild == [by : {"timer", "replay"}, rows : SUBSET Event]

TypeOK ==
    /\ rows \subseteq Event /\ lingering \subseteq Event
    /\ writer \in [Event -> {"new", "inserted", "done"}]
    /\ cacheValid \in BOOLEAN /\ cached \subseteq Event
    /\ building \in Rebuild \cup {None}
    /\ armed \in BOOLEAN /\ fired \in Nat
    /\ ready \subseteq SUBSET Event
    /\ replays \in 0 .. MaxReplays
    /\ answer \in [rows : SUBSET Event, turn : {0, 1}]
    /\ shown \subseteq Event /\ missed \subseteq Event

Init ==
    /\ rows = {} /\ lingering = {} /\ writer = [e \in Event |-> "new"]
    /\ cacheValid = FALSE /\ cached = {} /\ building = None
    /\ armed = FALSE /\ fired = 0 /\ ready = {}
    /\ replays = MaxReplays
    /\ answer = [rows |-> {}, turn |-> 0] /\ shown = {} /\ missed = {}

-----------------------------------------------------------------------------
\* Prune deletes the requests that are older than the retention, whatever their
\* writers are doing; one that fails is no step.
Prune ==
    /\ \E old \in SUBSET rows \ {{}} : rows' = rows \ old /\ lingering' = lingering \cup old
    /\ UNCHANGED <<writer, cache, building, timer, ready, replays, answer, sent>>

\* dbWrite: InsertRequest; an error is logged and the rest runs all the same.
Insert(e) ==
    /\ writer[e] = "new"
    /\ writer' = [writer EXCEPT ![e] = "inserted"]
    /\ rows' = rows \cup {e} \/ UNCHANGED rows
    /\ UNCHANGED <<lingering, cache, building, timer, ready, replays, answer, sent>>

Invalidate_Unlocked(e) ==    \* mutant: does not take h.cacheMu
    /\ writer[e] = "inserted"
    /\ writer' = [writer EXCEPT ![e] = "done"]
    /\ cacheValid' = FALSE /\ lingering' = {} /\ armed' = TRUE
    /\ UNCHANGED <<rows, cached, building, fired, ready, replays, answer, sent>>
Invalidate_WhenValid(e) ==   \* mutant: starts the timer only if the cache was valid
    /\ writer[e] = "inserted" /\ building = None
    /\ writer' = [writer EXCEPT ![e] = "done"]
    /\ cacheValid' = FALSE /\ lingering' = {}
    /\ armed' = (armed \/ cacheValid)
    /\ UNCHANGED <<rows, cached, building, fired, ready, replays, answer, sent>>

\* dbWrite: InvalidateAgentSummaries, which stops and restarts the timer.
Invalidate(e) ==
    /\ writer[e] = "inserted"
    /\ building = None
    /\ writer' = [writer EXCEPT ![e] = "done"]
    /\ cacheValid' = FALSE /\ lingering' = {}
    /\ armed' = TRUE
    /\ UNCHANGED <<rows, cached, building, fired, ready, replays, answer, sent>>

\* The 500 ms are over: the callback runs in a goroutine of its own.
TimerFires ==
    /\ armed
    /\ armed' = FALSE
    /\ fired' = fired + 1
    /\ UNCHANGED <<rows, lingering, writer, cache, building, ready, replays, answer, sent>>

Caller(by) ==
    \/ by = "timer" /\ fired > 0 /\ fired' = fired - 1 /\ UNCHANGED <<armed, replays>>
    \/ by = "replay" /\ replays > 0 /\ replays' = replays - 1 /\ UNCHANGED timer

Return(by, payload) ==
    /\ answer' = [rows |-> payload, turn |-> 1 - answer.turn]
    /\ ready' = IF by = "timer" THEN ready \cup {payload} ELSE ready

UseCached_Stale(by) ==   \* mutant: the flag is not looked at
    /\ building = None
    /\ Caller(by)
    /\ Return(by, cached)
    /\ UNCHANGED <<rows, lingering, writer, cache, building, sent>>

\* agentSummaryPayload with a valid cache ...
UseCached(by) ==
    /\ building = None /\ cacheValid
    /\ Caller(by)
    /\ Return(by, cached)
    /\ UNCHANGED <<rows, lingering, writer, cache, building, sent>>

\* ... with a stale one: the query runs while h.cacheMu is held, and if it
\* fails there is no payload ...
Query(by) ==
    /\ building = None /\ ~cacheValid
    /\ Caller(by)
    /\ \/ building' = [by |-> by, rows |-> rows] /\ UNCHANGED missed
       \/ /\ missed' = IF by = "timer" THEN missed \cup rows ELSE missed
          /\ UNCHANGED building
    /\ UNCHANGED <<rows, lingering, writer, cache, ready, answer, shown>>

\* ... and its result becomes the cached payload before the unlock.
Build ==
    /\ building # None
    /\ cached' = building.rows /\ cacheValid' = TRUE
    /\ Return(building.by, building.rows)
    /\ building' = None
    /\ UNCHANGED <<rows, lingering, writer, timer, replays, sent>>

\* The callback's Broadcast, which drops the payload when the hub's queue is full.
Show(payload) ==
    /\ payload \in ready
    /\ ready' = ready \ {payload}
    /\ \/ shown' = shown \cup payload /\ UNCHANGED missed
       \/ missed' = missed \cup payload /\ UNCHANGED shown
    /\ UNCHANGED <<rows, lingering, writer, cache, building, timer, replays, answer>>

Next ==
    \/ \E e \in Event : Insert(e) \/ Invalidate(e)
    \/ Prune
    \/ TimerFires
    \/ \E by \in {"timer", "replay"} : UseCached(by) \/ Query(by)
    \/ Build
    \/ \E payload \in SUBSET Event : Show(payload)

Spec == Init /\ [][Next]_vars

\* The runtime runs a due timer, its callback and a goroutine that holds or
\* waits for h.cacheMu; no request has to arrive and no client to connect.
Fairness ==
    /\ \A e \in Event : WF_vars(Invalidate(e))
    /\ WF_vars(TimerFires)
    /\ WF_vars(UseCached("timer") \/ Query("timer"))
    /\ WF_vars(Build)
    /\ \A payload \in SUBSET Event : WF_vars(Show(payload))

FairSpec == Spec /\ Fairness

-----------------------------------------------------------------------------
(* Properties *)

Announced == {e \in rows : writer[e] = "done"}

\* A cached payload that counts as valid misses no request whose writer has
\* called InvalidateAgentSummaries (hub.go:39-41), although the query runs
\* while inserts and prunes go on and the flag is set only afterwards; and what
\* it counts beyond the table was pruned since the last of those calls.
ValidMeansFresh ==
    cacheValid => Announced \subseteq cached /\ cached \subseteq rows \cup lingering

\* Every payload agentSummaryPayload returns is one CachedQuery allows.
Promise == INSTANCE CachedQuery WITH announced <- Announced
ImplementsCachedQuery == Promise!Spec

\* However the calls are coalesced, the totals sent to the dashboards catch up
\* with the table again and again (hub.go:246-249): every recorded request comes
\* to be in some of them, unless the very query or broadcast that would have
\* covered it fails, or it is pruned.
EventuallyShown == []<>(rows \subseteq shown \cup missed)
=============================================================================
