----------------------------- MODULE MemoryStore -----------------------------
(***************************************************************************)
(* The facts remembered about agents: memory/memory.go, the extraction that *)
(* feeds it (proxy/handler.go) and its REST handlers    *)
(* (memory/api.go).                                                          *)
(*                                                                          *)
(* A store scans the list for a similar fact, writes a row to get an id, and *)
(* appends: three steps, with a lock around the first and the last only.     *)
(* Removals clear memory first and the table second; evicted rows are        *)
(* deleted by detached goroutines.  Whatever crosses in between shows.       *)
(***************************************************************************)
EXTENDS Integers, FiniteSets, Sequences, Functions

CONSTANTS
    Agent,       \* agents
    Fact,        \* facts
    Says,        \* agent -> the facts its conversations may yield
    Same,        \* pairs of facts with a similarity above 0.95
    Near,        \* pairs between the conflict threshold and 0.95
    Replaces,    \* <<new, old>>: shouldReplace(new, old)
    Worker,      \* goroutines: extractions and REST handlers
    None,        \* no agent, no row
    MaxEntries,  \* s.maxEntries
    MinQuota,    \* the least quota of an agent (100 in the code)
    MaxId        \* bound: rows ever inserted

ASSUME MemoryConstants ==
    /\ Says \in [Agent -> SUBSET Fact]
    /\ Same \subseteq Fact \X Fact /\ Near \subseteq Fact \X Fact /\ Same \cap Near = {}
    /\ \A p \in Same : <<p[2], p[1]>> \in Same
    /\ \A p \in Near : <<p[2], p[1]>> \in Near
    /\ \A f \in Fact : <<f, f>> \in Same
    /\ Replaces \subseteq Fact \X Fact
    /\ None \notin Agent \cup Fact \cup [agent : Agent, fact : Fact]
    /\ MaxEntries \in Nat \ {0} /\ MinQuota \in Nat \ {0}
    /\ MaxId \in Nat

VARIABLES
    entries,  \* s.entries, a sequence of Entry
    rows,     \* the memory_entries table: id -> Row or None
    lastId,   \* the last AUTOINCREMENT id
    task,     \* what each goroutine is doing, a Task
    doomed,   \* ids whose row a detached goroutine is to delete
    gone,     \* ids some removal reported as deleted (history)
    loose,    \* ids in memory whose row crossed with a removal or another update (history)
    odd       \* ids in memory that may duplicate another (history)

history == <<gone, loose, odd>>
vars == <<entries, rows, lastId, task, doomed, history>>

Id    == 1 .. MaxId
Entry == [id : Id, agent : Agent, fact : Fact]
Row   == [agent : Agent, fact : Fact]
\* `agent` and `id` say what a removal covers: None and 0 stand for all.
\* `torn`: a removal crossed this store; `met`: another store of the agent did.
Task  == [pc : {"idle", "insert", "append", "update", "persist", "delete"},
          agent : Agent \cup {None}, fact : Fact \cup {None}, id : Id \cup {0},
          victims : SUBSET Id, torn : BOOLEAN, met : BOOLEAN]
Idle  == [pc |-> "idle", agent |-> None, fact |-> None, id |-> 0,
          victims |-> {}, torn |-> FALSE, met |-> FALSE]

Init ==
    /\ entries = <<>> /\ rows = [i \in Id |-> None] /\ lastId = 0
    /\ task = [w \in Worker |-> Idle]
    /\ doomed = {} /\ gone = {} /\ loose = {} /\ odd = {}

InMemory == {entries[n].id : n \in DOMAIN entries}
Stored   == {i \in Id : rows[i] # None}
Storing(w)  == task[w].pc \in {"insert", "append"}
Deleting(w) == task[w].pc = "delete"
\* Whether removal t covers an entry of agent a with id i (0: not known yet).
Covers(t, a, i) == t.id \in {0, i} /\ t.agent \in {None, a}
Crossed(a)  == \E w \in Worker : Deleting(w) /\ task[w].id = 0 /\ Covers(task[w], a, 0)

-----------------------------------------------------------------------------
(* Storing a fact *)

\* The entry that decides: the first of the agent, in list order, that is
\* similar at all, not the one most similar.
Hits_Same(a, f) ==   \* mutant: conflicting facts are not looked for
    {n \in DOMAIN entries : entries[n].agent = a /\ <<f, entries[n].fact>> \in Same}
Hits_AnyAgent(a, f) ==   \* mutant: e.AgentID == agentID is not tested
    {n \in DOMAIN entries : <<f, entries[n].fact>> \in Same \cup Near}
Hits(a, f) ==
    {n \in DOMAIN entries : entries[n].agent = a /\ <<f, entries[n].fact>> \in Same \cup Near}

\* The extraction goroutine of a request, or HandleAdd: what ExtractFacts finds
\* is an input, and its facts come one by one.  One that is the same as an old
\* one, or near it without replacing it, is dropped.
Scan(w, a, f) ==
    /\ task[w].pc = "idle"
    /\ \/ /\ Hits(a, f) = {}
          /\ task' = [task EXCEPT ![w] =
               [Idle EXCEPT !.pc = "insert", !.agent = a, !.fact = f, !.torn = Crossed(a)]]
       \/ \E n \in Hits(a, f) :
            /\ \A m \in Hits(a, f) : n <= m
            /\ <<f, entries[n].fact>> \in Near \cap Replaces
            /\ task' = [task EXCEPT ![w] =
                 [Idle EXCEPT !.pc = "update", !.agent = a, !.fact = f, !.id = entries[n].id]]
    /\ UNCHANGED <<entries, rows, lastId, doomed, history>>

\* persistToDB: the row comes first, for its id.
Insert(w) ==
    /\ task[w].pc = "insert" /\ lastId < MaxId
    /\ lastId' = lastId + 1
    /\ rows' = [rows EXCEPT ![lastId'] = [agent |-> task[w].agent, fact |-> task[w].fact]]
    /\ task' = [task EXCEPT ![w].pc = "append", ![w].id = lastId']
    /\ UNCHANGED <<entries, doomed, history>>

InsertFails(w) ==
    /\ task[w].pc = "insert"
    /\ task' = [task EXCEPT ![w] = Idle]
    /\ UNCHANGED <<entries, rows, lastId, doomed, history>>

\* evictForAgent: an agent at its quota gives way itself, otherwise anybody
\* may.  The score (unused for the TTL, then rarely and long ago) is a choice.
Quota ==
    LET agents == {entries[n].agent : n \in DOMAIN entries}
        share == MaxEntries \div (IF agents = {} THEN 1 ELSE Cardinality(agents))
    IN IF share < MinQuota THEN MinQuota ELSE share
Evictable(a) ==
    LET own == {n \in DOMAIN entries : entries[n].agent = a}
    IN IF Cardinality(own) >= Quota THEN own ELSE DOMAIN entries

Without(s, n) == SubSeq(s, 1, n - 1) \o SubSeq(s, n + 1, Len(s))

Full == Len(entries) >= MaxEntries

AppendEntry(w) ==
    /\ task[w].pc = "append"
    /\ LET t == task[w]
           e == [id |-> t.id, agent |-> t.agent, fact |-> t.fact]
       IN /\ IF Full
             THEN \E n \in Evictable(t.agent) :
                    /\ entries' = Append(Without(entries, n), e)
                    /\ doomed' = doomed \cup {entries[n].id}
             ELSE entries' = Append(entries, e) /\ UNCHANGED doomed
          /\ task' = [v \in Worker |->
               IF v = w THEN Idle
               ELSE [task[v] EXCEPT !.met = @ \/ (Storing(v) /\ task[v].agent = t.agent)]]
          /\ loose' = (IF t.torn THEN loose \cup {t.id} ELSE loose) \cap InMemory'
          /\ odd' = (IF t.met THEN odd \cup {t.id} ELSE odd) \cap InMemory'
    /\ UNCHANGED <<rows, lastId, gone>>

UpdateMemory_Unsaved(w) ==   \* mutant: the UPDATE is forgotten
    /\ task[w].pc = "update"
    /\ LET t == task[w] IN
         /\ entries' = [n \in DOMAIN entries |->
              IF entries[n].id = t.id THEN [entries[n] EXCEPT !.fact = t.fact] ELSE entries[n]]
         /\ task' = [task EXCEPT ![w] = Idle]
         /\ odd' = odd \cup ({t.id} \cap InMemory)
    /\ UNCHANGED <<rows, lastId, doomed, gone, loose>>

\* updateExistingEntry writes through the pointer the scan found: if the entry
\* has left the list meanwhile, nobody sees it.
UpdateMemory(w) ==
    /\ task[w].pc = "update"
    /\ LET t == task[w] IN
         /\ entries' = [n \in DOMAIN entries |->
              IF entries[n].id = t.id THEN [entries[n] EXCEPT !.fact = t.fact]
              ELSE entries[n]]
         /\ task' = [v \in Worker |->
              IF v = w THEN [t EXCEPT !.pc = "persist"]
              ELSE [task[v] EXCEPT !.met = @ \/ (Storing(v) /\ task[v].agent = t.agent)]]
         /\ loose' = IF \E v \in Worker \ {w} : task[v].pc = "persist" /\ task[v].id = t.id
                     THEN loose \cup ({t.id} \cap InMemory) ELSE loose
         /\ odd' = odd \cup ({t.id} \cap InMemory)
    /\ UNCHANGED <<rows, lastId, doomed, gone>>

UpdateRow_Upsert(w) ==   \* mutant: INSERT OR REPLACE for UPDATE
    /\ task[w].pc = "persist"
    /\ LET t == task[w] IN
         rows' = [rows EXCEPT ![t.id] = [agent |-> t.agent, fact |-> t.fact]]
    /\ task' = [task EXCEPT ![w] = Idle]
    /\ UNCHANGED <<entries, lastId, doomed, history>>

UpdateRow(w) ==
    /\ task[w].pc = "persist"
    /\ LET t == task[w] IN
         rows' = IF rows[t.id] = None THEN rows
                 ELSE [rows EXCEPT ![t.id].fact = t.fact]
    /\ task' = [task EXCEPT ![w] = Idle]
    /\ UNCHANGED <<entries, lastId, doomed, history>>

UpdateRowFails(w) ==
    /\ task[w].pc = "persist"
    /\ task' = [task EXCEPT ![w] = Idle]
    /\ loose' = loose \cup ({task[w].id} \cap InMemory)
    /\ UNCHANGED <<entries, rows, lastId, doomed, gone, odd>>

\* The detached DELETE of an evicted row; its error is ignored.
EvictRow(i) ==
    /\ i \in doomed
    /\ doomed' = doomed \ {i}
    /\ rows' = [rows EXCEPT ![i] = None] \/ UNCHANGED rows
    /\ UNCHANGED <<entries, lastId, task, history>>

-----------------------------------------------------------------------------
(* Delete (of an id), DeleteByAgent and Flush *)

\* The list without what a removal covers, in the same order (a set of one list).
Kept(a, i) ==
    LET left == {n \in DOMAIN entries :
                   ~Covers([agent |-> a, id |-> i], entries[n].agent, entries[n].id)}
        kept == Bijection(1 .. Cardinality(left), left)
    IN {[k \in DOMAIN f |-> entries[f[k]]] :
          f \in {f \in kept : \A j, k \in DOMAIN f : j < k => f[j] < f[k]}}

Remove(w, a, i) ==
    /\ task[w].pc = "idle"
    /\ entries' \in Kept(a, i)
    /\ task' = [v \in Worker |->
         IF v = w
         THEN [Idle EXCEPT !.pc = "delete", !.agent = a, !.id = i,
                           !.victims = InMemory \ {entries'[n].id : n \in DOMAIN entries'}]
         ELSE [task[v] EXCEPT !.torn =
                 @ \/ (Storing(v) /\ Covers([agent |-> a, id |-> i], task[v].agent, task[v].id))]]
    /\ loose' = loose \cap InMemory' /\ odd' = odd \cap InMemory'
    /\ UNCHANGED <<rows, lastId, doomed, gone>>

Delete(w, i)        == i <= lastId /\ Remove(w, None, i)
DeleteByAgent(w, a) == Remove(w, a, 0)
Flush(w)            == Remove(w, None, 0)

DeleteRows(w) ==
    /\ Deleting(w)
    /\ rows' = [i \in Id |->
         IF rows[i] # None /\ Covers(task[w], rows[i].agent, i) THEN None ELSE rows[i]]
    /\ gone' = gone \cup task[w].victims
    /\ task' = [task EXCEPT ![w] = Idle]
    /\ UNCHANGED <<entries, lastId, doomed, loose, odd>>

\* Delete and DeleteByAgent return the error, Flush drops it.
DeleteRowsFails(w) ==
    /\ Deleting(w)
    /\ task' = [task EXCEPT ![w] = Idle]
    /\ UNCHANGED <<entries, rows, lastId, doomed, history>>

-----------------------------------------------------------------------------
(* Restart *)

\* warmLoad: the newest rows, as many as fit, newest first.  created_at is taken
\* before the insert and has seconds, so rows may also come in another order; an
\* error ends the iteration early (rows.Err() is not looked at) or before it began.
WarmRows ==
    LET most == IF Cardinality(Stored) < MaxEntries THEN Cardinality(Stored) ELSE MaxEntries
    IN UNION {{s \in [1 .. n -> Stored] : \A k, m \in 1 .. n : k # m => s[k] # s[m]} :
                n \in 0 .. most}

\* Nothing waits for the goroutines at shutdown.
Restart ==
    /\ task' = [w \in Worker |-> Idle] /\ doomed' = {}
    /\ \E s \in WarmRows :
         /\ entries' = [n \in DOMAIN s |->
              [id |-> s[n], agent |-> rows[s[n]].agent, fact |-> rows[s[n]].fact]]
         /\ odd' = (odd \cap InMemory') \cup (InMemory' \ InMemory)
    /\ loose' = {}
    /\ UNCHANGED <<rows, lastId, gone>>

Store(w) ==
    \/ \E a \in Agent : \E f \in Says[a] : Scan(w, a, f)
    \/ Insert(w) \/ InsertFails(w) \/ AppendEntry(w)
    \/ UpdateMemory(w) \/ UpdateRow(w) \/ UpdateRowFails(w)
Removal(w) ==
    \/ \E i \in Id : Delete(w, i)
    \/ \E a \in Agent : DeleteByAgent(w, a)
    \/ Flush(w) \/ DeleteRows(w) \/ DeleteRowsFails(w)

Next ==
    \/ \E w \in Worker : Store(w) \/ Removal(w)
    \/ \E i \in Id : EvictRow(i)
    \/ Restart

Spec == Init /\ [][Next]_vars

-----------------------------------------------------------------------------
(* Properties *)

\* What is remembered survives: every entry in memory has a row of its own with
\* the same agent, and the same text unless its update is just being written,
\* provided its store met no removal and its updates did not overlap or fail.
\* (Where they did, the entry is lost or reverts at the next start.)
MemoryMatchesTable ==
    \A n \in DOMAIN entries :
        LET e == entries[n] IN
        e.id \notin loose =>
            /\ rows[e.id] # None /\ rows[e.id].agent = e.agent
            /\ \/ rows[e.id].fact = e.fact
               \/ \E w \in Worker : task[w].pc = "persist" /\ task[w].id = e.id
                                      /\ task[w].fact = e.fact

\* "Flush removes all memories from memory and DB" (memory.go:671), and the other
\* removals: what was in the list when one began that then reported success is
\* in neither, ever again, whatever stores, updates and evictions were under way
\* and however often the process restarts.
DeletedIsGone == gone \cap (InMemory \cup Stored) = {}

\* "it may be updated rather than duplicated" (memory.go:487): no two entries of
\* an agent are similar, except for one that was stored while another store of
\* the agent finished, was rewritten by an update, or came back from the table.
NoTwins ==
    \A m, n \in DOMAIN entries :
        m # n /\ entries[m].agent = entries[n].agent
              /\ entries[m].id \notin odd /\ entries[n].id \notin odd
        => <<entries[m].fact, entries[n].fact>> \notin Same \cup Near

\* "Scoped to agent" (memory.go:35): what an agent is reminded of is something
\* from its own conversations, also when a similar fact of another agent is
\* being updated, and after a restart.
OwnFactsOnly ==
    /\ \A n \in DOMAIN entries : entries[n].fact \in Says[entries[n].agent]
    /\ \A i \in Stored : rows[i].fact \in Says[rows[i].agent]
=============================================================================
