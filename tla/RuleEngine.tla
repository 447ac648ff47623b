------------------------------ MODULE RuleEngine ------------------------------
(***************************************************************************)
(* Rules: the table (rules/store.go), the compiled list every request is     *)
(* decided by (rules/engine.go), the REST handlers that edit them            *)
(* (rules/api.go), and the mirror of authored rails in the guardrails        *)
(* service (nemoguardrails/nemoguardrails.go).                               *)
(*                                                                          *)
(* An edit is a statement, a reload and a push, each on its own.  A reload   *)
(* lists the table and later swaps the list in, so two of them can cross;    *)
(* a poller reloads every 30 s and heals that.  Nothing heals the mirror.    *)
(***************************************************************************)
EXTENDS Integers, FiniteSets, Sequences

CONSTANTS
    Body,       \* what a rule says
    Query,      \* kinds of requests
    Priority,   \* body -> priority
    Fits,       \* body -> the requests its scope and all its conditions match
    Act,        \* body -> "allow", "rate_limit" or "other"
    Authors,    \* bodies with a CondGuardrails condition that authors a rail
    Compiles,   \* bodies that compile
    Editor,     \* goroutines of the REST handlers
    Poller,     \* the reloadLoop goroutine
    None,       \* no body
    Stored,     \* the rows of the table when the process starts, ids from 1
    MaxId,      \* bound: rules ever created
    MaxEdits    \* bound: edits

ASSUME RuleConstants ==
    /\ Priority \in [Body -> Int] /\ Fits \in [Body -> SUBSET Query]
    /\ Act \in [Body -> {"allow", "rate_limit", "other"}]
    /\ Authors \subseteq Body /\ Compiles \subseteq Body
    /\ Poller \notin Editor
    /\ MaxId \in Nat /\ MaxEdits \in Nat
    /\ None \notin Body
    /\ Stored \in Seq([body : Body, enabled : BOOLEAN]) /\ Len(Stored) <= MaxId

VARIABLES
    db,       \* the rules table: id -> row
    lastId,   \* the last AUTOINCREMENT id; ids are not reused
    loaded,   \* e.rules
    origin,   \* the table that e.rules was listed from (history)
    task,     \* what each goroutine is doing
    rails,    \* the guardrails service: the rail tmc-<id> of each rule
    edits,    \* edits so far (bound)
    crossed,  \* a reload failed, or listed while another held a list (history)
    strained  \* ids with a push that failed, overlapping edits, an edit of a
              \* deleted rule, or an edit cut off by a restart (history)

vars == <<db, lastId, loaded, origin, task, rails, edits, crossed, strained>>

Id     == 1 .. MaxId
Worker == Editor \cup {Poller}
Row    == [body : Body, enabled : BOOLEAN]
Gone   == [body |-> None, enabled |-> FALSE]
Tables == UNION {[ids -> Row] : ids \in SUBSET Id}
Empty  == [i \in {} |-> Gone]
Rule   == [id : Id, body : Body, enabled : BOOLEAN]
Task   == [pc : {"idle", "list", "install", "read", "push"},
           op : {"poll", "save", "drop", "toggle"},
           id : Id \cup {0}, row : Row \cup {Gone}, got : Tables]
Idle   == [pc |-> "idle", op |-> "poll", id |-> 0, row |-> Gone, got |-> Empty]

TypeOK ==
    /\ db \in Tables /\ lastId \in 0 .. MaxId /\ DOMAIN db \subseteq 1 .. lastId
    /\ loaded \in Seq(Rule) /\ origin \in Tables
    /\ task \in [Worker -> Task]
    /\ rails \in [Id -> Row \cup {Gone}]
    /\ edits \in 0 .. MaxEdits /\ crossed \in BOOLEAN /\ strained \subseteq Id

-----------------------------------------------------------------------------
(* The compiled list, and what a request gets from it *)

Before_Ids(t, i, j) ==   \* mutant: newer rules first among equal priorities
    \/ Priority[t[i].body] > Priority[t[j].body]
    \/ Priority[t[i].body] = Priority[t[j].body] /\ i > j

\* priority DESC, id ASC.
Before(t, i, j) ==
    \/ Priority[t[i].body] > Priority[t[j].body]
    \/ Priority[t[i].body] = Priority[t[j].body] /\ i < j

\* reload: disabled rules are listed too, rules that do not compile are skipped.
Compiled(t) ==
    LET ids == {i \in DOMAIN t : t[i].body \in Compiles}
        order == CHOOSE s \in [1 .. Cardinality(ids) -> ids] :
                    \A m, n \in DOMAIN s : m < n => Before(t, s[m], s[n])
    IN [n \in DOMAIN order |->
          [id |-> order[n], body |-> t[order[n]].body, enabled |-> t[order[n]].enabled]]

\* Evaluate: the first rule that is enabled, in scope and matches decides, also
\* when it lets the request pass (0), as an allow rule or as a rate limit that
\* is not exceeded does.
Evaluate(q, underLimit) ==
    LET hits == {n \in DOMAIN loaded : loaded[n].enabled /\ q \in Fits[loaded[n].body]}
        first == loaded[CHOOSE n \in hits : \A m \in hits : n <= m]
    IN CASE hits = {} -> 0
         [] hits # {} /\ Act[first.body] = "allow" -> 0
         [] hits # {} /\ Act[first.body] = "rate_limit" /\ underLimit -> 0
         [] OTHER -> first.id

Rail_Always(row) == row   \* mutant: a rule that drops its rail does not clean up
\* What the mirror should hold for a row: its rail, or nothing.
Rail(row) == IF row.body \in Authors THEN row ELSE Gone

\* NewEngine: the rules are loaded before anything is served.
Init ==
    /\ db = Stored /\ lastId = Len(Stored)
    /\ loaded = Compiled(Stored) /\ origin = Stored
    /\ task = [w \in Worker |-> Idle]
    /\ rails = [i \in Id |-> IF i \in DOMAIN Stored THEN Rail(Stored[i]) ELSE Gone]
    /\ edits = 0 /\ crossed = FALSE /\ strained = {}

-----------------------------------------------------------------------------
(* The statement of an edit; one that fails answers 500 and changes nothing *)

Working(i) == {w \in Editor : task[w].pc # "idle" /\ task[w].id = i}

Begin_NoReload(w, op, i, row) ==   \* mutant: the handler forgets Reload
    /\ w \in Editor /\ task[w].pc = "idle" /\ edits < MaxEdits
    /\ edits' = edits + 1
    /\ task' = [task EXCEPT ![w] =
                  [pc |-> "push", op |-> op, id |-> i, row |-> row, got |-> Empty]]
    /\ strained' = IF Working(i) # {} \/ (op = "save" /\ i \notin DOMAIN db')
                   THEN strained \cup {i} ELSE strained
    /\ UNCHANGED <<loaded, origin, rails, crossed>>

Begin(w, op, i, row) ==
    /\ w \in Editor /\ task[w].pc = "idle" /\ edits < MaxEdits
    /\ edits' = edits + 1
    /\ task' = [task EXCEPT ![w] =
                  [pc |-> "list", op |-> op, id |-> i, row |-> row, got |-> Empty]]
    /\ strained' = IF Working(i) # {} \/ (op = "save" /\ i \notin DOMAIN db')
                   THEN strained \cup {i} ELSE strained
    /\ UNCHANGED <<loaded, origin, rails, crossed>>

Create(w, row) ==
    /\ lastId < MaxId
    /\ lastId' = lastId + 1
    /\ db' = [i \in DOMAIN db \cup {lastId'} |-> IF i = lastId' THEN row ELSE db[i]]
    /\ Begin(w, "save", lastId', row)

\* UPDATE ... WHERE id = ? touches no row when there is none.
Update(w, i, row) ==
    /\ i <= lastId
    /\ db' = [j \in DOMAIN db |-> IF j = i THEN row ELSE db[j]]
    /\ UNCHANGED lastId
    /\ Begin(w, "save", i, row)

Delete(w, i) ==
    /\ i <= lastId
    /\ db' = [j \in DOMAIN db \ {i} |-> db[j]]
    /\ UNCHANGED lastId
    /\ Begin(w, "drop", i, Gone)

Toggle(w, i, on) ==
    /\ i <= lastId
    /\ db' = [j \in DOMAIN db |-> IF j = i THEN [db[j] EXCEPT !.enabled = on] ELSE db[j]]
    /\ UNCHANGED lastId
    /\ Begin(w, "toggle", i, Gone)

-----------------------------------------------------------------------------
(* The reload *)

Tick ==
    /\ task[Poller].pc = "idle"
    /\ task' = [task EXCEPT ![Poller].pc = "list"]
    /\ UNCHANGED <<db, lastId, loaded, origin, rails, edits, crossed, strained>>

Holding(w) == task[w].pc = "install"
AfterReload(t) ==
    CASE t.op = "poll" -> Idle
      [] t.op = "toggle" -> [t EXCEPT !.pc = "read", !.got = Empty]
      [] OTHER -> [t EXCEPT !.pc = "push", !.got = Empty]

List(w) ==
    /\ task[w].pc = "list"
    /\ task' = [task EXCEPT ![w].pc = "install", ![w].got = db]
    /\ crossed' = (crossed \/ \E v \in Worker : Holding(v))
    /\ UNCHANGED <<db, lastId, loaded, origin, rails, edits, strained>>

\* The query fails: an error is logged, the list stays, the handler goes on.
ListFails(w) ==
    /\ task[w].pc = "list"
    /\ task' = [task EXCEPT ![w] = AfterReload(@)]
    /\ crossed' = TRUE
    /\ UNCHANGED <<db, lastId, loaded, origin, rails, edits, strained>>

Install_OnEdit(w) ==   \* mutant: the poller's list is thrown away
    /\ Holding(w)
    /\ IF task[w].op = "poll" THEN UNCHANGED <<loaded, origin>>
       ELSE loaded' = Compiled(task[w].got) /\ origin' = task[w].got
    /\ task' = [task EXCEPT ![w] = AfterReload(@)]
    /\ crossed' = (crossed /\ (task[w].got # db \/ \E v \in Worker \ {w} : Holding(v)))
    /\ UNCHANGED <<db, lastId, rails, edits, strained>>

Install(w) ==
    /\ Holding(w)
    /\ loaded' = Compiled(task[w].got) /\ origin' = task[w].got
    /\ task' = [task EXCEPT ![w] = AfterReload(@)]
    /\ crossed' = (crossed /\ (task[w].got # db \/ \E v \in Worker \ {w} : Holding(v)))
    /\ UNCHANGED <<db, lastId, rails, edits, strained>>

-----------------------------------------------------------------------------
(* The push *)

\* Toggle reads the row again; if that fails there is no push.
ReadBack(w) ==
    /\ task[w].pc = "read"
    /\ LET i == task[w].id IN
         \/ /\ i \in DOMAIN db
            /\ task' = [task EXCEPT ![w].pc = "push", ![w].row = db[i]]
            /\ UNCHANGED strained
         \/ /\ task' = [task EXCEPT ![w] = Idle]
            /\ strained' = IF i \in DOMAIN db THEN strained \cup {i} ELSE strained
    /\ UNCHANGED <<db, lastId, loaded, origin, rails, edits, crossed>>

\* PutRule or DeleteRule.  A call that reports an error may or may not have
\* been carried out; the handler logs it and answers success.
Push(w) ==
    /\ task[w].pc = "push"
    /\ task' = [task EXCEPT ![w] = Idle]
    /\ \/ /\ rails' = [rails EXCEPT ![task[w].id] = Rail(task[w].row)]
          /\ UNCHANGED strained
       \/ /\ strained' = strained \cup {task[w].id}
          /\ UNCHANGED rails
    /\ UNCHANGED <<db, lastId, loaded, origin, edits, crossed>>

\* A new process loads the rules and finds the mirror as it was.
Restart ==
    /\ \E w \in Worker : task[w].pc # "idle"
    /\ task' = [w \in Worker |-> Idle]
    /\ loaded' = Compiled(db) /\ origin' = db /\ crossed' = FALSE
    /\ strained' = strained \cup {i \in Id : Working(i) # {}}
    /\ UNCHANGED <<db, lastId, rails, edits>>

Edit(w) ==
    \/ \E row \in Row : Create(w, row) \/ \E i \in Id : Update(w, i, row)
    \/ \E i \in Id : Delete(w, i) \/ \E on \in BOOLEAN : Toggle(w, i, on)
Reload(w) == List(w) \/ ListFails(w) \/ Install(w)
Finish(w) == ReadBack(w) \/ Push(w)

Next ==
    \/ \E w \in Worker : Edit(w) \/ Reload(w) \/ Finish(w)
    \/ Tick \/ Restart

Spec == Init /\ [][Next]_vars

\* Handlers that have begun go on, the ticker ticks, and a poll that keeps
\* asking is answered by the database some time.
FairSpec ==
    /\ Spec
    /\ \A w \in Worker : WF_vars(Reload(w)) /\ WF_vars(Finish(w))
    /\ WF_vars(Tick) /\ SF_vars(List(Poller))

-----------------------------------------------------------------------------
(* Properties *)

\* "They're evaluated in priority order - the first match wins"
\* (USER_GUIDE.md:210), said of the table rather than the list: the rule that
\* decides is the one of the highest priority, the oldest among equals, of those
\* that compile, are enabled and fit; and if none decides, there is none, or
\* it let the request pass.
Wins(t, i, q) ==
    LET Applies(j) == t[j].body \in Compiles /\ t[j].enabled /\ q \in Fits[t[j].body]
    IN /\ Applies(i)
       /\ \A j \in DOMAIN t : j # i /\ Applies(j) =>
            \/ Priority[t[j].body] < Priority[t[i].body]
            \/ Priority[t[j].body] = Priority[t[i].body] /\ i < j
FirstMatchWins ==
    \A q \in Query, underLimit \in BOOLEAN :
        LET verdict == Evaluate(q, underLimit) IN
        \/ verdict \in DOMAIN origin /\ Wins(origin, verdict, q)
        \/ /\ verdict = 0
           /\ \A i \in DOMAIN origin : Wins(origin, i, q) =>
                \/ Act[origin[i].body] = "allow"
                \/ Act[origin[i].body] = "rate_limit" /\ underLimit

\* "Reload: ... synchronous on API mutations" (RULES_ENGINE.md:179), as far as
\* the code keeps it: when no edit is between its statement and the end of its
\* reload, the engine runs the table as it is, unless reloads have crossed or
\* failed since the last one that installed the current table alone.
ReloadedWhenAlone ==
    (\A w \in Editor : task[w].pc \notin {"list", "install"}) /\ ~crossed
        => origin = db \/ \E w \in Worker : Holding(w) /\ task[w].got = db

\* Once edits cease the engine comes to run the table, and stays there, whatever
\* crossed and failed before: the poller heals it (engine.go:211-226).
EventuallyCurrent == <>[](origin = db)

\* The mirror follows the table, one rule at a time: the rail of a rule that
\* nobody is editing is the one its row authors, as long as its pushes were
\* carried out, its edits did not overlap, and none came after its deletion.
\* In those cases it may be wrong for good, since only edits push.
MirrorFollows ==
    \A i \in Id \ strained : Working(i) = {} =>
        rails[i] = IF i \in DOMAIN db /\ db[i].body \in Authors THEN db[i] ELSE Gone
=============================================================================
