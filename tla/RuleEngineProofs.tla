--------------------------- MODULE RuleEngineProofs ---------------------------
(***************************************************************************)
(* For any rules, any number of editors and edits: a reload that runs alone *)
(* leaves the engine with the table as it is, the rail of a rule follows its *)
(* row, and a request is decided by the first rule of the table that matches.*)
(***************************************************************************)
EXTENDS RuleEngine, FiniteSetTheorems, WellFoundedInduction, TLAPS

-----------------------------------------------------------------------------
(* Types: what the other proofs need; RulesTypeOK adds the rest *)

Typed ==
    /\ db \in Tables /\ origin \in Tables
    /\ task \in [Worker -> Task]
    /\ rails \in [Id -> Row \cup {Gone}]
    /\ lastId \in 0 .. MaxId
    /\ crossed \in BOOLEAN

Within(t) == DOMAIN t \subseteq Id /\ t \in [DOMAIN t -> Row]

LEMMA TablesAre == \A t : t \in Tables <=> Within(t)
  BY DEF Tables, Within

LEMMA IdleIsTask == Idle \in Task
<1>1. Empty \in Tables
  BY TablesAre DEF Empty, Within
<1>2. QED BY <1>1 DEF Idle, Task, Gone

LEMMA InitTyped == Init => Typed
<1> SUFFICES ASSUME Init PROVE Typed
  OBVIOUS
<1>1. Stored \in Tables /\ Len(Stored) \in 0 .. MaxId /\ DOMAIN Stored \subseteq Id
  <2>1. Stored \in Seq(Row) /\ Len(Stored) <= MaxId /\ MaxId \in Nat
    BY RuleConstants DEF Row
  <2>2. DOMAIN Stored = 1 .. Len(Stored) /\ Len(Stored) \in Nat
    BY <2>1
  <2>3. DOMAIN Stored \subseteq Id
    BY <2>1, <2>2 DEF Id
  <2>4. Stored \in [DOMAIN Stored -> Row]
    BY <2>1
  <2>5. QED BY <2>1, <2>2, <2>3, <2>4, TablesAre DEF Within
<1>2. rails \in [Id -> Row \cup {Gone}]
  <2>1. \A i \in DOMAIN Stored : Rail(Stored[i]) \in Row \cup {Gone}
    BY <1>1, TablesAre DEF Within, Rail
  <2>2. QED BY <2>1 DEF Init
<1>3. QED BY <1>1, <1>2, IdleIsTask DEF Init, Typed

\* What a reload leaves of a task is a task that lists and holds nothing.
LEMMA AfterReloadIsTask ==
  ASSUME NEW t \in Task
  PROVE  AfterReload(t) \in Task /\ AfterReload(t).pc \in {"idle", "read", "push"}
<1>1. Empty \in Tables
  BY TablesAre DEF Empty, Within
<1>2. QED BY <1>1, IdleIsTask DEF AfterReload, Task, Idle

\* An edit writes a table and takes a task of its own.
LEMMA EditTypes ==
  ASSUME Typed, NEW w \in Worker, Edit(w)
  PROVE  Typed'
<1>1. Empty \in Tables
  BY TablesAre DEF Empty, Within
<1>2. ASSUME NEW op \in {"save", "drop", "toggle"}, NEW i \in Id, NEW row \in Row \cup {Gone},
             Begin(w, op, i, row), db' \in Tables, lastId' \in 0 .. MaxId
      PROVE  Typed'
  <2>1. [pc |-> "list", op |-> op, id |-> i, row |-> row, got |-> Empty] \in Task
    BY <1>1 DEF Task
  <2>2. QED BY <1>2, <2>1 DEF Begin, Typed
<1>3. ASSUME NEW row \in Row, Create(w, row) PROVE Typed'
  <2>1. lastId' \in Id
    BY <1>3, RuleConstants DEF Create, Typed, Id
  <2>2. db' \in Tables
    BY <1>3, <2>1, TablesAre DEF Create, Typed, Within
  <2>3. lastId' \in 0 .. MaxId
    BY <2>1 DEF Id
  <2>4. QED BY <1>2, <1>3, <2>1, <2>2, <2>3 DEF Create
<1>4. ASSUME NEW row \in Row, NEW i \in Id, Update(w, i, row) PROVE Typed'
  <2>1. db' \in Tables /\ lastId' \in 0 .. MaxId
    BY <1>4, TablesAre DEF Update, Typed, Within
  <2>2. QED BY <1>2, <1>4, <2>1 DEF Update
<1>5. ASSUME NEW i \in Id, Delete(w, i) PROVE Typed'
  <2>1. db' \in Tables /\ lastId' \in 0 .. MaxId
    BY <1>5, TablesAre DEF Delete, Typed, Within
  <2>2. QED BY <1>2, <1>5, <2>1 DEF Delete
<1>6. ASSUME NEW i \in Id, NEW on \in BOOLEAN, Toggle(w, i, on) PROVE Typed'
  <2>1. \A j \in DOMAIN db : [db[j] EXCEPT !.enabled = on] \in Row
    BY TablesAre DEF Typed, Within, Row
  <2>2. db' \in Tables /\ lastId' \in 0 .. MaxId
    BY <1>6, <2>1, TablesAre DEF Toggle, Typed, Within
  <2>3. QED BY <1>2, <1>6, <2>2 DEF Toggle
<1>7. QED BY <1>3, <1>4, <1>5, <1>6 DEF Edit

\* Everything after the statement of an edit, and the poller.
LEMMA OthersTypes ==
  ASSUME Typed,
         (\E w \in Worker : Reload(w) \/ Finish(w)) \/ Tick \/ Restart
  PROVE  Typed'
<1>1. ASSUME NEW w \in Worker, List(w) PROVE Typed'
  <2>1. task[w] \in Task /\ db \in Tables
    BY DEF Typed
  <2>2. [task[w] EXCEPT !.pc = "install", !.got = db] \in Task
    BY <2>1 DEF Task
  <2>3. task' = [task EXCEPT ![w] = [task[w] EXCEPT !.pc = "install", !.got = db]]
    BY <1>1 DEF List, Typed
  <2>4. task' \in [Worker -> Task]
    BY <2>2, <2>3 DEF Typed
  <2>5. UNCHANGED <<db, lastId, origin, rails>> /\ crossed' \in BOOLEAN
    BY <1>1 DEF List, Typed
  <2>6. QED BY <2>4, <2>5 DEF Typed
<1>2. ASSUME NEW w \in Worker, ListFails(w) \/ Install(w) PROVE Typed'
  <2>1. task[w] \in Task
    BY DEF Typed
  <2>2. AfterReload(task[w]) \in Task
    BY <2>1, AfterReloadIsTask
  <2>3. CASE ListFails(w)
    BY <2>2, <2>3 DEF ListFails, Typed
  <2>4. CASE Install(w)
    <3>1. task[w].got \in Tables
      BY <2>1 DEF Task
    <3>2. task' \in [Worker -> Task]
      BY <2>2, <2>4 DEF Install, Typed
    <3>3. origin' \in Tables /\ crossed' \in BOOLEAN
      BY <2>4, <3>1 DEF Install, Typed
    <3>4. UNCHANGED <<db, lastId, rails>>
      BY <2>4 DEF Install
    <3>5. QED BY <3>2, <3>3, <3>4 DEF Typed
  <2>5. QED BY <1>2, <2>3, <2>4
<1>3. ASSUME NEW w \in Worker, ReadBack(w) PROVE Typed'
  <2>1. task[w].id \in DOMAIN db => db[task[w].id] \in Row
    BY TablesAre DEF Typed, Within
  <2>2. task' \in [Worker -> Task]
    BY <1>3, <2>1, IdleIsTask DEF ReadBack, Typed, Task
  <2>3. QED BY <1>3, <2>2 DEF ReadBack, Typed
<1>4. ASSUME NEW w \in Worker, Push(w) PROVE Typed'
  <2>1. Rail(task[w].row) \in Row \cup {Gone}
    BY DEF Typed, Task, Rail
  <2>2. task' \in [Worker -> Task] /\ rails' \in [Id -> Row \cup {Gone}]
    BY <1>4, <2>1, IdleIsTask DEF Push, Typed
  <2>3. QED BY <1>4, <2>2 DEF Push, Typed
<1>5. CASE Tick
  BY <1>5 DEF Tick, Typed, Task
<1>6. CASE Restart
  BY <1>6, IdleIsTask DEF Restart, Typed
<1>7. QED BY <1>1, <1>2, <1>3, <1>4, <1>5, <1>6 DEF Reload, Finish

LEMMA NextTyped == Typed /\ [Next]_vars => Typed'
<1>1. Typed /\ UNCHANGED vars => Typed'
  BY DEF Typed, vars
<1>2. QED BY <1>1, EditTypes, OthersTypes DEF Next

-----------------------------------------------------------------------------
(* Reloads that do not cross *)

\* While no reload has crossed or failed, one goroutine at most holds a list;
\* and once every edit has listed the table, the list that is held is the table,
\* or the engine runs it.
Alone ==
    ~crossed =>
        /\ \A v, w \in Worker : Holding(v) /\ Holding(w) => v = w
        /\ (\A u \in Editor : task[u].pc # "list") =>
             /\ \A w \in Worker : Holding(w) => task[w].got = db
             /\ (\A w \in Worker : ~Holding(w)) => origin = db

LEMMA NextAlone == Typed /\ Alone /\ [Next]_vars => Alone'
<1> SUFFICES ASSUME Typed, Alone, [Next]_vars PROVE Alone'
  OBVIOUS
<1> USE DEF Holding
<1>1. ASSUME NEW w \in Worker, Edit(w) PROVE Alone'
  <2>1. ASSUME NEW op, NEW i, NEW row, Begin(w, op, i, row) PROVE Alone'
    <3>1. w \in Editor /\ task'[w].pc = "list"
      BY <2>1 DEF Begin, Typed
    <3>2. \A v \in Worker : task'[v].pc = "install" <=> task[v].pc = "install"
      BY <2>1 DEF Begin, Typed
    <3>3. crossed' = crossed
      BY <2>1 DEF Begin
    <3>4. QED BY <3>1, <3>2, <3>3 DEF Alone
  <2>2. QED BY <1>1, <2>1 DEF Edit, Create, Update, Delete, Toggle
<1>2. ASSUME NEW w \in Worker, List(w) PROVE Alone'
  <2>1. task'[w].pc = "install" /\ task'[w].got = db /\ task[w].pc = "list"
    BY <1>2 DEF List, Typed, Task
  <2>2. \A v \in Worker \ {w} : task'[v] = task[v]
    BY <1>2 DEF List, Typed
  <2>3. /\ db' = db
        /\ ~crossed' => ~crossed /\ \A v \in Worker : task[v].pc # "install"
    BY <1>2 DEF List
  <2>4. QED BY <2>1, <2>2, <2>3 DEF Alone
<1>3. ASSUME NEW w \in Worker, ListFails(w) PROVE Alone'
  BY <1>3 DEF ListFails, Alone
<1>4. ASSUME NEW w \in Worker, Install(w) PROVE Alone'
  <2>1. AfterReload(task[w]).pc \notin {"list", "install"}
    BY AfterReloadIsTask DEF Typed
  <2>2. \A v \in Worker : task'[v] = IF v = w THEN AfterReload(task[w]) ELSE task[v]
    BY <1>4 DEF Install, Typed
  <2>3. CASE ~crossed
    BY <1>4, <2>1, <2>2, <2>3 DEF Install, Alone
  <2>4. CASE crossed
    BY <1>4, <2>1, <2>2, <2>4 DEF Install, Alone
  <2>5. QED BY <2>3, <2>4
<1>5. ASSUME NEW w \in Worker, Finish(w) PROVE Alone'
  <2>1. /\ task[w].pc \in {"read", "push"} /\ task'[w].pc \in {"idle", "push"}
        /\ \A v \in Worker \ {w} : task'[v] = task[v]
    <3>1. task[w] \in Task
      BY DEF Typed
    <3>2. CASE ReadBack(w)
      BY <3>1, <3>2 DEF ReadBack, Typed, Idle, Task
    <3>3. CASE Push(w)
      BY <3>3 DEF Push, Typed, Idle
    <3>4. QED BY <1>5, <3>2, <3>3 DEF Finish
  <2>2. UNCHANGED <<db, origin, crossed>>
    BY <1>5 DEF Finish, ReadBack, Push
  <2>3. QED BY <2>1, <2>2 DEF Alone, Worker
<1>6. CASE Tick
  BY <1>6, RuleConstants DEF Tick, Alone, Typed, Worker
<1>7. CASE Restart
  BY <1>7 DEF Restart, Alone, Idle
<1>8. CASE UNCHANGED vars
  BY <1>8 DEF Alone, vars
<1>9. QED BY <1>1, <1>2, <1>3, <1>4, <1>5, <1>6, <1>7, <1>8 DEF Next, Reload

\* An edit's reload that does not cross another leaves the engine running the
\* table as it is.
THEOREM ReloadTakesEffect == Spec => []ReloadedWhenAlone
<1>1. Init => Typed /\ Alone
  <2>1. Init => Alone
    BY DEF Init, Alone, Holding, Idle
  <2>2. QED BY <2>1, InitTyped
<1>2. Typed /\ Alone /\ [Next]_vars => (Typed /\ Alone)'
  BY NextTyped, NextAlone
<1>3. Typed /\ Alone => ReloadedWhenAlone
  BY DEF Alone, ReloadedWhenAlone, Holding, Worker
<1>4. QED BY <1>1, <1>2, <1>3, PTL DEF Spec

-----------------------------------------------------------------------------
(* The mirror *)

Want(i) == IF i \in DOMAIN db THEN Rail(db[i]) ELSE Gone

\* The edit in hand knows what the table says of its rule: the row it will push
\* is the row of the table, or there is none and it will drop the rail.
Knows(w, i) ==
    /\ task[w].op \in {"save", "drop", "toggle"}
    /\ task[w].op = "save" =>
         task[w].pc # "read" /\ i \in DOMAIN db /\ task[w].row = db[i]
    /\ task[w].op = "drop" =>
         task[w].pc # "read" /\ i \notin DOMAIN db /\ task[w].row = Gone
    /\ task[w].op = "toggle" =>
         /\ task[w].pc = "push" => i \in DOMAIN db /\ task[w].row = db[i]
         /\ i \notin DOMAIN db => rails[i] = Gone

\* A rule is edited by one at a time, who knows, or its rail is in order.
Followed(i) ==
    /\ \A v, w \in Working(i) : v = w
    /\ \A w \in Working(i) : Knows(w, i)
    /\ Working(i) = {} => rails[i] = Want(i)

Mirrored ==
    /\ \A i \in Id \ strained : Followed(i)
    /\ task[Poller].pc \in {"idle", "list", "install"} /\ task[Poller].op = "poll"

\* A step that leaves a rule's row, its rail and its editors alone.
LEMMA Untouched ==
  ASSUME NEW i \in Id, Followed(i), Working(i)' = Working(i),
         \A w \in Working(i) : task'[w] = task[w],
         i \in DOMAIN db <=> i \in DOMAIN db', i \in DOMAIN db => db'[i] = db[i],
         rails'[i] = rails[i]
  PROVE  Followed(i)'
<1>1. \A w \in Working(i) : Knows(w, i)'
  BY DEF Followed, Knows
<1>2. Want(i)' = Want(i)
  BY DEF Want, Rail
<1>3. QED BY <1>1, <1>2 DEF Followed

\* What a step of a reload, and the reading back, leave alone in a task.
LEMMA Advance ==
  ASSUME NEW t \in Task, NEW pc, NEW value
  PROVE  LET a == [t EXCEPT !.pc = pc, !.got = value]
             b == [t EXCEPT !.pc = pc, !.row = value]
         IN  /\ a.pc = pc /\ a.op = t.op /\ a.id = t.id /\ a.row = t.row
             /\ b.pc = pc /\ b.op = t.op /\ b.id = t.id /\ b.row = value
  BY DEF Task

\* A step of a goroutine's reload, which its edit survives.
LEMMA ReloadKeeps ==
  ASSUME Typed, Mirrored, NEW w \in Worker, Reload(w)
  PROVE  Mirrored'
<1>1. task[w] \in Task
  BY DEF Typed
<1>2. /\ \A v \in Worker \ {w} : task'[v] = task[v]
      /\ \/ task'[w] = AfterReload(task[w])
         \/ task'[w] = [task[w] EXCEPT !.pc = "install", !.got = db]
      /\ task[w].pc \in {"list", "install"}
      /\ UNCHANGED <<db, rails, strained>>
  BY DEF Reload, List, ListFails, Install, Typed, Holding
<1> DEFINE Advanced ==
      /\ task'[w].id = task[w].id /\ task'[w].op = task[w].op /\ task'[w].row = task[w].row
      /\ task'[w].pc \in {"install", "read", "push"}
      /\ task'[w].pc = "read" => task[w].op = "toggle"
      /\ task'[w].pc = "push" => task[w].op \notin {"poll", "toggle"}
<1>6. (task'[w] = Idle /\ task[w].op = "poll") \/ Advanced
  <2>0. ASSUME NEW pc \in {"install", "read", "push"}, NEW g,
               task'[w] = [task[w] EXCEPT !.pc = pc, !.got = g],
               pc = "read" => task[w].op = "toggle",
               pc = "push" => task[w].op \notin {"poll", "toggle"}
        PROVE  Advanced
    <3>1. /\ task'[w].pc = pc /\ task'[w].op = task[w].op
          /\ task'[w].id = task[w].id /\ task'[w].row = task[w].row
      BY <1>1, <2>0, Advance
    <3>2. /\ pc \in {"install", "read", "push"} /\ (pc = "read" => task[w].op = "toggle")
          /\ pc = "push" => task[w].op \notin {"poll", "toggle"}
      BY <2>0
    <3>3. QED BY <3>1, <3>2
  <2>1. CASE task'[w] = [task[w] EXCEPT !.pc = "install", !.got = db]
    BY <2>0, <2>1
  <2>2. CASE task'[w] = AfterReload(task[w])
    <3>1. CASE task[w].op = "poll"
      BY <2>2, <3>1 DEF AfterReload
    <3>2. CASE task[w].op = "toggle"
      <4>1. task'[w] = [task[w] EXCEPT !.pc = "read", !.got = Empty]
        BY <2>2, <3>2 DEF AfterReload
      <4>2. QED BY <2>0, <3>2, <4>1
    <3>3. CASE task[w].op \notin {"poll", "toggle"}
      <4>1. task'[w] = [task[w] EXCEPT !.pc = "push", !.got = Empty]
        BY <2>2, <3>3 DEF AfterReload
      <4>2. QED BY <2>0, <3>3, <4>1
    <3>4. QED BY <3>1, <3>2, <3>3
  <2>3. QED BY <1>2, <2>1, <2>2
<1>3. ASSUME NEW i \in Id \ strained PROVE Followed(i)'
  <2>1. Followed(i)
    BY DEF Mirrored
  <2>2. CASE w \in Working(i)
    <3>1. Knows(w, i) /\ Working(i) = {w}
      BY <2>1, <2>2 DEF Followed
    <3>2. Advanced
      BY <1>6, <3>1 DEF Knows
    <3>3. Working(i)' = {w}
      BY <1>2, <2>2, <3>1, <3>2 DEF Working, Worker
    <3>4. Knows(w, i)'
      BY <1>2, <3>1, <3>2 DEF Knows
    <3>5. QED BY <3>3, <3>4 DEF Followed
  <2>3. CASE w \notin Working(i)
    <3>1. w \notin Working(i)'
      BY <1>2, <1>6, <2>3 DEF Working, Idle
    <3>2. Working(i)' = Working(i) /\ \A v \in Working(i) : task'[v] = task[v]
      BY <1>2, <2>3, <3>1 DEF Working, Worker
    <3>3. QED BY <1>2, <2>1, <3>2, Untouched
  <2>4. QED BY <2>2, <2>3
<1>4. task'[Poller].pc \in {"idle", "list", "install"} /\ task'[Poller].op = "poll"
  BY <1>2, <1>6 DEF Mirrored, Idle, Worker
<1>5. QED BY <1>2, <1>3, <1>4 DEF Mirrored

\* The statement of an edit.
LEMMA EditKeeps ==
  ASSUME Typed, Mirrored, NEW w \in Worker, Edit(w)
  PROVE  Mirrored'
<1> DEFINE Statement(op, i, row) ==
      /\ Begin(w, op, i, row)
      /\ \A j \in Id : j # i => /\ j \in DOMAIN db <=> j \in DOMAIN db'
                                /\ j \in DOMAIN db => db'[j] = db[j]
      /\ op = "save" /\ i \in DOMAIN db' => db'[i] = row
      /\ op = "drop" => i \notin DOMAIN db' /\ row = Gone
      /\ op = "toggle" => (i \in DOMAIN db <=> i \in DOMAIN db')
<1>1. ASSUME NEW op \in {"save", "drop", "toggle"}, NEW i \in Id, NEW row,
             Statement(op, i, row)
      PROVE  Mirrored'
  <2>1. /\ w \in Editor /\ task[w].pc = "idle" /\ rails' = rails
        /\ strained \subseteq strained'
        /\ i \notin strained' => Working(i) = {} /\ (op = "save" => i \in DOMAIN db')
        /\ \A v \in Worker \ {w} : task'[v] = task[v]
        /\ task'[w].pc = "list" /\ task'[w].op = op /\ task'[w].id = i /\ task'[w].row = row
    BY <1>1 DEF Begin, Typed
  <2>2. ASSUME i \notin strained' PROVE Followed(i)'
    <3>1. Followed(i) /\ Working(i) = {}
      BY <2>1, <2>2 DEF Mirrored
    <3>2. Working(i)' = {w}
      BY <2>1, <3>1 DEF Working, Worker
    <3>3. op = "toggle" /\ i \notin DOMAIN db' => rails'[i] = Gone
      BY <1>1, <2>1, <3>1 DEF Followed, Want
    <3>4. Knows(w, i)'
      BY <1>1, <2>1, <2>2, <3>3 DEF Knows
    <3>5. QED BY <3>2, <3>4 DEF Followed
  <2>3. ASSUME NEW j \in Id \ strained', j # i PROVE Followed(j)'
    <3>1. Followed(j)
      BY <2>1 DEF Mirrored
    <3>2. Working(j)' = Working(j) /\ \A v \in Working(j) : task'[v] = task[v]
      BY <2>1, <2>3 DEF Working, Worker
    <3>3. QED BY <1>1, <2>1, <2>3, <3>1, <3>2, Untouched
  <2>4. task'[Poller] = task[Poller]
    BY <2>1, RuleConstants DEF Worker
  <2>5. QED BY <2>2, <2>3, <2>4 DEF Mirrored
<1>2. ASSUME NEW row \in Row, Create(w, row) PROVE Mirrored'
  <2>1. lastId' \in Id
    BY <1>2, RuleConstants DEF Create, Typed, Id
  <2>2. Statement("save", lastId', row)
    BY <1>2 DEF Create
  <2>3. QED BY <1>1, <2>1, <2>2
<1>3. ASSUME NEW row \in Row, NEW i \in Id, Update(w, i, row) PROVE Mirrored'
  <2>1. Statement("save", i, row)
    BY <1>3 DEF Update
  <2>2. QED BY <1>1, <2>1
<1>4. ASSUME NEW i \in Id, Delete(w, i) PROVE Mirrored'
  <2>1. Statement("drop", i, Gone)
    BY <1>4 DEF Delete
  <2>2. QED BY <1>1, <2>1
<1>5. ASSUME NEW i \in Id, NEW on \in BOOLEAN, Toggle(w, i, on) PROVE Mirrored'
  <2>1. Statement("toggle", i, Gone)
    BY <1>5 DEF Toggle
  <2>2. QED BY <1>1, <2>1
<1>6. QED BY <1>2, <1>3, <1>4, <1>5 DEF Edit

\* The end of an edit: the row read back, and the push.
LEMMA FinishKeeps ==
  ASSUME Typed, Mirrored, NEW w \in Worker, Finish(w)
  PROVE  Mirrored'
<1>1. task[w] \in Task /\ w # Poller /\ w \in Editor
  BY DEF Typed, Mirrored, Finish, ReadBack, Push, Worker
<1> SUFFICES ASSUME NEW i, i = task[w].id PROVE Mirrored'
  OBVIOUS
<1>2. /\ \A v \in Worker \ {w} : task'[v] = task[v]
      /\ db' = db /\ strained \subseteq strained'
      /\ \A j \in Id \ {i} : rails'[j] = rails[j]
      /\ task[w].pc \in {"read", "push"}
      /\ task'[w] = Idle \/ task'[w] = [task[w] EXCEPT !.pc = "push", !.row = db[i]]
  <2>1. CASE ReadBack(w)
    BY <2>1 DEF ReadBack, Typed
  <2>2. CASE Push(w)
    BY <2>2 DEF Push, Typed
  <2>3. QED BY <2>1, <2>2 DEF Finish
<1>3. ASSUME NEW j \in Id \ strained', j # i PROVE Followed(j)'
  <2>1. Followed(j)
    BY <1>2 DEF Mirrored
  <2>2. w \notin Working(j) /\ w \notin Working(j)'
    <3>1. w \notin Working(j)
      BY <1>3 DEF Working
    <3>2. CASE task'[w] = Idle
      <4>1. task'[w].pc = "idle"
        BY <3>2 DEF Idle
      <4>2. QED BY <3>1, <4>1 DEF Working
    <3>3. CASE task'[w] = [task[w] EXCEPT !.pc = "push", !.row = db[i]]
      <4>1. task'[w].id = task[w].id
        BY <1>1, <3>3, Advance
      <4>2. QED BY <1>3, <3>1, <4>1 DEF Working
    <3>4. QED BY <1>2, <3>1, <3>2, <3>3
  <2>3. Working(j)' = Working(j) /\ \A v \in Working(j) : task'[v] = task[v]
    BY <1>2, <2>2 DEF Working, Worker
  <2>4. QED BY <1>2, <1>3, <2>1, <2>3, Untouched
<1>4. ASSUME i \in Id, i \notin strained' PROVE Followed(i)'
  <2>1. Knows(w, i) /\ Working(i) = {w}
    BY <1>1, <1>2, <1>4 DEF Mirrored, Followed, Working
  <2>2. CASE ReadBack(w) /\ task'[w] # Idle
    <3>1. /\ task'[w] = [task[w] EXCEPT !.pc = "push", !.row = db[i]]
          /\ i \in DOMAIN db /\ rails' = rails /\ task[w].pc = "read"
      BY <2>2 DEF ReadBack, Typed
    <3>2. Working(i)' = {w}
      BY <1>1, <1>2, <2>1, <3>1 DEF Working, Task, Worker
    <3>3. Knows(w, i)'
      BY <1>1, <1>2, <2>1, <3>1 DEF Knows, Task
    <3>4. QED BY <3>2, <3>3 DEF Followed
  <2>3. CASE task'[w] = Idle
    <3>1. Working(i)' = {}
      BY <1>1, <1>2, <2>1, <2>3 DEF Working, Idle, Worker
    <3>2. CASE ReadBack(w)
      <4>1. i \notin DOMAIN db /\ rails' = rails /\ task[w].op = "toggle"
        BY <1>1, <1>4, <2>1, <2>3, <3>2 DEF ReadBack, Typed, Idle, Knows, Task
      <4>2. rails'[i] = Want(i)'
        BY <1>2, <2>1, <4>1 DEF Knows, Want
      <4>3. QED BY <3>1, <4>2 DEF Followed
    <3>3. CASE Push(w)
      <4>1. rails'[i] = Rail(task[w].row) /\ task[w].pc = "push"
        BY <1>4, <3>3 DEF Push, Typed
      <4>2. Rail(Gone) = Gone
        BY RuleConstants DEF Rail, Gone
      <4>3. rails'[i] = Want(i)
        BY <2>1, <4>1, <4>2 DEF Knows, Want
      <4>4. Want(i)' = Want(i)
        BY <1>2 DEF Want, Rail
      <4>5. QED BY <3>1, <4>3, <4>4 DEF Followed
    <3>4. QED BY <3>2, <3>3 DEF Finish
  <2>4. CASE Push(w) /\ task'[w] # Idle
    BY <2>4 DEF Push, Typed
  <2>5. QED BY <2>2, <2>3, <2>4 DEF Finish
<1>5. task'[Poller] = task[Poller]
  BY <1>1, <1>2 DEF Worker
<1>6. QED BY <1>3, <1>4, <1>5 DEF Mirrored

LEMMA RestartKeeps == Typed /\ Mirrored /\ Restart => Mirrored'
<1> SUFFICES ASSUME Typed, Mirrored, Restart PROVE Mirrored'
  OBVIOUS
<1>1. ASSUME NEW i \in Id \ strained' PROVE Followed(i)'
  <2>1. Working(i) = {} /\ Followed(i)
    BY DEF Restart, Mirrored
  <2>2. Working(i)' = {}
    BY DEF Restart, Working, Idle, Worker
  <2>3. rails' = rails /\ db' = db
    BY DEF Restart
  <2>4. QED BY <2>1, <2>2, <2>3, Untouched
<1>2. QED BY <1>1 DEF Mirrored, Restart, Idle, Worker

LEMMA TickKeeps == Typed /\ Mirrored /\ Tick => Mirrored'
<1> SUFFICES ASSUME Typed, Mirrored, Tick PROVE Mirrored'
  OBVIOUS
<1>1. /\ \A v \in Editor : task'[v] = task[v]
      /\ UNCHANGED <<db, rails, strained>>
  BY RuleConstants DEF Tick, Typed, Worker
<1>2. \A i \in Id : Working(i)' = Working(i) /\ \A v \in Working(i) : task'[v] = task[v]
  BY <1>1 DEF Working
<1>3. ASSUME NEW i \in Id \ strained PROVE Followed(i)'
  BY <1>1, <1>2, Untouched DEF Mirrored
<1>4. task'[Poller].pc = "list" /\ task'[Poller].op = task[Poller].op
  BY DEF Tick, Typed, Worker, Task
<1>5. QED BY <1>1, <1>3, <1>4 DEF Mirrored

\* The rail of a rule that nobody is editing is the one its row authors, when no
\* push failed, no edits overlapped and none came late.
THEOREM RailsFollowRules == Spec => []MirrorFollows
<1>1. Init => Typed /\ Mirrored
  <2>1. Init => Mirrored
    BY DEF Init, Mirrored, Followed, Working, Want, Rail, Idle, Worker
  <2>2. QED BY <2>1, InitTyped
<1>2. Typed /\ Mirrored /\ [Next]_vars => (Typed /\ Mirrored)'
  <2>1. Mirrored /\ UNCHANGED vars => Mirrored'
    BY DEF Mirrored, Followed, Working, Knows, Want, Rail, vars
  <2>2. QED BY <2>1, NextTyped, ReloadKeeps, EditKeeps, FinishKeeps, RestartKeeps, TickKeeps
        DEF Next
<1>3. Typed /\ Mirrored => MirrorFollows
  BY DEF Mirrored, MirrorFollows, Followed, Want, Rail
<1>4. QED BY <1>1, <1>2, <1>3, PTL DEF Spec
-----------------------------------------------------------------------------
(* The compiled list: the rules that compile, in the order they are to match *)

\* Any set of numbers that is not empty has a least one.
LEMMA FirstOf ==
  ASSUME NEW T, T \subseteq Nat, T # {}
  PROVE  \E m \in T : \A k \in T : m <= k
<1>1. PICK m \in T : \A k \in T : <<k, m>> \notin OpToRel(<, Nat)
  BY WFMin, NatLessThanWellFounded, Zenon
<1>2. \A k \in T : ~(k < m)
  BY <1>1, Zenon DEF OpToRel
<1>3. QED BY <1>2

\* Before is a strict total order of the ids of a table.
LEMMA BeforeOrders ==
  ASSUME NEW t, Within(t), NEW i \in DOMAIN t, NEW j \in DOMAIN t, NEW k \in DOMAIN t
  PROVE  /\ ~Before(t, i, i)
         /\ Before(t, i, j) => ~Before(t, j, i)
         /\ i # j => Before(t, i, j) \/ Before(t, j, i)
         /\ Before(t, i, j) /\ Before(t, j, k) => Before(t, i, k)
<1>1. \A x \in DOMAIN t : x \in Int /\ Priority[t[x].body] \in Int
  BY RuleConstants DEF Within, Id, Row
<1>2. QED BY <1>1 DEF Before

\* s lists n of the ids in that order.
Ranks(t, ids, n, s) ==
    /\ s \in [1 .. n -> ids]
    /\ \A l, m \in 1 .. n : l < m => Before(t, s[l], s[m])

\* One more id can be put into its place.
LEMMA RankOneMore ==
  ASSUME NEW t, Within(t), NEW ids \in SUBSET DOMAIN t, NEW x \in ids, NEW n \in Nat, n > 0,
         NEW r, Ranks(t, ids \ {x}, n - 1, r)
  PROVE  \E s : Ranks(t, ids, n, s)
<1> DEFINE K == {i \in 1 .. n : i = n \/ Before(t, x, r[i])}
<1>1. K \subseteq Nat /\ n \in K
  OBVIOUS
<1>2. PICK k \in K : \A i \in K : k <= i
  BY <1>1, FirstOf
<1>3. k \in 1 .. n /\ (k = n \/ Before(t, x, r[k]))
  OBVIOUS
<1>4. \A i \in 1 .. n - 1 : r[i] \in ids /\ r[i] \in DOMAIN t /\ r[i] # x
  BY DEF Ranks
<1>5. ASSUME NEW i \in 1 .. n - 1, i < k PROVE Before(t, r[i], x)
  <2>1. ~Before(t, x, r[i])
    BY <1>2, <1>3, <1>5
  <2>2. QED BY <1>4, <2>1, BeforeOrders
<1>6. ASSUME NEW i \in 1 .. n - 1, i >= k PROVE Before(t, x, r[i])
  <2>1. Before(t, x, r[k]) /\ k \in 1 .. n - 1
    BY <1>3, <1>6
  <2>2. i = k \/ Before(t, r[k], r[i])
    BY <1>6, <2>1 DEF Ranks
  <2>3. QED BY <1>4, <2>1, <2>2, BeforeOrders
<1> DEFINE s == [i \in 1 .. n |-> IF i < k THEN r[i] ELSE IF i = k THEN x ELSE r[i - 1]]
<1>7. s \in [1 .. n -> ids]
  <2>1. ASSUME NEW i \in 1 .. n PROVE s[i] \in ids
    BY <1>3, <1>4, <2>1
  <2>2. QED BY <2>1
<1>8. ASSUME NEW l \in 1 .. n, NEW m \in 1 .. n, l < m PROVE Before(t, s[l], s[m])
  <2>0. \A i, j \in 1 .. n - 1 : i < j => Before(t, r[i], r[j])
    BY DEF Ranks
  <2>1. CASE m < k
    BY <1>3, <1>8, <2>0, <2>1
  <2>2. CASE m = k
    BY <1>3, <1>5, <1>8, <2>2
  <2>3. CASE m > k /\ l < k
    <3>1. s[l] = r[l] /\ s[m] = r[m - 1] /\ l \in 1 .. n - 1 /\ m - 1 \in 1 .. n - 1 /\ l < m - 1
      BY <1>3, <1>8, <2>3
    <3>2. QED BY <2>0, <3>1
  <2>4. CASE m > k /\ l = k
    <3>1. s[l] = x /\ s[m] = r[m - 1] /\ m - 1 \in 1 .. n - 1 /\ m - 1 >= k
      BY <1>3, <1>8, <2>4
    <3>2. QED BY <1>6, <3>1
  <2>5. CASE m > k /\ l > k
    <3>1. /\ s[l] = r[l - 1] /\ s[m] = r[m - 1]
          /\ l - 1 \in 1 .. n - 1 /\ m - 1 \in 1 .. n - 1 /\ l - 1 < m - 1
      BY <1>3, <1>8, <2>5
    <3>2. QED BY <2>0, <3>1
  <2>6. QED BY <1>3, <1>8, <2>1, <2>2, <2>3, <2>4, <2>5
<1> HIDE DEF s
<1>9. QED BY <1>7, <1>8 DEF Ranks

\* Any finite set of rules can be ranked: the smallest one that could not would
\* have a rule to put into a ranking of the others.
LEMMA RankingExists ==
  ASSUME NEW t, Within(t), NEW ids \in SUBSET DOMAIN t, IsFiniteSet(ids)
  PROVE  \E s : Ranks(t, ids, Cardinality(ids), s)
<1> DEFINE T == {n \in Nat : \E S \in SUBSET DOMAIN t : /\ IsFiniteSet(S) /\ Cardinality(S) = n
                                                         /\ ~ \E s : Ranks(t, S, n, s)}
<1>1. SUFFICES T = {}
  BY FS_CardinalityType
<1>2. SUFFICES ASSUME T # {} PROVE FALSE
  OBVIOUS
<1>3. PICK n \in T : \A m \in T : n <= m
  BY <1>2, FirstOf
<1>4. PICK S \in SUBSET DOMAIN t : IsFiniteSet(S) /\ Cardinality(S) = n /\ ~ \E s : Ranks(t, S, n, s)
  BY <1>3
<1>5. CASE S = {}
  <2>1. n = 0
    BY <1>4, <1>5, FS_EmptySet
  <2>2. Ranks(t, S, n, [i \in 1 .. 0 |-> 0])
    BY <1>5, <2>1 DEF Ranks
  <2>3. QED BY <1>4, <2>2
<1>6. CASE S # {}
  <2>1. PICK x \in S : TRUE
    BY <1>6
  <2>2. IsFiniteSet(S \ {x}) /\ Cardinality(S \ {x}) = n - 1
    BY <1>4, FS_RemoveElement
  <2>3. n \in Nat /\ n - 1 \in Nat
    BY <2>2, FS_CardinalityType
  <2>4. n - 1 \notin T
    BY <1>3, <2>3
  <2>5. PICK r : Ranks(t, S \ {x}, n - 1, r)
    BY <2>2, <2>3, <2>4
  <2>6. QED BY <1>4, <2>3, <2>5, RankOneMore
<1>7. QED BY <1>5, <1>6

\* A ranking of as many ids as there are leaves none out.
LEMMA RankingIsComplete ==
  ASSUME NEW t, Within(t), NEW ids \in SUBSET DOMAIN t, IsFiniteSet(ids),
         NEW s, Ranks(t, ids, Cardinality(ids), s), NEW i \in ids
  PROVE  \E m \in DOMAIN s : s[m] = i
<1> DEFINE n == Cardinality(ids)
           R == {s[m] : m \in 1 .. n}
<1>1. n \in Nat
  BY FS_CardinalityType
<1>2. s \in [1 .. n -> ids] /\ R \subseteq ids
  BY DEF Ranks
<1>3. ASSUME NEW l \in 1 .. n, NEW m \in 1 .. n, s[l] = s[m] PROVE l = m
  <2>1. \A k \in 1 .. n : s[k] \in DOMAIN t
    BY <1>2
  <2>2. ~Before(t, s[l], s[m]) /\ ~Before(t, s[m], s[l])
    BY <1>3, <2>1, BeforeOrders
  <2>3. QED BY <1>1, <2>2 DEF Ranks
<1>4. IsFiniteSet(1 .. n) /\ Cardinality(1 .. n) = n
  BY <1>1, FS_Interval
<1>5. s \in Bijection(1 .. n, R)
  BY <1>2, <1>3 DEF Bijection, Injection, Surjection, IsInjective
<1>6. Cardinality(R) = n
  BY <1>4, <1>5, FS_Bijection DEF ExistsBijection
<1>7. R = ids
  BY <1>2, <1>6, FS_Subset
<1>8. QED BY <1>2, <1>7

\* What a reload installs: of each rule that compiles one copy of its row, in
\* the order of priority and age.
LEMMA CompiledIsRanked ==
  ASSUME NEW t \in Tables, NEW l, l = Compiled(t)
  PROVE  /\ l \in Seq(Rule)
         /\ \A m \in DOMAIN l : LET i == l[m].id IN
              /\ i \in DOMAIN t /\ t[i].body \in Compiles
              /\ l[m].body = t[i].body /\ l[m].enabled = t[i].enabled
         /\ \A m, n \in DOMAIN l : m < n => Before(t, l[m].id, l[n].id)
         /\ \A i \in DOMAIN t : t[i].body \in Compiles => \E m \in DOMAIN l : l[m].id = i
<1> DEFINE ids == {i \in DOMAIN t : t[i].body \in Compiles}
           c == Cardinality(ids)
           Fit(s) == s \in [1 .. c -> ids] /\ \A m, n \in DOMAIN s : m < n => Before(t, s[m], s[n])
           order == CHOOSE s \in [1 .. c -> ids] : \A m, n \in DOMAIN s : m < n => Before(t, s[m], s[n])
<1>1. Within(t) /\ ids \in SUBSET DOMAIN t
  BY TablesAre
<1>2. IsFiniteSet(ids)
  <2>1. ids \subseteq 1 .. MaxId
    BY <1>1 DEF Within, Id
  <2> HIDE DEF ids
  <2>2. IsFiniteSet(1 .. MaxId)
    BY RuleConstants, FS_Interval
  <2>3. QED BY <2>1, <2>2, FS_Subset
<1>3. c \in Nat
  BY <1>2, FS_CardinalityType
<1>4. Ranks(t, ids, c, order)
  <2>1. PICK s : Ranks(t, ids, c, s)
    BY <1>1, <1>2, RankingExists
  <2>2. \E z \in [1 .. c -> ids] : \A m, n \in DOMAIN z : m < n => Before(t, z[m], z[n])
    BY <2>1 DEF Ranks
  <2>3. order \in [1 .. c -> ids] /\ \A m, n \in DOMAIN order : m < n => Before(t, order[m], order[n])
    BY <2>2
  <2>4. QED BY <2>3 DEF Ranks
<1>5. l = [n \in DOMAIN order |->
             [id |-> order[n], body |-> t[order[n]].body, enabled |-> t[order[n]].enabled]]
  BY DEF Compiled
<1>6. \A i \in ids : \E m \in DOMAIN order : order[m] = i
  <2> HIDE DEF order, ids
  <2>1. QED BY <1>1, <1>2, <1>4, RankingIsComplete
<1> HIDE DEF order, c
<1>7. DOMAIN l = 1 .. c /\ DOMAIN order = 1 .. c /\ \A m \in 1 .. c : order[m] \in ids
  BY <1>4, <1>5 DEF Ranks
<1>8. \A m \in 1 .. c : l[m].id = order[m] /\ l[m].body = t[order[m]].body
                        /\ l[m].enabled = t[order[m]].enabled
  BY <1>5, <1>7
<1>9. l \in Seq(Rule)
  <2>1. ASSUME NEW m \in 1 .. c PROVE l[m] \in Rule
    <3>1. order[m] \in Id /\ t[order[m]] \in Row
      BY <1>1, <1>7 DEF Within
    <3>2. QED BY <1>5, <1>7, <3>1 DEF Rule, Row
  <2>2. l \in [1 .. c -> Rule]
    BY <1>5, <1>7, <2>1
  <2>3. QED BY <1>3, <2>2
<1>10. QED BY <1>4, <1>6, <1>7, <1>8, <1>9 DEF Ranks

\* The engine runs the compiled form of the table it was listed from.
Ranked == loaded = Compiled(origin)

LEMMA NextRanked == Ranked /\ [Next]_vars => Ranked'
<1>1. ASSUME Ranked, NEW w, Edit(w) \/ Finish(w) \/ List(w) \/ ListFails(w) \/ Tick PROVE Ranked'
  BY <1>1 DEF Ranked, Edit, Create, Update, Delete, Toggle, Begin, List, ListFails, Finish, ReadBack,
     Push, Tick
<1>2. ASSUME NEW w, Install(w) PROVE Ranked'
  BY <1>2 DEF Ranked, Install
<1>3. ASSUME Restart PROVE Ranked'
  BY <1>3 DEF Ranked, Restart
<1>4. ASSUME Ranked, UNCHANGED vars PROVE Ranked'
  BY <1>4 DEF Ranked, vars
<1>5. QED BY <1>1, <1>2, <1>3, <1>4 DEF Next, Reload

LEMMA EngineIsRanked == Spec => [](Typed /\ Ranked)
<1>1. Init => Ranked
  BY DEF Init, Ranked
<1>2. QED BY <1>1, InitTyped, NextTyped, NextRanked, PTL DEF Spec

\* The first match in the list is the winner of the table.
LEMMA FirstHitWins ==
  ASSUME Typed, Ranked, NEW q \in Query, NEW n \in DOMAIN loaded,
         loaded[n].enabled, q \in Fits[loaded[n].body],
         \A m \in DOMAIN loaded : loaded[m].enabled /\ q \in Fits[loaded[m].body] => n <= m
  PROVE  LET i == loaded[n].id IN
         /\ i \in DOMAIN origin /\ origin[i].body = loaded[n].body
         /\ Wins(origin, i, q)
         /\ \A j \in DOMAIN origin : Wins(origin, j, q) => j = i
<1> DEFINE i == loaded[n].id
           Applies(j) == origin[j].body \in Compiles /\ origin[j].enabled /\ q \in Fits[origin[j].body]
<1>1. origin \in Tables /\ Within(origin)
  BY TablesAre DEF Typed
<1>2. /\ loaded \in Seq(Rule)
      /\ \A m \in DOMAIN loaded : LET j == loaded[m].id IN
           /\ j \in DOMAIN origin /\ origin[j].body \in Compiles
           /\ loaded[m].body = origin[j].body /\ loaded[m].enabled = origin[j].enabled
      /\ \A l, m \in DOMAIN loaded : l < m => Before(origin, loaded[l].id, loaded[m].id)
      /\ \A j \in DOMAIN origin : origin[j].body \in Compiles => \E m \in DOMAIN loaded : loaded[m].id = j
  BY <1>1, CompiledIsRanked DEF Ranked
<1>3. i \in DOMAIN origin /\ origin[i].body = loaded[n].body /\ Applies(i)
  BY <1>2
<1>4. ASSUME NEW j \in DOMAIN origin, j # i, Applies(j) PROVE Before(origin, i, j)
  <2>1. PICK m \in DOMAIN loaded : loaded[m].id = j
    BY <1>2, <1>4
  <2>2. n <= m /\ n # m
    BY <1>2, <1>4, <2>1
  <2>3. n \in Nat /\ m \in Nat
    BY <1>2
  <2>4. QED BY <1>2, <2>1, <2>2, <2>3
<1>5. ASSUME NEW j \in DOMAIN origin, j # i, Applies(j)
      PROVE  \/ Priority[origin[j].body] < Priority[origin[i].body]
             \/ Priority[origin[j].body] = Priority[origin[i].body] /\ i < j
  <2>1. origin[i] \in Row /\ origin[j] \in Row
    BY <1>1, <1>3 DEF Within
  <2>2. Priority[origin[i].body] \in Int /\ Priority[origin[j].body] \in Int
    BY <2>1, RuleConstants DEF Row
  <2>3. QED BY <1>4, <1>5, <2>2 DEF Before
<1>6. Wins(origin, i, q)
  BY <1>3, <1>5 DEF Wins
<1>7. ASSUME NEW j \in DOMAIN origin, Wins(origin, j, q) PROVE j = i
  <2>1. SUFFICES ASSUME j # i PROVE FALSE
    OBVIOUS
  <2>2. Applies(j)
    BY <1>7 DEF Wins
  <2>3. Before(origin, i, j)
    BY <1>4, <2>1, <2>2
  <2>4. \/ Priority[origin[i].body] < Priority[origin[j].body]
        \/ Priority[origin[i].body] = Priority[origin[j].body] /\ j < i
    BY <1>3, <1>7, <2>1 DEF Wins
  <2>5. \/ Priority[origin[j].body] < Priority[origin[i].body]
        \/ Priority[origin[j].body] = Priority[origin[i].body] /\ i < j
    BY <1>5, <2>1, <2>2
  <2>6. /\ i \in Int /\ j \in Int
        /\ Priority[origin[i].body] \in Int /\ Priority[origin[j].body] \in Int
    <3>1. origin[i] \in Row /\ origin[j] \in Row /\ i \in Id /\ j \in Id
      BY <1>1, <1>3 DEF Within
    <3>2. QED BY <3>1, RuleConstants DEF Row, Id
  <2>7. QED BY <2>4, <2>5, <2>6
<1>8. QED BY <1>3, <1>6, <1>7

\* For any rules, priorities and edits, whatever crossed or failed: a request is
\* decided by the rule of the highest priority, the oldest among equals, of those
\* in the table the engine was loaded from that compile, are enabled and fit; when
\* no rule decides, there is none, or it is one that lets the request pass.
THEOREM TheFirstMatchWins == Spec => []FirstMatchWins
<1>1. ASSUME Typed, Ranked PROVE FirstMatchWins
  <2> SUFFICES ASSUME NEW q \in Query, NEW underLimit \in BOOLEAN, NEW verdict,
                      verdict = Evaluate(q, underLimit)
               PROVE  \/ verdict \in DOMAIN origin /\ Wins(origin, verdict, q)
                      \/ /\ verdict = 0
                         /\ \A i \in DOMAIN origin : Wins(origin, i, q) =>
                              \/ Act[origin[i].body] = "allow"
                              \/ Act[origin[i].body] = "rate_limit" /\ underLimit
    BY DEF FirstMatchWins
  <2> DEFINE hits == {n \in DOMAIN loaded : loaded[n].enabled /\ q \in Fits[loaded[n].body]}
             n == CHOOSE n \in hits : \A m \in hits : n <= m
             first == loaded[n]
  <2>1. origin \in Tables
    BY <1>1 DEF Typed
  <2>2. CASE hits = {}
    <3>1. verdict = 0
      BY <2>2 DEF Evaluate
    <3>2. ASSUME NEW i \in DOMAIN origin, Wins(origin, i, q) PROVE FALSE
      <4>1. origin[i].body \in Compiles /\ origin[i].enabled /\ q \in Fits[origin[i].body]
        BY <3>2 DEF Wins
      <4>2. PICK m \in DOMAIN loaded : loaded[m].id = i
        BY <1>1, <2>1, <4>1, CompiledIsRanked DEF Ranked
      <4>3. loaded[m].body = origin[i].body /\ loaded[m].enabled = origin[i].enabled
        BY <1>1, <2>1, <4>2, CompiledIsRanked DEF Ranked
      <4>4. m \in hits
        BY <4>1, <4>3
      <4>5. QED BY <2>2, <4>4
    <3>3. QED BY <3>1, <3>2
  <2>3. CASE hits # {}
    <3>1. hits \subseteq Nat
      <4>1. loaded \in Seq(Rule)
        BY <1>1, <2>1, CompiledIsRanked DEF Ranked
      <4>2. QED BY <4>1
    <3>2. n \in hits /\ \A m \in hits : n <= m
      <4> HIDE DEF hits
      <4>1. QED BY <2>3, <3>1, FirstOf
    <3>3. verdict = IF Act[first.body] = "allow" THEN 0
                    ELSE IF Act[first.body] = "rate_limit" /\ underLimit THEN 0 ELSE first.id
      <4>1. verdict = CASE hits = {} -> 0
                        [] hits # {} /\ Act[first.body] = "allow" -> 0
                        [] hits # {} /\ Act[first.body] = "rate_limit" /\ underLimit -> 0
                        [] OTHER -> first.id
        BY Zenon DEF Evaluate
      <4> HIDE DEF hits, n, first
      <4>2. QED BY <2>3, <4>1
    <3> HIDE DEF n
    <3>4. /\ first.id \in DOMAIN origin /\ origin[first.id].body = first.body
          /\ Wins(origin, first.id, q)
          /\ \A j \in DOMAIN origin : Wins(origin, j, q) => j = first.id
      BY <1>1, <3>2, FirstHitWins
    <3> HIDE DEF first
    <3>5. QED BY <3>3, <3>4
  <2>4. QED BY <2>2, <2>3
<1>2. QED BY <1>1, EngineIsRanked, PTL

\* Type correctness of the rule engine, the compiled list included.
THEOREM RulesTypeOK == Spec => []TypeOK
<1> DEFINE Named(t) == (t.op # "poll" => t.id \in Id) /\ (t.pc \in {"read", "push"} => t.op # "poll")
           I == /\ DOMAIN db \subseteq 1 .. lastId /\ edits \in 0 .. MaxEdits /\ strained \subseteq Id
                /\ \A w \in Worker : Named(task[w])
<1>1. Init => I
  BY RuleConstants DEF Init, Idle
<1>2. Typed /\ I /\ [Next]_vars => I'
  <2>0. Named(Idle)
    BY DEF Idle
  <2>1. ASSUME Typed, I, UNCHANGED vars PROVE I'
    BY <2>1 DEF vars
  <2>2. ASSUME Typed, I, NEW w \in Worker, Edit(w) PROVE I'
    <3>1. edits \in Nat /\ lastId \in 0 .. MaxId /\ MaxId \in Nat /\ MaxEdits \in Nat /\ task \in [Worker -> Task]
      BY <2>2, RuleConstants DEF Typed
    <3>2. ASSUME NEW op \in {"save", "drop", "toggle"}, NEW i \in Id, NEW row, Begin(w, op, i, row)
          PROVE  edits' \in 0 .. MaxEdits /\ strained' \subseteq Id /\ \A v \in Worker : Named(task'[v])
      BY <2>2, <3>1, <3>2 DEF Begin
    <3>3. ASSUME NEW row \in Row, Create(w, row) PROVE I'
      <4>1. lastId' \in Id /\ DOMAIN db' \subseteq 1 .. lastId' /\ Begin(w, "save", lastId', row)
        BY <2>2, <3>1, <3>3 DEF Create, Id
      <4>2. QED BY <3>2, <4>1
    <3>4. ASSUME NEW i \in Id, NEW row, NEW on, Update(w, i, row) \/ Delete(w, i) \/ Toggle(w, i, on) PROVE I'
      <4>1. DOMAIN db' \subseteq 1 .. lastId'
        BY <2>2, <3>4 DEF Update, Delete, Toggle
      <4>2. Begin(w, "save", i, row) \/ Begin(w, "drop", i, Gone) \/ Begin(w, "toggle", i, Gone)
        BY <3>4 DEF Update, Delete, Toggle
      <4>3. QED BY <3>2, <4>1, <4>2
    <3>5. QED BY <2>2, <3>3, <3>4 DEF Edit
  <2>3. ASSUME Typed, I, NEW w \in Worker, Reload(w) \/ Tick PROVE I'
    <3>1. task \in [Worker -> Task] /\ Poller \in Worker
      BY <2>3 DEF Typed, Worker
    <3>2. DOMAIN db' \subseteq 1 .. lastId' /\ edits' \in 0 .. MaxEdits /\ strained' \subseteq Id
      BY <2>3 DEF Reload, List, ListFails, Install, Tick
    <3>3. ASSUME NEW t \in Task, Named(t) PROVE Named(AfterReload(t))
      BY <3>3 DEF AfterReload, Idle, Task
    <3>4. \A v \in Worker : Named(task'[v])
      <4>1. CASE List(w)
        BY <2>3, <3>1, <4>1 DEF List, Task
      <4>2. CASE ListFails(w) \/ Install(w)
        BY <2>3, <3>1, <3>3, <4>2 DEF ListFails, Install
      <4>3. CASE Tick
        BY <2>3, <3>1, <4>3 DEF Tick, Task
      <4>4. QED BY <2>3, <4>1, <4>2, <4>3 DEF Reload
    <3>5. QED BY <3>2, <3>4
  <2>4. ASSUME Typed, I, NEW w \in Worker, Finish(w) PROVE I'
    <3>1. task \in [Worker -> Task] /\ DOMAIN db \subseteq Id
      BY <2>4, TablesAre DEF Typed, Within
    <3>2. DOMAIN db' \subseteq 1 .. lastId' /\ edits' \in 0 .. MaxEdits
      BY <2>4 DEF Finish, ReadBack, Push
    <3>3. strained' \subseteq Id
      <4>1. ReadBack(w) => strained' \subseteq Id
        BY <2>4, <3>1 DEF ReadBack
      <4>2. Push(w) => strained' \subseteq Id
        BY <2>4, <3>1 DEF Push
      <4>3. QED BY <2>4, <4>1, <4>2 DEF Finish
    <3>4. \A v \in Worker : Named(task'[v])
      <4>1. \/ task' = [task EXCEPT ![w] = Idle]
            \/ task[w].pc = "read" /\ \E row : task' = [task EXCEPT ![w].pc = "push", ![w].row = row]
        BY <2>4 DEF Finish, ReadBack, Push
      <4>2. QED BY <2>0, <2>4, <3>1, <4>1 DEF Task
    <3>5. QED BY <3>2, <3>3, <3>4
  <2>5. ASSUME I, Restart PROVE I'
    <3>1. /\ UNCHANGED <<db, lastId, edits>> /\ task' = [w \in Worker |-> Idle]
          /\ strained' = strained \cup {i \in Id : Working(i) # {}}
      BY <2>5 DEF Restart
    <3>2. QED BY <2>0, <2>5, <3>1
  <2> HIDE DEF I
  <2>6. Poller \in Worker
    BY DEF Worker
  <2>7. QED BY <2>1, <2>2, <2>3, <2>4, <2>5, <2>6 DEF Next
<1>3. Typed /\ Ranked /\ I => TypeOK
  BY CompiledIsRanked DEF Typed, Ranked, TypeOK
<1> HIDE DEF I
<1>4. QED BY <1>1, <1>2, <1>3, InitTyped, NextTyped, EngineIsRanked, PTL DEF Spec

=============================================================================
