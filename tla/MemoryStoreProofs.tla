------------------------- MODULE MemoryStoreProofs -------------------------
(* Theorems about MemoryStore, for every number of agents, facts and          *)
(* goroutines, whatever is similar to what, and every size of the list.       *)
EXTENDS MemoryStore, FiniteSetTheorems, SequenceTheorems, TLAPS

-----------------------------------------------------------------------------
(* The list as a set of entries with ids of their own *)

Entries(s) == {s[n] : n \in DOMAIN s}
Ids(S) == {e.id : e \in S}
Distinct(s) == \A m, n \in DOMAIN s : s[m].id = s[n].id => m = n
Held == Entries(entries)

Typed ==
    /\ entries \in Seq(Entry) /\ rows \in [Id -> Row \cup {None}] /\ lastId \in 0 .. MaxId
    /\ task \in [Worker -> Task]
    /\ doomed \subseteq 1 .. lastId /\ gone \subseteq 1 .. lastId
    /\ loose \subseteq Id /\ odd \subseteq Id
    /\ Distinct(entries)
    /\ \A w \in Worker : LET t == task[w] IN
         /\ t.pc = "insert" => t.id = 0
         /\ t.pc \in {"append", "update", "persist"} => t.id # 0
         /\ t.pc \in {"insert", "append", "update", "persist"} =>
              t.agent \in Agent /\ t.fact \in Says[t.agent]
         /\ t.pc = "delete" => t.id <= lastId /\ t.victims \subseteq 1 .. lastId

\* Whoever names the agent of an id: the list, the table, a goroutine.
Writing(t) == t.pc \in {"append", "update", "persist"}
Owned(i, a) ==
    \/ \E e \in Held : e.id = i /\ e.agent = a
    \/ i \in Stored /\ rows[i].agent = a
    \/ \E w \in Worker : Writing(task[w]) /\ task[w].id = i /\ task[w].agent = a
OneOwner == \A i, a : Owned(i, a) => i \in 1 .. lastId /\ \A b : Owned(i, b) => a = b

\* A row that is still to be appended is nobody else's business.
Pending ==
    \A v \in Worker : task[v].pc = "append" =>
        LET i == task[v].id IN
        /\ i \notin doomed \cup gone \cup InMemory
        /\ \A w \in Worker \ {v} : Writing(task[w]) => task[w].id # i
        /\ \A w \in Worker : Deleting(w) => i \notin task[w].victims
        /\ i \in Stored => rows[i].fact = task[v].fact
        /\ ~task[v].torn => i \in Stored

\* What a removal has yet to delete from the table has left the list, and
\* what it may yet tear is known to be torn.
Removing ==
    \A w \in Worker : Deleting(w) =>
        /\ \A e \in Held : Covers(task[w], e.agent, e.id) => e.id \in loose
        /\ \A v \in Worker : Storing(v) /\ Covers(task[w], task[v].agent, task[v].id) => task[v].torn
        /\ \A i \in task[w].victims :
             i \notin InMemory /\ (i \in Stored => Covers(task[w], rows[i].agent, i))

Dead == gone \cap (InMemory \cup Stored) = {} /\ doomed \cap InMemory = {}

Updating ==
    \A w \in Worker : \A e \in Held : task[w].pc = "persist" /\ task[w].id = e.id =>
        /\ e.id \in odd
        /\ e.id \notin loose =>
             /\ e.fact = task[w].fact
             /\ \A v \in Worker \ {w} : task[v].pc = "persist" => task[v].id # e.id

Matching ==
    \A e \in Held : e.id \notin loose =>
        /\ e.id \in Stored
        /\ \/ rows[e.id].fact = e.fact
           \/ \E w \in Worker : task[w].pc = "persist" /\ task[w].id = e.id /\ task[w].fact = e.fact

OwnFacts ==
    /\ \A e \in Held : e.fact \in Says[e.agent]
    /\ \A i \in Stored : rows[i].fact \in Says[rows[i].agent]

Unlike ==
    \A e \in Held : e.id \notin odd =>
        /\ e.id \in Stored => rows[e.id].fact = e.fact
        /\ \A f \in Held : f.id # e.id /\ f.agent = e.agent /\ f.id \notin odd =>
             <<e.fact, f.fact>> \notin Same \cup Near

Unmet ==
    \A v \in Worker : Storing(v) /\ ~task[v].met =>
        \A e \in Held : e.agent = task[v].agent => <<task[v].fact, e.fact>> \notin Same \cup Near

MemoryInv ==
    /\ Typed /\ OneOwner /\ Pending /\ Removing /\ Dead /\ Updating /\ Matching
    /\ OwnFacts /\ Unlike /\ Unmet

-----------------------------------------------------------------------------
(* What the operations make of a list *)

LEMMA ListIs ==
  ASSUME NEW s \in Seq(Entry)
  PROVE  DOMAIN s = 1 .. Len(s) /\ Len(s) \in Nat /\ \A n \in DOMAIN s : s[n] \in Entry
  BY LenProperties

LEMMA InMemoryIs ==
  /\ \A i : i \in InMemory <=> \E e \in Held : e.id = i
  /\ \A i : i \in InMemory' <=> \E e \in Held' : e.id = i
  BY DEF InMemory, Held, Entries

LEMMA AppendList ==
  ASSUME NEW s \in Seq(Entry), Distinct(s), NEW e \in Entry, \A x \in Entries(s) : x.id # e.id
  PROVE  LET l == Append(s, e) IN l \in Seq(Entry) /\ Distinct(l) /\ Entries(l) = Entries(s) \cup {e}
<1> DEFINE l == Append(s, e)
<1>1. l \in Seq(Entry) /\ Len(l) = Len(s) + 1 /\ Len(s) \in Nat /\ l[Len(s) + 1] = e
      /\ \A n \in 1 .. Len(s) : l[n] = s[n]
  BY AppendProperties, LenProperties
<1>2. DOMAIN l = 1 .. Len(s) + 1 /\ DOMAIN s = 1 .. Len(s)
  BY <1>1, LenProperties
<1> HIDE DEF l
<1>3. Entries(l) = Entries(s) \cup {e}
  <2>1. \A n \in DOMAIN l : (n \in DOMAIN s /\ l[n] = s[n]) \/ n = Len(s) + 1
    BY <1>1, <1>2
  <2>2. \A n \in DOMAIN s : n \in DOMAIN l /\ l[n] = s[n]
    BY <1>1, <1>2
  <2>3. Len(s) + 1 \in DOMAIN l
    BY <1>1, <1>2
  <2>4. QED BY <1>1, <2>1, <2>2, <2>3 DEF Entries
<1>4. Distinct(l)
  <2> SUFFICES ASSUME NEW m \in DOMAIN l, NEW n \in DOMAIN l, l[m].id = l[n].id PROVE m = n
    BY DEF Distinct
  <2>1. \A k \in 1 .. Len(s) : l[k].id # e.id /\ l[k] = s[k]
    BY <1>1, <1>2 DEF Entries
  <2>2. \A k \in DOMAIN l : k \in 1 .. Len(s) \/ k = Len(s) + 1
    BY <1>1, <1>2
  <2>3. QED BY <1>1, <1>2, <2>1, <2>2 DEF Distinct
<1>5. QED BY <1>1, <1>3, <1>4 DEF l

LEMMA WithoutList ==
  ASSUME NEW s \in Seq(Entry), Distinct(s), NEW n \in DOMAIN s
  PROVE  LET l == Without(s, n) IN l \in Seq(Entry) /\ Distinct(l) /\ Entries(l) = Entries(s) \ {s[n]}
<1> DEFINE l == Without(s, n)
           u == SubSeq(s, 1, n - 1)
           v == SubSeq(s, n + 1, Len(s))
<1>1. n \in 1 .. Len(s) /\ Len(s) \in Nat /\ DOMAIN s = 1 .. Len(s) /\ \A k \in 1 .. Len(s) : s[k] \in Entry
  BY LenProperties
<1>2. u \in Seq(Entry) /\ Len(u) = n - 1 /\ \A k \in 1 .. n - 1 : u[k] = s[k]
  <2>1. 1 \in Int /\ n - 1 \in Int /\ \A k \in 1 .. n - 1 : s[k] \in Entry
    BY <1>1
  <2>2. /\ u \in Seq(Entry) /\ Len(u) = (IF 1 <= n - 1 THEN n - 1 - 1 + 1 ELSE 0)
        /\ \A k \in 1 .. n - 1 - 1 + 1 : u[k] = s[1 + k - 1]
    BY <2>1, SubSeqProperties
  <2>3. QED BY <1>1, <2>2
<1>3. v \in Seq(Entry) /\ Len(v) = Len(s) - n /\ \A k \in 1 .. Len(s) - n : v[k] = s[n + k]
  <2>1. n + 1 \in Int /\ Len(s) \in Int /\ \A k \in n + 1 .. Len(s) : s[k] \in Entry
    BY <1>1
  <2>2. /\ v \in Seq(Entry) /\ Len(v) = (IF n + 1 <= Len(s) THEN Len(s) - (n + 1) + 1 ELSE 0)
        /\ \A k \in 1 .. Len(s) - (n + 1) + 1 : v[k] = s[n + 1 + k - 1]
    BY <2>1, SubSeqProperties
  <2>3. Len(v) = Len(s) - n /\ Len(s) - (n + 1) + 1 = Len(s) - n
    BY <1>1, <2>2
  <2>4. ASSUME NEW k \in 1 .. Len(s) - n PROVE v[k] = s[n + k]
    <3>1. v[k] = s[n + 1 + k - 1]
      BY <2>2, <2>3
    <3>2. n + 1 + k - 1 = n + k
      BY <1>1
    <3>3. QED BY <3>1, <3>2
  <2>5. QED BY <2>2, <2>3, <2>4
<1> HIDE DEF u, v
<1>4. /\ l \in Seq(Entry) /\ Len(l) = Len(s) - 1
      /\ \A k \in 1 .. Len(s) - 1 : l[k] = IF k < n THEN s[k] ELSE s[k + 1]
  <2>1. l = u \o v
    BY DEF u, v, Without
  <2>2. /\ l \in Seq(Entry) /\ Len(l) = Len(u) + Len(v)
        /\ \A k \in 1 .. Len(u) + Len(v) : l[k] = IF k <= Len(u) THEN u[k] ELSE v[k - Len(u)]
    BY <1>2, <1>3, <2>1, ConcatProperties
  <2>3. Len(l) = Len(s) - 1 /\ Len(u) + Len(v) = Len(s) - 1
    BY <1>1, <1>2, <1>3, <2>2
  <2>4. ASSUME NEW k \in 1 .. Len(s) - 1 PROVE l[k] = IF k < n THEN s[k] ELSE s[k + 1]
    <3>1. l[k] = IF k <= n - 1 THEN u[k] ELSE v[k - (n - 1)]
      BY <1>2, <2>2, <2>3
    <3>2. CASE k < n
      BY <1>1, <1>2, <3>1, <3>2
    <3>3. CASE ~(k < n)
      <4>1. k - (n - 1) \in 1 .. Len(s) - n /\ n + (k - (n - 1)) = k + 1
        BY <1>1, <3>3
      <4>2. v[k - (n - 1)] = s[k + 1]
        BY <1>3, <4>1
      <4>3. QED BY <1>1, <3>1, <3>3, <4>2
    <3>4. QED BY <3>2, <3>3
  <2>5. QED BY <2>2, <2>3, <2>4
<1>5. DOMAIN l = 1 .. Len(s) - 1
  BY <1>4, LenProperties
<1> HIDE DEF l
<1> DEFINE from(k) == IF k < n THEN k ELSE k + 1
<1>6. \A k \in DOMAIN l : from(k) \in DOMAIN s \ {n} /\ l[k] = s[from(k)]
  BY <1>1, <1>4, <1>5
<1>7. \A m \in DOMAIN s \ {n} : \E k \in DOMAIN l : from(k) = m
  <2> SUFFICES ASSUME NEW m \in DOMAIN s \ {n} PROVE \E k \in DOMAIN l : from(k) = m
    OBVIOUS
  <2>1. CASE m < n
    BY <1>1, <1>5, <2>1
  <2>2. CASE m > n
    <3>1. m - 1 \in DOMAIN l /\ from(m - 1) = m
      BY <1>1, <1>5, <2>2
    <3>2. QED BY <3>1
  <2>3. QED BY <1>1, <2>1, <2>2
<1>8. \A j, k \in DOMAIN l : from(j) = from(k) => j = k
  BY <1>1, <1>5
<1> HIDE DEF from
<1>9. Distinct(l)
  BY <1>6, <1>8 DEF Distinct
<1>10. Entries(l) = Entries(s) \ {s[n]}
  <2>1. \A m \in DOMAIN s \ {n} : s[m] # s[n]
    BY DEF Distinct
  <2>2. \A e \in Entries(l) : e \in Entries(s) \ {s[n]}
    BY <1>6, <2>1 DEF Entries
  <2>3. \A e \in Entries(s) \ {s[n]} : e \in Entries(l)
    <3> SUFFICES ASSUME NEW m \in DOMAIN s \ {n} PROVE s[m] \in Entries(l)
      BY DEF Entries
    <3>1. PICK k \in DOMAIN l : from(k) = m
      BY <1>7
    <3>2. QED BY <1>6, <3>1 DEF Entries
  <2>4. QED BY <2>2, <2>3
<1>11. QED BY <1>4, <1>9, <1>10 DEF l

LEMMA KeptList ==
  ASSUME entries \in Seq(Entry), Distinct(entries), NEW a, NEW i, NEW l \in Kept(a, i)
  PROVE  /\ l \in Seq(Entry) /\ Distinct(l)
         /\ Entries(l) = {e \in Held : ~Covers([agent |-> a, id |-> i], e.agent, e.id)}
<1> DEFINE left == {n \in DOMAIN entries : ~Covers([agent |-> a, id |-> i], entries[n].agent, entries[n].id)}
           c == Cardinality(left)
<1>1. DOMAIN entries = 1 .. Len(entries) /\ Len(entries) \in Nat /\ \A n \in DOMAIN entries : entries[n] \in Entry
  BY LenProperties
<1>2. IsFiniteSet(left) /\ c \in Nat
  <2>1. IsFiniteSet(1 .. Len(entries))
    BY <1>1, FS_Interval
  <2>2. IsFiniteSet(left)
    BY <1>1, <2>1, FS_Subset
  <2>3. QED BY <2>2, FS_CardinalityType
<1>3. PICK f \in Bijection(1 .. c, left) : l = [k \in DOMAIN f |-> entries[f[k]]]
  BY DEF Kept
<1> HIDE DEF c
<1>4. /\ f \in [1 .. c -> left] /\ \A j, k \in 1 .. c : f[j] = f[k] => j = k
      /\ \A n \in left : \E k \in 1 .. c : f[k] = n
  BY <1>3 DEF Bijection, Injection, Surjection, IsInjective
<1>5. l \in [1 .. c -> Entry] /\ \A k \in 1 .. c : l[k] = entries[f[k]] /\ f[k] \in left
  BY <1>1, <1>3, <1>4
<1>6. l \in Seq(Entry) /\ DOMAIN l = 1 .. c
  BY <1>2, <1>5
<1>7. Distinct(l)
  BY <1>4, <1>5, <1>6 DEF Distinct
<1>8. Entries(l) = {e \in Held : ~Covers([agent |-> a, id |-> i], e.agent, e.id)}
  <2>1. \A e \in Entries(l) : e \in Held /\ ~Covers([agent |-> a, id |-> i], e.agent, e.id)
    BY <1>5, <1>6 DEF Entries, Held
  <2>2. ASSUME NEW n \in left PROVE entries[n] \in Entries(l)
    <3>1. PICK k \in 1 .. c : f[k] = n
      BY <1>4
    <3>2. QED BY <1>5, <1>6, <3>1 DEF Entries
  <2>3. QED BY <2>1, <2>2 DEF Entries, Held
<1>9. QED BY <1>6, <1>7, <1>8

Rewritten(e, i, f) == IF e.id = i THEN [e EXCEPT !.fact = f] ELSE e

LEMMA RewriteIs ==
  ASSUME NEW e \in Entry, NEW i, NEW f \in Fact
  PROVE  LET x == Rewritten(e, i, f) IN
         x \in Entry /\ x.id = e.id /\ x.agent = e.agent /\ x.fact = IF e.id = i THEN f ELSE e.fact
  BY DEF Entry, Rewritten

Rewrite(s, i, f) == [n \in DOMAIN s |-> IF s[n].id = i THEN [s[n] EXCEPT !.fact = f] ELSE s[n]]

LEMMA RewrittenList ==
  ASSUME NEW s \in Seq(Entry), Distinct(s), NEW i, NEW f \in Fact, NEW l, l = Rewrite(s, i, f)
  PROVE  l \in Seq(Entry) /\ Distinct(l) /\ Entries(l) = {Rewritten(e, i, f) : e \in Entries(s)}
<1>1. DOMAIN s = 1 .. Len(s) /\ Len(s) \in Nat /\ \A n \in DOMAIN s : s[n] \in Entry
  BY LenProperties
<1>2. l = [n \in DOMAIN s |-> l[n]] /\ \A n \in DOMAIN s : l[n] = Rewritten(s[n], i, f)
  BY DEF Rewrite, Rewritten
<1>3. ASSUME NEW n \in DOMAIN s PROVE l[n] \in Entry /\ l[n].id = s[n].id
  <2>1. s[n] \in Entry
    BY <1>1
  <2>2. Rewritten(s[n], i, f) \in Entry /\ Rewritten(s[n], i, f).id = s[n].id
    BY <2>1, RewriteIs
  <2>3. QED BY <1>2, <2>2
<1>4. l \in Seq(Entry)
  BY <1>1, <1>2, <1>3
<1>5. Distinct(l)
  BY <1>2, <1>3 DEF Distinct
<1>6. Entries(l) = {Rewritten(e, i, f) : e \in Entries(s)}
  BY <1>2 DEF Entries
<1>7. QED BY <1>4, <1>5, <1>6

LEMMA WarmList ==
  ASSUME rows \in [Id -> Row \cup {None}], NEW s \in WarmRows,
         NEW l, l = [n \in DOMAIN s |-> [id |-> s[n], agent |-> rows[s[n]].agent, fact |-> rows[s[n]].fact]]
  PROVE  /\ l \in Seq(Entry) /\ Distinct(l)
         /\ \A e \in Entries(l) : e.id \in Stored /\ e.agent = rows[e.id].agent /\ e.fact = rows[e.id].fact
<1>1. IsFiniteSet(Stored) /\ Cardinality(Stored) \in Nat
  <2>1. Stored \subseteq 1 .. MaxId
    BY DEF Stored, Id
  <2>2. IsFiniteSet(1 .. MaxId)
    <3>1. 1 \in Int /\ MaxId \in Int
      BY MemoryConstants
    <3>2. QED BY <3>1, FS_Interval, Zenon
  <2>3. IsFiniteSet(Stored)
    BY <2>1, <2>2, FS_Subset
  <2>4. QED BY <2>3, FS_CardinalityType
<1>2. PICK c \in Nat : s \in [1 .. c -> Stored] /\ \A k, m \in 1 .. c : k # m => s[k] # s[m]
  <2> DEFINE most == IF Cardinality(Stored) < MaxEntries THEN Cardinality(Stored) ELSE MaxEntries
  <2>1. PICK n \in 0 .. most :
          s \in {t \in [1 .. n -> Stored] : \A k, m \in 1 .. n : k # m => t[k] # t[m]}
    BY Zenon DEF WarmRows
  <2>2. n \in Nat
    BY <1>1, MemoryConstants
  <2>3. QED BY <2>1, <2>2
<1>3. \A i \in Stored : rows[i] \in Row /\ i \in Id
  BY DEF Stored
<1>4. DOMAIN l = 1 .. c /\ \A n \in 1 .. c : l[n] = [id |-> s[n], agent |-> rows[s[n]].agent, fact |-> rows[s[n]].fact]
  BY <1>2
<1>5. \A n \in 1 .. c : s[n] \in Stored /\ l[n] \in Entry /\ l[n].id = s[n] /\ l[n].agent = rows[s[n]].agent
                        /\ l[n].fact = rows[s[n]].fact
  BY <1>2, <1>3, <1>4 DEF Entry, Row
<1>6. l \in Seq(Entry)
  BY <1>4, <1>5
<1>7. QED BY <1>2, <1>4, <1>5, <1>6 DEF Distinct, Entries

-----------------------------------------------------------------------------
(* One step at a time *)

LEMMA IdleIs ==
  /\ Idle \in Task /\ Idle.pc = "idle" /\ Idle.agent = None /\ Idle.fact = None /\ Idle.id = 0
  /\ Idle.victims = {} /\ Idle.torn = FALSE /\ Idle.met = FALSE
  /\ DOMAIN Idle = {"pc", "agent", "fact", "id", "victims", "torn", "met"}
  BY DEF Idle, Task

\* List, table and goroutines agree on the agent of an id.
LEMMA Agree ==
  ASSUME MemoryInv
  PROVE  /\ \A e \in Held : e \in Entry /\ e.id \in 1 .. lastId
         /\ \A e, f \in Held : e.id = f.id => e = f
         /\ \A i \in Stored : i \in 1 .. lastId /\ rows[i] \in Row
         /\ \A e \in Held : e.id \in Stored => rows[e.id].agent = e.agent
         /\ \A w \in Worker : Writing(task[w]) =>
              /\ task[w].id \in 1 .. lastId
              /\ \A e \in Held : e.id = task[w].id => e.agent = task[w].agent
              /\ task[w].id \in Stored => rows[task[w].id].agent = task[w].agent
<1>1. Typed /\ OneOwner
  BY DEF MemoryInv
<1>2. entries \in Seq(Entry) /\ Distinct(entries)
  BY <1>1 DEF Typed
<1>3. \A n \in DOMAIN entries : entries[n] \in Entry
  BY <1>2, ListIs
<1>4. \A e \in Held : Owned(e.id, e.agent)
  BY DEF Owned
<1>5. \A i \in Stored : Owned(i, rows[i].agent)
  BY DEF Owned
<1>6. \A w \in Worker : Writing(task[w]) => Owned(task[w].id, task[w].agent)
  BY DEF Owned
<1>7. \A i, a, b : Owned(i, a) /\ Owned(i, b) => a = b /\ i \in 1 .. lastId
  BY <1>1 DEF OneOwner
<1>8. \A e \in Held : e \in Entry /\ e.id \in 1 .. lastId
  BY <1>3, <1>4, <1>7 DEF Held, Entries
<1>9. \A e, f \in Held : e.id = f.id => e = f
  BY <1>2 DEF Held, Entries, Distinct
<1>10. \A i \in Stored : i \in 1 .. lastId /\ rows[i] \in Row
  <2>1. \A i \in Stored : rows[i] \in Row
    BY <1>1 DEF Typed, Stored
  <2>2. QED BY <1>5, <1>7, <2>1
<1>11. \A e \in Held : e.id \in Stored => rows[e.id].agent = e.agent
  BY <1>4, <1>5, <1>7
<1>12. \A w \in Worker : Writing(task[w]) =>
              /\ task[w].id \in 1 .. lastId
              /\ \A e \in Held : e.id = task[w].id => e.agent = task[w].agent
              /\ task[w].id \in Stored => rows[task[w].id].agent = task[w].agent
  BY <1>4, <1>5, <1>6, <1>7
<1>13. QED BY <1>8, <1>9, <1>10, <1>11, <1>12

LEMMA MemoryStart == Init => MemoryInv
<1> SUFFICES ASSUME Init PROVE MemoryInv
  OBVIOUS
<1>1. entries = <<>> /\ Held = {} /\ Stored = {} /\ InMemory = {} /\ lastId = 0 /\ gone = {} /\ doomed = {}
      /\ \A w \in Worker : task[w] = Idle
  BY DEF Init, Held, Entries, Stored, InMemory
<1>2. Typed
  BY <1>1, IdleIs, MemoryConstants DEF Init, Typed, Distinct
<1>3. OneOwner
  BY <1>1, IdleIs DEF OneOwner, Owned, Writing
<1>4. Pending /\ Removing /\ Dead /\ Updating /\ Matching /\ OwnFacts /\ Unlike /\ Unmet
  BY <1>1, IdleIs DEF Pending, Removing, Deleting, Dead, Updating, Matching, OwnFacts, Unlike, Unmet, Storing
<1>5. QED BY <1>2, <1>3, <1>4 DEF MemoryInv

\* A goroutine that gives up: an INSERT, an UPDATE or a DELETE that failed.
LEMMA GivingUpKeeps ==
  ASSUME MemoryInv, NEW w \in Worker, task' = [task EXCEPT ![w] = Idle],
         UNCHANGED <<entries, rows, lastId, doomed, gone, odd>>,
         \/ task[w].pc # "persist" /\ loose' = loose
         \/ loose' = loose \cup ({task[w].id} \cap InMemory)
  PROVE  MemoryInv'
<1>0. Typed /\ OneOwner /\ Pending /\ Removing /\ Dead /\ Updating /\ Matching /\ OwnFacts /\ Unlike /\ Unmet
  BY DEF MemoryInv
<1>1. Held' = Held /\ Stored' = Stored /\ InMemory' = InMemory
  BY DEF Held, Stored, InMemory
<1>2. task \in [Worker -> Task] /\ task' \in [Worker -> Task] /\ \A v \in Worker : task'[v] = IF v = w THEN Idle ELSE task[v]
  BY <1>0, IdleIs DEF Typed
<1>3. loose \subseteq loose' /\ loose' \subseteq Id /\ (task[w].pc = "persist" => \A e \in Held : e.id = task[w].id => e.id \in loose')
  <2>1. \A e \in Held : e.id \in InMemory /\ e.id \in Id
    BY InMemoryIs, Agree DEF Entry
  <2>2. InMemory \subseteq Id
    BY <2>1, InMemoryIs
  <2>3. loose \subseteq Id
    BY <1>0 DEF Typed
  <2>4. QED BY <2>1, <2>2, <2>3
<1>4. Typed'
  BY <1>0, <1>2, <1>3, IdleIs DEF Typed
<1>5. OneOwner'
  <2>1. \A i, a : Owned(i, a)' => Owned(i, a)
    BY <1>1, <1>2, IdleIs DEF Owned, Writing
  <2>2. QED BY <1>0, <2>1 DEF OneOwner
<1>6. Pending'
  BY <1>0, <1>1, <1>2, IdleIs DEF Pending, Writing, Deleting
<1>7. Removing'
  BY <1>0, <1>1, <1>2, <1>3, IdleIs DEF Removing, Deleting, Storing
<1>8. Dead' /\ OwnFacts'
  BY <1>0, <1>1 DEF Dead, OwnFacts
<1>9. Updating'
  BY <1>0, <1>1, <1>2, <1>3, IdleIs DEF Updating
<1>10. Matching'
  BY <1>0, <1>1, <1>2, <1>3, IdleIs DEF Matching
<1>11. Unlike' /\ Unmet'
  BY <1>0, <1>1, <1>2, IdleIs DEF Unlike, Unmet, Storing
<1>12. QED BY <1>4, <1>5, <1>6, <1>7, <1>8, <1>9, <1>10, <1>11 DEF MemoryInv

LEMMA ScanKeeps ==
  ASSUME MemoryInv, NEW w \in Worker, NEW a \in Agent, NEW f \in Says[a], Scan(w, a, f)
  PROVE  MemoryInv'
<1>0. Typed /\ OneOwner /\ Pending /\ Removing /\ Dead /\ Updating /\ Matching /\ OwnFacts /\ Unlike /\ Unmet
  BY DEF MemoryInv
<1>1. /\ UNCHANGED <<entries, rows, lastId, doomed, gone, loose, odd>>
      /\ Held' = Held /\ Stored' = Stored /\ InMemory' = InMemory /\ task[w].pc = "idle"
  BY DEF Scan, history, Held, Stored, InMemory
<1>2. PICK t : /\ task' = [task EXCEPT ![w] = t]
               /\ \/ /\ Hits(a, f) = {}
                     /\ t = [Idle EXCEPT !.pc = "insert", !.agent = a, !.fact = f, !.torn = Crossed(a)]
                  \/ \E n \in Hits(a, f) :
                       t = [Idle EXCEPT !.pc = "update", !.agent = a, !.fact = f, !.id = entries[n].id]
  BY DEF Scan
<1>3. f \in Fact
  BY MemoryConstants
<1>4. /\ t \in Task /\ t.agent = a /\ t.fact = f /\ t.victims = {} /\ t.met = FALSE
      /\ \/ t.pc = "insert" /\ t.id = 0 /\ t.torn = Crossed(a) /\ Hits(a, f) = {}
         \/ t.pc = "update" /\ \E e \in Held : t.id = e.id /\ e.agent = a
  <2>1. CASE Hits(a, f) = {} /\ t = [Idle EXCEPT !.pc = "insert", !.agent = a, !.fact = f, !.torn = Crossed(a)]
    <3>1. Crossed(a) \in BOOLEAN
      BY DEF Crossed
    <3>2. QED BY <1>3, <2>1, <3>1 DEF Task, Idle
  <2>2. ASSUME NEW n \in Hits(a, f),
               t = [Idle EXCEPT !.pc = "update", !.agent = a, !.fact = f, !.id = entries[n].id]
        PROVE  /\ t \in Task /\ t.agent = a /\ t.fact = f /\ t.victims = {} /\ t.met = FALSE
               /\ t.pc = "update" /\ \E e \in Held : t.id = e.id /\ e.agent = a
    <3>1. entries[n] \in Held /\ entries[n].agent = a
      BY DEF Hits, Held, Entries
    <3>2. entries[n].id \in Id
      BY <3>1, Agree DEF Entry
    <3>3. t \in Task /\ t.agent = a /\ t.fact = f /\ t.victims = {} /\ t.met = FALSE /\ t.pc = "update" /\ t.id = entries[n].id
      BY <1>3, <2>2, <3>2 DEF Task, Idle
    <3>4. QED BY <3>1, <3>3
  <2>3. QED BY <1>2, <2>1, <2>2
<1>5. task \in [Worker -> Task] /\ task' \in [Worker -> Task] /\ \A v \in Worker : task'[v] = IF v = w THEN t ELSE task[v]
  BY <1>0, <1>2, <1>4 DEF Typed
<1>6. Typed'
  BY <1>0, <1>1, <1>4, <1>5, Agree DEF Typed
<1>7. OneOwner'
  <2>1. \A i, b : Owned(i, b)' => Owned(i, b)
    BY <1>1, <1>4, <1>5 DEF Owned, Writing
  <2>2. QED BY <1>0, <1>1, <2>1 DEF OneOwner
<1>8. Pending'
  <2>1. \A v \in Worker : task[v].pc = "append" => \A e \in Held : e.id # task[v].id
    BY <1>0, InMemoryIs DEF Pending
  <2>2. QED BY <1>0, <1>1, <1>4, <1>5, <2>1 DEF Pending, Writing, Deleting
<1>9. Removing'
  <2>1. ASSUME NEW v \in Worker, Deleting(v), Covers(task[v], a, 0) PROVE Crossed(a)
    BY <2>1 DEF Crossed, Covers
  <2>2. QED BY <1>0, <1>1, <1>4, <1>5, <2>1 DEF Removing, Deleting, Storing
<1>10. Dead' /\ OwnFacts' /\ Unlike'
  BY <1>0, <1>1 DEF Dead, OwnFacts, Unlike
<1>11. Updating'
  BY <1>0, <1>1, <1>4, <1>5 DEF Updating
<1>12. Matching'
  BY <1>0, <1>1, <1>4, <1>5 DEF Matching
<1>13. Unmet'
  <2>1. Hits(a, f) = {} => \A e \in Held : e.agent = a => <<f, e.fact>> \notin Same \cup Near
    BY DEF Hits, Held, Entries
  <2>2. QED BY <1>0, <1>1, <1>4, <1>5, <2>1 DEF Unmet, Storing
<1>14. QED BY <1>6, <1>7, <1>8, <1>9, <1>10, <1>11, <1>12, <1>13 DEF MemoryInv

LEMMA InsertKeeps == ASSUME MemoryInv, NEW w \in Worker, Insert(w) PROVE MemoryInv'
<1> DEFINE i == lastId + 1
<1>0. Typed /\ OneOwner /\ Pending /\ Removing /\ Dead /\ Updating /\ Matching /\ OwnFacts /\ Unlike /\ Unmet
  BY DEF MemoryInv
<1>1. /\ UNCHANGED <<entries, doomed, gone, loose, odd>> /\ lastId' = i /\ lastId < MaxId /\ lastId \in Nat /\ i \in Id
      /\ Held' = Held /\ InMemory' = InMemory /\ task[w].pc = "insert"
      /\ i \notin 1 .. lastId /\ 1 .. lastId \subseteq 1 .. lastId' /\ i \in 1 .. lastId'
  BY <1>0, MemoryConstants DEF Insert, history, Held, InMemory, Typed, Id
<1>2. PICK t : t = [task[w] EXCEPT !.pc = "append", !.id = i]
  OBVIOUS
<1>3. task' = [task EXCEPT ![w] = t]
  BY <1>0, <1>2 DEF Insert, Typed
<1>4. task[w] \in Task /\ task[w].id = 0 /\ task[w].agent \in Agent /\ task[w].fact \in Says[task[w].agent]
  BY <1>0, <1>1 DEF Typed
<1>5. /\ t \in Task /\ t.pc = "append" /\ t.id = i /\ t.agent = task[w].agent /\ t.fact = task[w].fact
      /\ t.torn = task[w].torn /\ t.met = task[w].met
  BY <1>1, <1>2, <1>4 DEF Task
<1>6. task \in [Worker -> Task] /\ task' \in [Worker -> Task] /\ \A v \in Worker : task'[v] = IF v = w THEN t ELSE task[v]
  BY <1>0, <1>3, <1>5 DEF Typed
<1>7. PICK r : r = [agent |-> t.agent, fact |-> t.fact]
  OBVIOUS
<1>8. r \in Row /\ r # None /\ r.agent = t.agent /\ r.fact = t.fact
  BY <1>4, <1>5, <1>7, MemoryConstants DEF Row
<1>9. rows' \in [Id -> Row \cup {None}] /\ \A j \in Id : rows'[j] = IF j = i THEN r ELSE rows[j]
  BY <1>0, <1>1, <1>5, <1>7, <1>8 DEF Insert, Typed
<1>10. Stored' = Stored \cup {i}
  BY <1>1, <1>8, <1>9 DEF Stored
<1> HIDE DEF i
<1>11. Typed'
  <2>1. lastId' \in 0 .. MaxId /\ lastId <= lastId'
    BY <1>1, MemoryConstants DEF i
  <2>2. doomed' \subseteq 1 .. lastId' /\ gone' \subseteq 1 .. lastId' /\ loose' \subseteq Id /\ odd' \subseteq Id
    BY <1>0, <1>1 DEF Typed
  <2>3. entries' \in Seq(Entry) /\ Distinct(entries)'
    BY <1>0, <1>1 DEF Typed, Distinct
  <2>4. i # 0
    BY <1>1
  <2>5. ASSUME NEW v \in Worker, v # w
        PROVE  /\ task[v].pc = "insert" => task[v].id = 0
               /\ task[v].pc \in {"append", "update", "persist"} => task[v].id # 0
               /\ task[v].pc \in {"insert", "append", "update", "persist"} =>
                    task[v].agent \in Agent /\ task[v].fact \in Says[task[v].agent]
               /\ task[v].pc = "delete" => task[v].id <= lastId' /\ task[v].victims \subseteq 1 .. lastId'
    <3>1. task[v].id \in Nat
      BY <1>6 DEF Task, Id
    <3>2. lastId' \in Nat
      BY <2>1
    <3>3. QED BY <1>0, <1>1, <2>1, <3>1, <3>2 DEF Typed
  <2>6. QED BY <1>4, <1>5, <1>6, <1>9, <2>1, <2>2, <2>3, <2>4, <2>5 DEF Typed
<1>12. i \notin Stored /\ \A e \in Held : e.id # i
  BY <1>1, Agree
<1>13. \A j \in Stored : rows'[j] = rows[j] /\ j # i /\ j \in Id
  BY <1>9, <1>12 DEF Stored
<1>14. OneOwner'
  <2>1. \A j, a : Owned(j, a)' => Owned(j, a) \/ (j = i /\ a = t.agent)
    <3> SUFFICES ASSUME NEW j, NEW a, Owned(j, a)' PROVE Owned(j, a) \/ (j = i /\ a = t.agent)
      OBVIOUS
    <3>1. CASE \E e \in Held' : e.id = j /\ e.agent = a
      BY <1>1, <3>1 DEF Owned
    <3>2. CASE j \in Stored' /\ rows'[j].agent = a
      BY <1>1, <1>8, <1>9, <1>10, <1>13, <3>2 DEF Owned
    <3>3. CASE \E v \in Worker : Writing(task'[v]) /\ task'[v].id = j /\ task'[v].agent = a
      BY <1>5, <1>6, <3>3 DEF Owned, Writing
    <3>4. QED BY <3>1, <3>2, <3>3 DEF Owned
  <2>2. \A a : ~Owned(i, a)
    BY <1>0, <1>1 DEF OneOwner
  <2>3. QED BY <1>0, <1>1, <2>1, <2>2 DEF OneOwner
<1>15. Pending'
  <2>1. i \notin doomed \cup gone \cup InMemory
    BY <1>0, <1>1, <1>12, InMemoryIs DEF Typed
  <2>2. \A v \in Worker : Writing(task[v]) => task[v].id # i
    BY <1>1, Agree
  <2>3. \A v \in Worker : Deleting(v) => i \notin task[v].victims
    BY <1>0, <1>1 DEF Typed, Deleting
  <2>4. ASSUME NEW v \in Worker, task[v].pc = "append", v # w
        PROVE  /\ task[v].id \in Stored' => rows'[task[v].id].fact = task[v].fact
               /\ ~task[v].torn => task[v].id \in Stored'
    <3>1. task[v].id # i
      BY <2>2, <2>4 DEF Writing
    <3>2. QED BY <1>0, <1>10, <1>13, <2>4, <3>1 DEF Pending
  <2>5. QED BY <1>0, <1>1, <1>5, <1>6, <1>8, <1>9, <1>10, <2>1, <2>2, <2>3, <2>4 DEF Pending, Writing, Deleting
<1>16. Removing'
  <2>1. ASSUME NEW v \in Worker, Deleting(v), Covers(task[v], t.agent, i) PROVE Covers(task[v], task[w].agent, task[w].id)
    <3>1. task[v].id # i
      BY <1>0, <1>1, <2>1 DEF Typed, Deleting
    <3>2. QED BY <1>4, <1>5, <2>1, <3>1 DEF Covers
  <2>2. QED BY <1>0, <1>1, <1>5, <1>6, <1>10, <1>13, <2>1 DEF Removing, Deleting, Storing, Typed
<1>17. Dead'
  BY <1>0, <1>1, <1>10 DEF Dead, Typed
<1>18. Updating'
  BY <1>0, <1>1, <1>5, <1>6 DEF Updating
<1>19. Matching'
  BY <1>0, <1>1, <1>5, <1>6, <1>10, <1>13 DEF Matching
<1>20. OwnFacts'
  BY <1>0, <1>1, <1>4, <1>5, <1>8, <1>9, <1>10, <1>13 DEF OwnFacts
<1>21. Unlike'
  BY <1>0, <1>1, <1>10, <1>12, <1>13 DEF Unlike
<1>22. Unmet'
  BY <1>0, <1>1, <1>5, <1>6 DEF Unmet, Storing
<1>23. QED BY <1>11, <1>14, <1>15, <1>16, <1>17, <1>18, <1>19, <1>20, <1>21, <1>22 DEF MemoryInv

LEMMA AppendEntryKeeps == ASSUME MemoryInv, NEW w \in Worker, AppendEntry(w) PROVE MemoryInv'
<1>0. Typed /\ OneOwner /\ Pending /\ Removing /\ Dead /\ Updating /\ Matching /\ OwnFacts /\ Unlike /\ Unmet
  BY DEF MemoryInv
<1>1. PICK t : t = task[w]
  OBVIOUS
<1>2. PICK e : e = [id |-> t.id, agent |-> t.agent, fact |-> t.fact]
  OBVIOUS
<1>3. UNCHANGED <<rows, lastId, gone>> /\ Stored' = Stored /\ t.pc = "append"
  BY <1>1 DEF AppendEntry, Stored
<1>4. /\ t \in Task /\ t.id \in 1 .. lastId /\ t.agent \in Agent /\ t.fact \in Says[t.agent] /\ t.fact \in Fact
      /\ t.id \in Id /\ t.id \notin doomed \cup gone \cup InMemory
      /\ \A v \in Worker \ {w} : Writing(task[v]) => task[v].id # t.id
      /\ \A v \in Worker : Deleting(v) => t.id \notin task[v].victims
      /\ t.id \in Stored => rows[t.id].fact = t.fact /\ rows[t.id].agent = t.agent
      /\ ~t.torn => t.id \in Stored
  <2>1. t \in Task /\ t.agent \in Agent /\ t.fact \in Says[t.agent] /\ lastId \in 0 .. MaxId
    BY <1>0, <1>1, <1>3 DEF Typed
  <2>2. t.id \in 1 .. lastId /\ (t.id \in Stored => rows[t.id].agent = t.agent)
    BY <1>1, <1>3, Agree DEF Writing
  <2>3. t.fact \in Fact /\ t.id \in Id
    BY <2>1, <2>2, MemoryConstants DEF Id
  <2>4. QED BY <1>0, <1>1, <1>3, <2>1, <2>2, <2>3 DEF Pending
<1>5. e \in Entry /\ e.id = t.id /\ e.agent = t.agent /\ e.fact = t.fact
  BY <1>2, <1>4 DEF Entry
<1>6. PICK R \in SUBSET Held : /\ Held' = R \cup {e} /\ doomed' = doomed \cup Ids(Held \ R)
                               /\ entries' \in Seq(Entry) /\ Distinct(entries)'
  <2>1. entries \in Seq(Entry) /\ Distinct(entries) /\ \A x \in Held : x.id # e.id
    BY <1>0, <1>4, <1>5, InMemoryIs DEF Typed
  <2>2. CASE Full
    <3>1. PICK n \in Evictable(t.agent) : entries' = Append(Without(entries, n), e) /\ doomed' = doomed \cup {entries[n].id}
      BY <1>1, <1>2, <2>2 DEF AppendEntry
    <3>2. n \in DOMAIN entries
      BY <3>1 DEF Evictable
    <3>3. PICK l : l = Without(entries, n)
      OBVIOUS
    <3>4. l \in Seq(Entry) /\ Distinct(l) /\ Entries(l) = Held \ {entries[n]}
      BY <2>1, <3>2, <3>3, WithoutList DEF Held
    <3>5. entries' \in Seq(Entry) /\ Distinct(entries') /\ Entries(entries') = Entries(l) \cup {e}
      BY <1>5, <2>1, <3>1, <3>3, <3>4, AppendList
    <3>6. Held' = (Held \ {entries[n]}) \cup {e} /\ Distinct(entries)'
      BY <3>4, <3>5 DEF Held, Distinct, Entries
    <3>7. entries[n] \in Held
      BY <3>2 DEF Held, Entries
    <3>8. Ids(Held \ (Held \ {entries[n]})) = {entries[n].id}
      BY <3>7 DEF Ids
    <3>9. QED BY <3>1, <3>5, <3>6, <3>8
  <2>3. CASE ~Full
    <3>1. entries' = Append(entries, e) /\ doomed' = doomed
      BY <1>1, <1>2, <2>3 DEF AppendEntry
    <3>2. entries' \in Seq(Entry) /\ Distinct(entries') /\ Entries(entries') = Held \cup {e}
      BY <1>5, <2>1, <3>1, AppendList DEF Held
    <3>3. Held' = Held \cup {e} /\ Distinct(entries)'
      BY <3>2 DEF Held, Distinct, Entries
    <3>4. Ids(Held \ Held) = {}
      BY DEF Ids
    <3>5. QED BY <3>1, <3>2, <3>3, <3>4
  <2>4. QED BY <2>2, <2>3
<1>7. /\ loose' = (IF t.torn THEN loose \cup {t.id} ELSE loose) \cap InMemory'
      /\ odd' = (IF t.met THEN odd \cup {t.id} ELSE odd) \cap InMemory'
  BY <1>1 DEF AppendEntry
<1>8. \A i : i \in InMemory' <=> i = t.id \/ \E x \in R : x.id = i
  BY <1>5, <1>6, InMemoryIs
<1>9. /\ \A x \in R : x \in Held /\ x.id # t.id /\ (x.id \in loose' <=> x.id \in loose) /\ (x.id \in odd' <=> x.id \in odd)
      /\ (t.torn => t.id \in loose') /\ (t.met => t.id \in odd') /\ loose' \subseteq Id /\ odd' \subseteq Id
  <2>1. \A x \in R : x \in Held /\ x.id # t.id
    BY <1>4, <1>6, InMemoryIs
  <2>2. QED BY <1>0, <1>4, <1>7, <1>8, <2>1 DEF Typed
<1>10. \A i : i \in doomed' => i \in doomed \/ \E x \in Held \ R : x.id = i
  BY <1>6 DEF Ids
<1>11. task' = [v \in Worker |-> IF v = w THEN Idle
               ELSE [task[v] EXCEPT !.met = @ \/ (Storing(v) /\ task[v].agent = t.agent)]]
  BY <1>1 DEF AppendEntry
<1>12. ASSUME NEW v \in Worker, v # w
       PROVE  /\ task'[v] \in Task /\ task'[v].pc = task[v].pc /\ task'[v].agent = task[v].agent
              /\ task'[v].fact = task[v].fact /\ task'[v].id = task[v].id /\ task'[v].victims = task[v].victims
              /\ task'[v].torn = task[v].torn /\ (task[v].met => task'[v].met)
              /\ (Storing(v) /\ task[v].agent = t.agent => task'[v].met)
  <2>1. PICK b : b = (Storing(v) /\ task[v].agent = t.agent)
    OBVIOUS
  <2>2. b \in BOOLEAN /\ task[v] \in Task
    BY <1>0, <2>1 DEF Typed, Storing
  <2>3. task'[v] = [task[v] EXCEPT !.met = @ \/ b]
    BY <1>11, <1>12, <2>1
  <2>4. QED BY <2>1, <2>2, <2>3 DEF Task
<1>13. task'[w] = Idle /\ task' = [v \in Worker |-> task'[v]]
  BY <1>11
<1>14. Typed'
  <2>1. doomed' \subseteq 1 .. lastId'
    <3>1. \A x \in Held : x.id \in 1 .. lastId
      BY Agree
    <3>2. doomed \subseteq 1 .. lastId
      BY <1>0 DEF Typed
    <3>3. QED BY <1>3, <1>10, <3>1, <3>2
  <2>2. task' \in [Worker -> Task]
    BY <1>12, <1>13, IdleIs
  <2>3. rows' \in [Id -> Row \cup {None}] /\ lastId' \in 0 .. MaxId /\ gone' \subseteq 1 .. lastId'
    BY <1>0, <1>3 DEF Typed
  <2>4. ASSUME NEW v \in Worker
        PROVE  LET x == task'[v] IN
               /\ x.pc = "insert" => x.id = 0
               /\ x.pc \in {"append", "update", "persist"} => x.id # 0
               /\ x.pc \in {"insert", "append", "update", "persist"} =>
                    x.agent \in Agent /\ x.fact \in Says[x.agent]
               /\ x.pc = "delete" => x.id <= lastId' /\ x.victims \subseteq 1 .. lastId'
    <3>1. CASE v = w
      BY <1>13, <3>1, IdleIs
    <3>2. CASE v # w
      BY <1>0, <1>3, <1>12, <3>2 DEF Typed
    <3>3. QED BY <3>1, <3>2
  <2>5. QED BY <1>6, <1>9, <2>1, <2>2, <2>3, <2>4 DEF Typed
<1>15. OneOwner'
  <2>1. ASSUME NEW i, NEW a, Owned(i, a)' PROVE Owned(i, a)
    <3>1. CASE \E x \in Held' : x.id = i /\ x.agent = a
      <4>1. (\E x \in Held : x.id = i /\ x.agent = a) \/ (i = t.id /\ a = t.agent)
        BY <1>5, <1>6, <3>1
      <4>2. QED BY <1>1, <1>3, <4>1 DEF Owned, Writing
    <3>2. CASE i \in Stored' /\ rows'[i].agent = a
      BY <1>3, <3>2 DEF Owned
    <3>3. CASE \E v \in Worker : Writing(task'[v]) /\ task'[v].id = i /\ task'[v].agent = a
      BY <1>12, <1>13, <3>3, IdleIs DEF Owned, Writing
    <3>4. QED BY <2>1, <3>1, <3>2, <3>3 DEF Owned
  <2>2. QED BY <1>0, <1>3, <2>1 DEF OneOwner
<1>16. Pending'
  <2>1. ASSUME NEW v \in Worker, task'[v].pc = "append"
        PROVE  /\ v # w /\ task[v].pc = "append" /\ task'[v].id = task[v].id
               /\ task[v].id \notin doomed' \cup gone' \cup InMemory'
    <3>1. v # w /\ task[v].pc = "append" /\ task'[v].id = task[v].id
      BY <1>12, <1>13, <2>1, IdleIs
    <3>2. task[v].id # t.id /\ \A x \in Held : x.id # task[v].id
      BY <1>0, <1>4, <3>1, InMemoryIs DEF Pending, Writing
    <3>3. QED BY <1>0, <1>3, <1>8, <1>9, <1>10, <3>1, <3>2 DEF Pending
  <2>2. QED BY <1>0, <1>3, <1>12, <1>13, <2>1, IdleIs DEF Pending, Writing, Deleting
<1>17. Removing'
  <2> SUFFICES ASSUME NEW v \in Worker, Deleting(v)'
               PROVE  /\ \A x \in Held' : Covers(task'[v], x.agent, x.id) => x.id \in loose'
                      /\ \A u \in Worker : Storing(u)' /\ Covers(task'[v], task'[u].agent, task'[u].id) => task'[u].torn
                      /\ \A i \in task'[v].victims :
                           i \notin InMemory' /\ (i \in Stored' => Covers(task'[v], rows'[i].agent, i))
    BY DEF Removing
  <2>1. v # w /\ Deleting(v) /\ \A a, i : Covers(task'[v], a, i) <=> Covers(task[v], a, i)
    BY <1>12, <1>13, IdleIs DEF Deleting, Covers
  <2>2. Covers(task[v], t.agent, t.id) => t.torn
    BY <1>0, <1>1, <1>3, <2>1 DEF Removing, Storing
  <2>3. \A x \in Held' : Covers(task'[v], x.agent, x.id) => x.id \in loose'
    BY <1>0, <1>5, <1>6, <1>9, <2>1, <2>2 DEF Removing
  <2>4. \A u \in Worker : Storing(u)' /\ Covers(task'[v], task'[u].agent, task'[u].id) => task'[u].torn
    BY <1>0, <1>12, <1>13, <2>1, IdleIs DEF Removing, Storing
  <2>5. \A i \in task[v].victims : i # t.id /\ (\A x \in R : x.id # i)
    BY <1>0, <1>4, <1>9, <2>1, InMemoryIs DEF Removing
  <2>6. \A i \in task'[v].victims : i \notin InMemory' /\ (i \in Stored' => Covers(task'[v], rows'[i].agent, i))
    BY <1>0, <1>3, <1>8, <1>12, <2>1, <2>5 DEF Removing
  <2>7. QED BY <2>3, <2>4, <2>6
<1>18. Dead'
  <2>1. \A x \in R : x.id \notin gone /\ x.id \notin doomed
    BY <1>0, <1>9, InMemoryIs DEF Dead
  <2>2. \A x \in R : \A y \in Held \ R : x.id # y.id
    BY Agree
  <2>3. \A y \in Held : y.id # t.id
    BY <1>4, InMemoryIs
  <2>4. QED BY <1>0, <1>3, <1>4, <1>8, <1>10, <2>1, <2>2, <2>3 DEF Dead
<1>19. Updating'
  <2> SUFFICES ASSUME NEW v \in Worker, NEW x \in Held', task'[v].pc = "persist", task'[v].id = x.id
               PROVE  /\ x.id \in odd'
                      /\ x.id \notin loose' =>
                           /\ x.fact = task'[v].fact
                           /\ \A u \in Worker \ {v} : task'[u].pc = "persist" => task'[u].id # x.id
    BY DEF Updating
  <2>1. v # w /\ task[v].pc = "persist" /\ task[v].id = x.id /\ task'[v].fact = task[v].fact
    BY <1>12, <1>13, IdleIs
  <2>2. x \in R
    BY <1>4, <1>5, <1>6, <2>1 DEF Writing
  <2>3. QED BY <1>0, <1>9, <1>12, <1>13, <2>1, <2>2, IdleIs DEF Updating
<1>20. Matching'
  <2>1. ASSUME NEW x \in R, x.id \notin loose'
        PROVE  /\ x.id \in Stored
               /\ \/ rows[x.id].fact = x.fact
                  \/ \E v \in Worker : task'[v].pc = "persist" /\ task'[v].id = x.id /\ task'[v].fact = x.fact
    <3>1. /\ x.id \in Stored
          /\ \/ rows[x.id].fact = x.fact
             \/ \E v \in Worker : task[v].pc = "persist" /\ task[v].id = x.id /\ task[v].fact = x.fact
      BY <1>0, <1>9, <2>1 DEF Matching
    <3>2. QED BY <1>1, <1>3, <1>12, <3>1
  <2>2. QED BY <1>3, <1>4, <1>5, <1>6, <1>9, <2>1 DEF Matching
<1>21. OwnFacts'
  BY <1>0, <1>3, <1>4, <1>5, <1>6 DEF OwnFacts
<1>22. Unlike'
  <2>1. ~t.met => \A x \in R : x.agent = t.agent => /\ <<t.fact, x.fact>> \notin Same \cup Near
                                                    /\ <<x.fact, t.fact>> \notin Same \cup Near
    <3>1. ~t.met => \A x \in R : x.agent = t.agent => <<t.fact, x.fact>> \notin Same \cup Near
      BY <1>0, <1>1, <1>3 DEF Unmet, Storing
    <3>2. \A f, g : <<g, f>> \in Same \cup Near => <<f, g>> \in Same \cup Near
      BY MemoryConstants
    <3>3. QED BY <3>1, <3>2
  <2>2. \A x \in R : x.id \notin odd' => x.id \notin odd /\ (x.id \in Stored => rows[x.id].fact = x.fact)
    BY <1>0, <1>9 DEF Unlike
  <2>3. \A x, y \in R : x.id \notin odd' /\ y.id # x.id /\ y.agent = x.agent /\ y.id \notin odd' =>
          <<x.fact, y.fact>> \notin Same \cup Near
    BY <1>0, <1>9 DEF Unlike
  <2>4. e.id \notin odd' => ~t.met
    BY <1>5, <1>9
  <2>5. ASSUME NEW x \in Held', NEW y \in Held', x.id \notin odd', y.id # x.id, y.agent = x.agent, y.id \notin odd'
        PROVE  <<x.fact, y.fact>> \notin Same \cup Near
    <3>1. CASE x \in R /\ y \in R
      BY <2>3, <2>5, <3>1
    <3>2. CASE x = e /\ y \in R
      BY <1>5, <2>1, <2>4, <2>5, <3>2
    <3>3. CASE x \in R /\ y = e
      BY <1>5, <2>1, <2>4, <2>5, <3>3
    <3>4. QED BY <1>6, <2>5, <3>1, <3>2, <3>3
  <2>6. \A x \in Held' : x.id \notin odd' => (x.id \in Stored => rows[x.id].fact = x.fact)
    BY <1>4, <1>5, <1>6, <2>2
  <2>7. QED BY <1>3, <2>5, <2>6 DEF Unlike
<1>23. Unmet'
  <2> SUFFICES ASSUME NEW v \in Worker, Storing(v)', ~task'[v].met, NEW x \in Held', x.agent = task'[v].agent
               PROVE  <<task'[v].fact, x.fact>> \notin Same \cup Near
    BY DEF Unmet
  <2>1. v # w /\ Storing(v) /\ ~task[v].met /\ task'[v].agent = task[v].agent /\ task'[v].fact = task[v].fact
        /\ task[v].agent # t.agent
    BY <1>12, <1>13, IdleIs DEF Storing
  <2>2. x \in Held
    BY <1>5, <1>6, <2>1
  <2>3. QED BY <1>0, <2>1, <2>2 DEF Unmet
<1>24. QED BY <1>14, <1>15, <1>16, <1>17, <1>18, <1>19, <1>20, <1>21, <1>22, <1>23 DEF MemoryInv

LEMMA UpdateMemoryKeeps == ASSUME MemoryInv, NEW w \in Worker, UpdateMemory(w) PROVE MemoryInv'
<1>0. Typed /\ OneOwner /\ Pending /\ Removing /\ Dead /\ Updating /\ Matching /\ OwnFacts /\ Unlike /\ Unmet
  BY DEF MemoryInv
<1>1. PICK t : t = task[w]
  OBVIOUS
<1>2. UNCHANGED <<rows, lastId, doomed, gone>> /\ Stored' = Stored /\ t.pc = "update"
  BY <1>1 DEF UpdateMemory, Stored
<1>3. /\ t \in Task /\ t.id \in 1 .. lastId /\ t.agent \in Agent /\ t.fact \in Says[t.agent] /\ t.fact \in Fact
      /\ t.id # 0 /\ \A e \in Held : e.id = t.id => e.agent = t.agent
  <2>1. t \in Task /\ t.agent \in Agent /\ t.fact \in Says[t.agent] /\ t.id # 0
    BY <1>0, <1>1, <1>2 DEF Typed
  <2>2. t.id \in 1 .. lastId /\ \A e \in Held : e.id = t.id => e.agent = t.agent
    BY <1>1, <1>2, Agree DEF Writing
  <2>3. QED BY <2>1, <2>2, MemoryConstants
<1>4. entries' \in Seq(Entry) /\ Distinct(entries)' /\ Held' = {Rewritten(e, t.id, t.fact) : e \in Held}
  <2>1. PICK l : l = Rewrite(entries, t.id, t.fact)
    OBVIOUS
  <2>2. entries \in Seq(Entry) /\ Distinct(entries)
    BY <1>0 DEF Typed
  <2>3. l \in Seq(Entry) /\ Distinct(l) /\ Entries(l) = {Rewritten(e, t.id, t.fact) : e \in Entries(entries)}
    BY <1>3, <2>1, <2>2, RewrittenList
  <2>4. entries' = l
    BY <1>1, <2>1 DEF UpdateMemory, Rewrite
  <2>5. QED BY <2>3, <2>4 DEF Held, Entries, Distinct
<1>5. /\ \A x \in Held' : \E e \in Held : /\ x.id = e.id /\ x.agent = e.agent
                                          /\ x.fact = IF e.id = t.id THEN t.fact ELSE e.fact
      /\ \A e \in Held : \E x \in Held' : x.id = e.id
  <2>1. \A e \in Held : e \in Entry
    BY Agree
  <2>2. QED BY <1>3, <1>4, <2>1, RewriteIs
<1>6. InMemory' = InMemory
  BY <1>5, InMemoryIs
<1>7. /\ \A i \in odd : i \in odd'
      /\ \A e \in Held : e.id = t.id => e.id \in odd'
      /\ \A i \in loose : i \in loose'
      /\ \A e \in Held : e.id = t.id /\ e.id \notin loose' =>
           \A v \in Worker \ {w} : task[v].pc = "persist" => task[v].id # t.id
      /\ loose' \subseteq Id /\ odd' \subseteq Id
  <2>1. loose' = IF \E v \in Worker \ {w} : task[v].pc = "persist" /\ task[v].id = t.id
                 THEN loose \cup ({t.id} \cap InMemory) ELSE loose
    BY <1>1 DEF UpdateMemory
  <2>2. odd' = odd \cup ({t.id} \cap InMemory)
    BY <1>1 DEF UpdateMemory
  <2>3. t.id \in Id
    BY <1>3 DEF Task
  <2>4. \A e \in Held : e.id \in InMemory
    BY InMemoryIs
  <2>5. loose' \subseteq Id /\ odd' \subseteq Id
    BY <1>0, <2>1, <2>2, <2>3 DEF Typed
  <2>6. QED BY <2>1, <2>2, <2>4, <2>5
<1>8. PICK p : p = [t EXCEPT !.pc = "persist"]
  OBVIOUS
<1>9. p \in Task /\ p.pc = "persist" /\ p.id = t.id /\ p.agent = t.agent /\ p.fact = t.fact
  BY <1>3, <1>8 DEF Task
<1>10. task' = [v \in Worker |-> IF v = w THEN p
               ELSE [task[v] EXCEPT !.met = @ \/ (Storing(v) /\ task[v].agent = t.agent)]]
  BY <1>1, <1>8 DEF UpdateMemory
<1>11. ASSUME NEW v \in Worker, v # w
       PROVE  /\ task'[v] \in Task /\ task'[v].pc = task[v].pc /\ task'[v].agent = task[v].agent
              /\ task'[v].fact = task[v].fact /\ task'[v].id = task[v].id /\ task'[v].victims = task[v].victims
              /\ task'[v].torn = task[v].torn /\ (task[v].met => task'[v].met)
              /\ (Storing(v) /\ task[v].agent = t.agent => task'[v].met)
  <2>1. PICK b : b = (Storing(v) /\ task[v].agent = t.agent)
    OBVIOUS
  <2>2. b \in BOOLEAN /\ task[v] \in Task
    BY <1>0, <2>1 DEF Typed, Storing
  <2>3. task'[v] = [task[v] EXCEPT !.met = @ \/ b]
    BY <1>10, <1>11, <2>1
  <2>4. QED BY <2>1, <2>2, <2>3 DEF Task
<1>12. task'[w] = p /\ task' = [v \in Worker |-> task'[v]]
  BY <1>10
<1>13. Typed'
  <2>1. task' \in [Worker -> Task]
    BY <1>9, <1>11, <1>12
  <2>2. rows' \in [Id -> Row \cup {None}] /\ lastId' \in 0 .. MaxId /\ gone' \subseteq 1 .. lastId' /\ doomed' \subseteq 1 .. lastId'
    BY <1>0, <1>2 DEF Typed
  <2>3. ASSUME NEW v \in Worker
        PROVE  LET x == task'[v] IN
               /\ x.pc = "insert" => x.id = 0
               /\ x.pc \in {"append", "update", "persist"} => x.id # 0
               /\ x.pc \in {"insert", "append", "update", "persist"} =>
                    x.agent \in Agent /\ x.fact \in Says[x.agent]
               /\ x.pc = "delete" => x.id <= lastId' /\ x.victims \subseteq 1 .. lastId'
    <3>1. CASE v = w
      BY <1>3, <1>9, <1>12, <3>1
    <3>2. CASE v # w
      BY <1>0, <1>2, <1>11, <3>2 DEF Typed
    <3>3. QED BY <3>1, <3>2
  <2>4. QED BY <1>4, <1>7, <2>1, <2>2, <2>3 DEF Typed
<1>14. OneOwner'
  <2>1. ASSUME NEW i, NEW a, Owned(i, a)' PROVE Owned(i, a)
    <3>1. CASE \E x \in Held' : x.id = i /\ x.agent = a
      BY <1>5, <3>1 DEF Owned
    <3>2. CASE i \in Stored' /\ rows'[i].agent = a
      BY <1>2, <3>2 DEF Owned
    <3>3. CASE \E v \in Worker : Writing(task'[v]) /\ task'[v].id = i /\ task'[v].agent = a
      BY <1>1, <1>2, <1>9, <1>11, <1>12, <3>3 DEF Owned, Writing
    <3>4. QED BY <2>1, <3>1, <3>2, <3>3 DEF Owned
  <2>2. QED BY <1>0, <1>2, <2>1 DEF OneOwner
<1>15. Pending'
  <2>1. \A v \in Worker : task[v].pc = "append" => task[v].id # t.id
    BY <1>0, <1>1, <1>2 DEF Pending, Writing
  <2>2. QED BY <1>0, <1>1, <1>2, <1>6, <1>9, <1>11, <1>12, <2>1 DEF Pending, Writing, Deleting
<1>16. Removing'
  <2> SUFFICES ASSUME NEW v \in Worker, Deleting(v)'
               PROVE  /\ \A x \in Held' : Covers(task'[v], x.agent, x.id) => x.id \in loose'
                      /\ \A u \in Worker : Storing(u)' /\ Covers(task'[v], task'[u].agent, task'[u].id) => task'[u].torn
                      /\ \A i \in task'[v].victims :
                           i \notin InMemory' /\ (i \in Stored' => Covers(task'[v], rows'[i].agent, i))
    BY DEF Removing
  <2>1. v # w /\ Deleting(v) /\ \A a, i : Covers(task'[v], a, i) <=> Covers(task[v], a, i)
    BY <1>9, <1>11, <1>12 DEF Deleting, Covers
  <2>2. \A x \in Held' : Covers(task'[v], x.agent, x.id) => x.id \in loose'
    BY <1>0, <1>5, <1>7, <2>1 DEF Removing
  <2>3. \A u \in Worker : Storing(u)' /\ Covers(task'[v], task'[u].agent, task'[u].id) => task'[u].torn
    BY <1>0, <1>9, <1>11, <1>12, <2>1 DEF Removing, Storing
  <2>4. \A i \in task'[v].victims : i \notin InMemory' /\ (i \in Stored' => Covers(task'[v], rows'[i].agent, i))
    BY <1>0, <1>2, <1>6, <1>11, <2>1 DEF Removing
  <2>5. QED BY <2>2, <2>3, <2>4
<1>17. Dead'
  BY <1>0, <1>2, <1>6 DEF Dead
<1>18. Updating'
  <2> SUFFICES ASSUME NEW v \in Worker, NEW x \in Held', task'[v].pc = "persist", task'[v].id = x.id
               PROVE  /\ x.id \in odd'
                      /\ x.id \notin loose' =>
                           /\ x.fact = task'[v].fact
                           /\ \A u \in Worker \ {v} : task'[u].pc = "persist" => task'[u].id # x.id
    BY DEF Updating
  <2>1. PICK e \in Held : x.id = e.id /\ x.fact = IF e.id = t.id THEN t.fact ELSE e.fact
    BY <1>5
  <2>2. CASE v = w
    BY <1>7, <1>9, <1>11, <1>12, <2>1, <2>2
  <2>3. CASE v # w
    <3>1. task[v].pc = "persist" /\ task[v].id = e.id /\ task'[v].fact = task[v].fact
      BY <1>11, <2>1, <2>3
    <3>2. CASE e.id = t.id
      <4>1. e.id \in loose'
        BY <1>7, <2>3, <3>1, <3>2
      <4>2. QED BY <1>7, <2>1, <3>2, <4>1
    <3>3. CASE e.id # t.id
      BY <1>0, <1>7, <1>9, <1>11, <1>12, <2>1, <3>1, <3>3 DEF Updating
    <3>4. QED BY <3>2, <3>3
  <2>4. QED BY <2>2, <2>3
<1>19. Matching'
  <2> SUFFICES ASSUME NEW x \in Held', x.id \notin loose'
               PROVE  /\ x.id \in Stored
                      /\ \/ rows[x.id].fact = x.fact
                         \/ \E v \in Worker : task'[v].pc = "persist" /\ task'[v].id = x.id /\ task'[v].fact = x.fact
    BY <1>2 DEF Matching
  <2>1. PICK e \in Held : x.id = e.id /\ x.fact = IF e.id = t.id THEN t.fact ELSE e.fact
    BY <1>5
  <2>2. /\ e.id \in Stored
        /\ \/ rows[e.id].fact = e.fact
           \/ \E v \in Worker : task[v].pc = "persist" /\ task[v].id = e.id /\ task[v].fact = e.fact
    BY <1>0, <1>7, <2>1 DEF Matching
  <2>3. CASE e.id = t.id
    BY <1>9, <1>12, <2>1, <2>2, <2>3
  <2>4. CASE e.id # t.id
    BY <1>1, <1>2, <1>11, <2>1, <2>2, <2>4
  <2>5. QED BY <2>3, <2>4
<1>20. OwnFacts'
  BY <1>0, <1>2, <1>3, <1>5 DEF OwnFacts
<1>21. Unlike'
  <2>1. \A x \in Held' : x.id \notin odd' => \E e \in Held : x.id = e.id /\ x.agent = e.agent /\ x.fact = e.fact /\ e.id \notin odd
    BY <1>5, <1>7
  <2>2. QED BY <1>0, <1>2, <2>1 DEF Unlike
<1>22. Unmet'
  <2> SUFFICES ASSUME NEW v \in Worker, Storing(v)', ~task'[v].met, NEW x \in Held', x.agent = task'[v].agent
               PROVE  <<task'[v].fact, x.fact>> \notin Same \cup Near
    BY DEF Unmet
  <2>1. v # w /\ Storing(v) /\ ~task[v].met /\ task'[v].agent = task[v].agent /\ task'[v].fact = task[v].fact
        /\ task[v].agent # t.agent
    BY <1>9, <1>11, <1>12 DEF Storing
  <2>2. PICK e \in Held : x.agent = e.agent /\ x.fact = IF e.id = t.id THEN t.fact ELSE e.fact
    BY <1>5
  <2>3. x.fact = e.fact
    BY <1>3, <2>1, <2>2
  <2>4. QED BY <1>0, <2>1, <2>2, <2>3 DEF Unmet
<1>23. QED BY <1>13, <1>14, <1>15, <1>16, <1>17, <1>18, <1>19, <1>20, <1>21, <1>22 DEF MemoryInv

\* The UPDATE of a row: every row keeps its agent, and its fact unless it is the
\* one `w` was updating.
LEMMA UpdateRowKeeps == ASSUME MemoryInv, NEW w \in Worker, UpdateRow(w) PROVE MemoryInv'
<1>0. Typed /\ OneOwner /\ Pending /\ Removing /\ Dead /\ Updating /\ Matching /\ OwnFacts /\ Unlike /\ Unmet
  BY DEF MemoryInv
<1>1. PICK t : t = task[w]
  OBVIOUS
<1>2. UNCHANGED <<entries, lastId, doomed, gone, loose, odd>> /\ Held' = Held /\ InMemory' = InMemory /\ t.pc = "persist"
  BY <1>1 DEF UpdateRow, history, Held, InMemory
<1>3. task \in [Worker -> Task] /\ task' \in [Worker -> Task] /\ \A v \in Worker : task'[v] = IF v = w THEN Idle ELSE task[v]
  BY <1>0, IdleIs DEF UpdateRow, Typed
<1>4. /\ t.agent \in Agent /\ t.fact \in Says[t.agent] /\ t.fact \in Fact /\ t.id \in Id
      /\ t.id \in Stored => rows[t.id].agent = t.agent
  <2>1. t \in Task /\ t.id # 0 /\ t.agent \in Agent /\ t.fact \in Says[t.agent]
    BY <1>0, <1>1, <1>2 DEF Typed
  <2>2. t.id \in Stored => rows[t.id].agent = t.agent
    BY <1>1, <1>2, Agree DEF Writing
  <2>3. QED BY <2>1, <2>2, MemoryConstants DEF Task
<1>5. rows \in [Id -> Row \cup {None}] /\ \A i \in Stored : rows[i] \in Row
  BY <1>0, Agree DEF Typed
<1>6. rows' = IF rows[t.id] = None THEN rows ELSE [rows EXCEPT ![t.id].fact = t.fact]
  BY <1>1 DEF UpdateRow
<1>7. /\ rows' \in [Id -> Row \cup {None}] /\ Stored' = Stored
      /\ \A i \in Stored : /\ rows'[i].agent = rows[i].agent
                           /\ rows'[i].fact = IF i = t.id THEN t.fact ELSE rows[i].fact
  <2>1. CASE rows[t.id] = None
    <3>1. t.id \notin Stored /\ rows' = rows
      BY <1>6, <2>1 DEF Stored
    <3>2. QED BY <1>5, <3>1 DEF Stored
  <2>2. CASE rows[t.id] # None
    <3>1. t.id \in Stored
      BY <1>4, <2>2 DEF Stored
    <3>2. PICK r : r = [rows[t.id] EXCEPT !.fact = t.fact]
      OBVIOUS
    <3>3. r \in Row /\ r.agent = rows[t.id].agent /\ r.fact = t.fact
      BY <1>4, <1>5, <3>1, <3>2 DEF Row
    <3>4. rows' = [rows EXCEPT ![t.id] = r]
      BY <1>5, <1>6, <2>2, <3>2
    <3>5. rows' \in [Id -> Row \cup {None}] /\ \A i \in Id : rows'[i] = IF i = t.id THEN r ELSE rows[i]
      BY <1>5, <3>3, <3>4
    <3>6. r # None
      BY <3>3, MemoryConstants DEF Row
    <3>7. Stored' = Stored
      BY <3>1, <3>5, <3>6 DEF Stored
    <3>8. QED BY <3>3, <3>5, <3>7 DEF Stored
  <2>3. QED BY <2>1, <2>2
<1>8. Typed'
  BY <1>0, <1>2, <1>3, <1>7, IdleIs DEF Typed
<1>9. OneOwner'
  <2>1. \A i, a : Owned(i, a)' => Owned(i, a)
    BY <1>2, <1>3, <1>7, IdleIs DEF Owned, Writing
  <2>2. QED BY <1>0, <1>2, <2>1 DEF OneOwner
<1>10. Pending'
  <2>1. \A v \in Worker : task[v].pc = "append" => task[v].id # t.id
    BY <1>0, <1>1, <1>2 DEF Pending, Writing
  <2>2. QED BY <1>0, <1>2, <1>3, <1>7, <2>1, IdleIs DEF Pending, Writing, Deleting
<1>11. Removing'
  BY <1>0, <1>2, <1>3, <1>7, IdleIs DEF Removing, Deleting, Storing
<1>12. Dead'
  BY <1>0, <1>2, <1>7 DEF Dead
<1>13. Updating'
  BY <1>0, <1>2, <1>3, IdleIs DEF Updating
<1>14. Matching'
  <2> SUFFICES ASSUME NEW e \in Held, e.id \notin loose
               PROVE  /\ e.id \in Stored
                      /\ \/ rows'[e.id].fact = e.fact
                         \/ \E v \in Worker : task'[v].pc = "persist" /\ task'[v].id = e.id /\ task'[v].fact = e.fact
    BY <1>2, <1>7 DEF Matching
  <2>1. /\ e.id \in Stored
        /\ \/ rows[e.id].fact = e.fact
           \/ \E v \in Worker : task[v].pc = "persist" /\ task[v].id = e.id /\ task[v].fact = e.fact
    BY <1>0 DEF Matching
  <2>2. CASE e.id = t.id
    <3>1. e.fact = t.fact
      BY <1>0, <1>1, <1>2, <2>2 DEF Updating
    <3>2. QED BY <1>7, <2>1, <2>2, <3>1
  <2>3. CASE e.id # t.id
    BY <1>1, <1>3, <1>7, <2>1, <2>3
  <2>4. QED BY <2>2, <2>3
<1>15. OwnFacts'
  BY <1>0, <1>2, <1>4, <1>7 DEF OwnFacts
<1>16. Unlike'
  <2>1. \A e \in Held : e.id \notin odd => e.id # t.id
    BY <1>0, <1>1, <1>2 DEF Updating
  <2>2. QED BY <1>0, <1>2, <1>7, <2>1 DEF Unlike
<1>17. Unmet'
  BY <1>0, <1>2, <1>3, IdleIs DEF Unmet, Storing
<1>18. QED BY <1>8, <1>9, <1>10, <1>11, <1>12, <1>13, <1>14, <1>15, <1>16, <1>17 DEF MemoryInv

LEMMA EvictRowKeeps == ASSUME MemoryInv, NEW i \in Id, EvictRow(i) PROVE MemoryInv'
<1>0. Typed /\ OneOwner /\ Pending /\ Removing /\ Dead /\ Updating /\ Matching /\ OwnFacts /\ Unlike /\ Unmet
  BY DEF MemoryInv
<1>1. /\ UNCHANGED <<entries, lastId, task, gone, loose, odd>> /\ Held' = Held /\ InMemory' = InMemory
      /\ i \in doomed /\ doomed' = doomed \ {i}
  BY DEF EvictRow, history, Held, InMemory
<1>2. rows' = rows \/ rows' = [rows EXCEPT ![i] = None]
  BY DEF EvictRow
<1>3. /\ rows' \in [Id -> Row \cup {None}] /\ Stored' \subseteq Stored
      /\ \A j \in Stored' : rows'[j] = rows[j]
      /\ \A j \in Stored : j # i => j \in Stored'
  BY <1>0, <1>2 DEF Typed, Stored
<1>4. Typed'
  BY <1>0, <1>1, <1>3 DEF Typed
<1>5. OneOwner'
  <2>1. \A j, a : Owned(j, a)' => Owned(j, a)
    BY <1>1, <1>3 DEF Owned
  <2>2. QED BY <1>0, <1>1, <2>1 DEF OneOwner
<1>6. Pending'
  BY <1>0, <1>1, <1>3 DEF Pending, Deleting
<1>7. Removing'
  BY <1>0, <1>1, <1>3 DEF Removing, Deleting, Storing
<1>8. Dead'
  BY <1>0, <1>1, <1>3 DEF Dead
<1>9. Updating'
  BY <1>0, <1>1 DEF Updating
<1>10. \A e \in Held : e.id # i
  BY <1>0, <1>1, InMemoryIs DEF Dead
<1>11. Matching'
  BY <1>0, <1>1, <1>3, <1>10 DEF Matching
<1>12. OwnFacts' /\ Unlike'
  BY <1>0, <1>1, <1>3 DEF OwnFacts, Unlike
<1>13. Unmet'
  BY <1>0, <1>1 DEF Unmet, Storing
<1>14. QED BY <1>4, <1>5, <1>6, <1>7, <1>8, <1>9, <1>11, <1>12, <1>13 DEF MemoryInv

LEMMA RemoveKeeps ==
  ASSUME MemoryInv, NEW w \in Worker, NEW a \in Agent \cup {None}, NEW i \in 0 .. lastId, Remove(w, a, i)
  PROVE  MemoryInv'
<1> DEFINE c == [agent |-> a, id |-> i]
<1>0. Typed /\ OneOwner /\ Pending /\ Removing /\ Dead /\ Updating /\ Matching /\ OwnFacts /\ Unlike /\ Unmet
  BY DEF MemoryInv
<1>1. UNCHANGED <<rows, lastId, doomed, gone>> /\ Stored' = Stored /\ task[w].pc = "idle"
  BY DEF Remove, Stored
<1>2. entries' \in Seq(Entry) /\ Distinct(entries)' /\ Held' = {e \in Held : ~Covers(c, e.agent, e.id)}
  <2>1. PICK l \in Kept(a, i) : entries' = l
    BY DEF Remove
  <2>2. entries \in Seq(Entry) /\ Distinct(entries)
    BY <1>0 DEF Typed
  <2>3. l \in Seq(Entry) /\ Distinct(l) /\ Entries(l) = {e \in Held : ~Covers(c, e.agent, e.id)}
    BY <2>1, <2>2, KeptList
  <2>4. QED BY <2>1, <2>3 DEF Held, Entries, Distinct
<1>3. PICK V : V = InMemory \ {entries'[n].id : n \in DOMAIN entries'}
  OBVIOUS
<1>4. \A j : j \in V <=> \E e \in Held : e.id = j /\ Covers(c, e.agent, e.id)
  <2>1. V = InMemory \ InMemory'
    BY <1>3 DEF InMemory
  <2>2. \A e, f \in Held : e.id = f.id => e = f
    BY Agree
  <2>3. QED BY <1>2, <2>1, <2>2, InMemoryIs
<1>5. V \subseteq 1 .. lastId /\ V \subseteq Id
  <2>1. \A e \in Held : e.id \in 1 .. lastId /\ e.id \in Id
    BY Agree DEF Entry
  <2>2. QED BY <1>4, <2>1
<1>6. /\ \A e \in Held' : e \in Held /\ (e.id \in loose' <=> e.id \in loose) /\ (e.id \in odd' <=> e.id \in odd)
      /\ \A j : j \in InMemory' => j \in InMemory /\ j \notin V
      /\ loose' \subseteq Id /\ odd' \subseteq Id
  <2>1. loose' = loose \cap InMemory' /\ odd' = odd \cap InMemory'
    BY DEF Remove
  <2>2. \A e \in Held' : e \in Held /\ e.id \in InMemory'
    BY <1>2, InMemoryIs
  <2>3. \A j : j \in InMemory' => j \in InMemory /\ j \notin V
    BY <1>3, InMemoryIs, <2>2 DEF InMemory
  <2>4. QED BY <1>0, <2>1, <2>2, <2>3 DEF Typed
<1>7. PICK t : t = [Idle EXCEPT !.pc = "delete", !.agent = a, !.id = i, !.victims = V]
  OBVIOUS
<1>8. i \in Id \cup {0} /\ i <= lastId
  BY <1>0, MemoryConstants DEF Typed, Id
<1>9. t \in Task /\ t.pc = "delete" /\ t.agent = a /\ t.id = i /\ t.victims = V
  BY <1>5, <1>7, <1>8 DEF Task, Idle
<1>10. task' = [v \in Worker |-> IF v = w THEN t
         ELSE [task[v] EXCEPT !.torn =
                 @ \/ (Storing(v) /\ Covers(c, task[v].agent, task[v].id))]]
  BY <1>3, <1>7 DEF Remove
<1> HIDE DEF c
<1>11. ASSUME NEW v \in Worker, v # w
       PROVE  /\ task'[v] \in Task /\ task'[v].pc = task[v].pc /\ task'[v].agent = task[v].agent
              /\ task'[v].fact = task[v].fact /\ task'[v].id = task[v].id /\ task'[v].victims = task[v].victims
              /\ task'[v].met = task[v].met /\ (task[v].torn => task'[v].torn)
              /\ (Storing(v) /\ Covers(c, task[v].agent, task[v].id) => task'[v].torn)
  <2>1. PICK b : b = (Storing(v) /\ Covers(c, task[v].agent, task[v].id))
    OBVIOUS
  <2>2. b \in BOOLEAN /\ task[v] \in Task
    BY <1>0, <2>1 DEF Typed, Storing
  <2>3. task'[v] = [task[v] EXCEPT !.torn = @ \/ b]
    BY <1>10, <1>11, <2>1
  <2>4. QED BY <2>1, <2>2, <2>3 DEF Task
<1>12. task'[w] = t /\ task' = [v \in Worker |-> task'[v]]
  BY <1>10
<1>13. \A b, j : Covers(t, b, j) <=> Covers(c, b, j)
  BY <1>9 DEF Covers, c
<1>14. Typed'
  <2>1. task' \in [Worker -> Task]
    BY <1>9, <1>11, <1>12
  <2>2. rows' \in [Id -> Row \cup {None}] /\ lastId' \in 0 .. MaxId /\ gone' \subseteq 1 .. lastId' /\ doomed' \subseteq 1 .. lastId'
    BY <1>0, <1>1 DEF Typed
  <2>3. ASSUME NEW v \in Worker
        PROVE  LET x == task'[v] IN
               /\ x.pc = "insert" => x.id = 0
               /\ x.pc \in {"append", "update", "persist"} => x.id # 0
               /\ x.pc \in {"insert", "append", "update", "persist"} =>
                    x.agent \in Agent /\ x.fact \in Says[x.agent]
               /\ x.pc = "delete" => x.id <= lastId' /\ x.victims \subseteq 1 .. lastId'
    <3>1. CASE v = w
      BY <1>1, <1>5, <1>8, <1>9, <1>12, <3>1
    <3>2. CASE v # w
      BY <1>0, <1>1, <1>11, <3>2 DEF Typed
    <3>3. QED BY <3>1, <3>2
  <2>4. QED BY <1>2, <1>6, <2>1, <2>2, <2>3 DEF Typed
<1>15. OneOwner'
  <2>1. ASSUME NEW j, NEW b, Owned(j, b)' PROVE Owned(j, b)
    <3>1. CASE \E x \in Held' : x.id = j /\ x.agent = b
      BY <1>6, <3>1 DEF Owned
    <3>2. CASE j \in Stored' /\ rows'[j].agent = b
      BY <1>1, <3>2 DEF Owned
    <3>3. CASE \E v \in Worker : Writing(task'[v]) /\ task'[v].id = j /\ task'[v].agent = b
      BY <1>9, <1>11, <1>12, <3>3 DEF Owned, Writing
    <3>4. QED BY <2>1, <3>1, <3>2, <3>3 DEF Owned
  <2>2. QED BY <1>0, <1>1, <2>1 DEF OneOwner
<1>16. Pending'
  <2>1. \A v \in Worker : task[v].pc = "append" => task[v].id \notin V
    BY <1>0, <1>4, InMemoryIs DEF Pending
  <2>2. QED BY <1>0, <1>1, <1>6, <1>9, <1>11, <1>12, <2>1 DEF Pending, Writing, Deleting
<1>17. Removing'
  <2> SUFFICES ASSUME NEW v \in Worker, Deleting(v)'
               PROVE  /\ \A x \in Held' : Covers(task'[v], x.agent, x.id) => x.id \in loose'
                      /\ \A u \in Worker : Storing(u)' /\ Covers(task'[v], task'[u].agent, task'[u].id) => task'[u].torn
                      /\ \A j \in task'[v].victims :
                           j \notin InMemory' /\ (j \in Stored' => Covers(task'[v], rows'[j].agent, j))
    BY DEF Removing
  <2>1. CASE v = w
    <3>1. \A x \in Held' : ~Covers(t, x.agent, x.id)
      BY <1>2, <1>13
    <3>2. \A u \in Worker : Storing(u)' /\ Covers(t, task'[u].agent, task'[u].id) => task'[u].torn
      BY <1>9, <1>11, <1>12, <1>13 DEF Storing
    <3>3. \A j \in V : j \notin InMemory' /\ (j \in Stored => Covers(t, rows[j].agent, j))
      <4>1. \A e \in Held : e.id \in Stored => rows[e.id].agent = e.agent
        BY Agree
      <4>2. QED BY <1>4, <1>6, <1>13, <4>1
    <3>4. QED BY <1>1, <1>9, <1>12, <2>1, <3>1, <3>2, <3>3
  <2>2. CASE v # w
    <3>1. Deleting(v) /\ \A b, j : Covers(task'[v], b, j) <=> Covers(task[v], b, j)
      BY <1>11, <2>2 DEF Deleting, Covers
    <3>2. \A x \in Held' : Covers(task'[v], x.agent, x.id) => x.id \in loose'
      BY <1>0, <1>6, <3>1 DEF Removing
    <3>3. \A u \in Worker : Storing(u)' /\ Covers(task'[v], task'[u].agent, task'[u].id) => task'[u].torn
      BY <1>0, <1>9, <1>11, <1>12, <3>1 DEF Removing, Storing
    <3>4. \A j \in task'[v].victims : j \notin InMemory' /\ (j \in Stored' => Covers(task'[v], rows'[j].agent, j))
      BY <1>0, <1>1, <1>6, <1>11, <2>2, <3>1 DEF Removing
    <3>5. QED BY <3>2, <3>3, <3>4
  <2>3. QED BY <2>1, <2>2
<1>18. Dead'
  BY <1>0, <1>1, <1>6 DEF Dead
<1>19. Updating'
  BY <1>0, <1>6, <1>9, <1>11, <1>12 DEF Updating
<1>20. Matching'
  <2> SUFFICES ASSUME NEW e \in Held', e.id \notin loose'
               PROVE  /\ e.id \in Stored
                      /\ \/ rows[e.id].fact = e.fact
                         \/ \E v \in Worker : task'[v].pc = "persist" /\ task'[v].id = e.id /\ task'[v].fact = e.fact
    BY <1>1 DEF Matching
  <2>1. /\ e.id \in Stored
        /\ \/ rows[e.id].fact = e.fact
           \/ \E v \in Worker : task[v].pc = "persist" /\ task[v].id = e.id /\ task[v].fact = e.fact
    BY <1>0, <1>6 DEF Matching
  <2>2. QED BY <1>1, <1>11, <2>1
<1>21. OwnFacts'
  BY <1>0, <1>1, <1>6 DEF OwnFacts
<1>22. Unlike'
  BY <1>0, <1>1, <1>6 DEF Unlike
<1>23. Unmet'
  BY <1>0, <1>6, <1>9, <1>11, <1>12 DEF Unmet, Storing
<1>24. QED BY <1>14, <1>15, <1>16, <1>17, <1>18, <1>19, <1>20, <1>21, <1>22, <1>23 DEF MemoryInv

LEMMA DeleteRowsKeeps == ASSUME MemoryInv, NEW w \in Worker, DeleteRows(w) PROVE MemoryInv'
<1>0. Typed /\ OneOwner /\ Pending /\ Removing /\ Dead /\ Updating /\ Matching /\ OwnFacts /\ Unlike /\ Unmet
  BY DEF MemoryInv
<1>1. PICK t : t = task[w]
  OBVIOUS
<1>2. UNCHANGED <<entries, lastId, doomed, loose, odd>> /\ Held' = Held /\ InMemory' = InMemory /\ t.pc = "delete" /\ Deleting(w)
  BY <1>1 DEF DeleteRows, Deleting, Held, InMemory
<1>3. task \in [Worker -> Task] /\ task' \in [Worker -> Task] /\ \A v \in Worker : task'[v] = IF v = w THEN Idle ELSE task[v]
  BY <1>0, IdleIs DEF DeleteRows, Typed
<1>4. rows' = [i \in Id |-> IF rows[i] # None /\ Covers(t, rows[i].agent, i) THEN None ELSE rows[i]]
  BY <1>1 DEF DeleteRows
<1>5. rows' \in [Id -> Row \cup {None}] /\ \A i : i \in Stored' <=> i \in Stored /\ ~Covers(t, rows[i].agent, i)
  BY <1>0, <1>4 DEF Typed, Stored
<1>6. Stored' \subseteq Stored /\ \A i \in Stored' : rows'[i] = rows[i]
  BY <1>4, <1>5 DEF Stored
<1>7. gone' = gone \cup t.victims
  BY <1>1 DEF DeleteRows
<1>8. t.victims \subseteq 1 .. lastId /\ \A i \in t.victims : i \notin InMemory /\ i \notin Stored'
  BY <1>0, <1>1, <1>2, <1>5 DEF Removing, Typed
<1>9. Typed'
  BY <1>0, <1>2, <1>3, <1>5, <1>7, <1>8, IdleIs DEF Typed
<1>10. OneOwner'
  <2>1. \A i, a : Owned(i, a)' => Owned(i, a)
    BY <1>2, <1>3, <1>6, IdleIs DEF Owned, Writing
  <2>2. QED BY <1>0, <1>2, <2>1 DEF OneOwner
<1>11. Pending'
  <2> SUFFICES ASSUME NEW v \in Worker, task'[v].pc = "append"
               PROVE  LET i == task'[v].id IN
                      /\ i \notin doomed' \cup gone' \cup InMemory'
                      /\ \A u \in Worker \ {v} : Writing(task'[u]) => task'[u].id # i
                      /\ \A u \in Worker : Deleting(u)' => i \notin task'[u].victims
                      /\ i \in Stored' => rows'[i].fact = task'[v].fact
                      /\ ~task'[v].torn => i \in Stored'
    BY DEF Pending
  <2>1. v # w /\ task'[v] = task[v] /\ task[v].pc = "append"
    BY <1>3, IdleIs
  <2>2. PICK i : i = task[v].id
    OBVIOUS
  <2>3. i \notin doomed \cup gone \cup InMemory \cup t.victims
    BY <1>0, <1>1, <1>2, <2>1, <2>2 DEF Pending
  <2>4. \A u \in Worker \ {v} : Writing(task'[u]) => task'[u].id # i
    BY <1>0, <1>3, <2>1, <2>2, IdleIs DEF Pending, Writing
  <2>5. \A u \in Worker : Deleting(u)' => i \notin task'[u].victims
    BY <1>0, <1>3, <2>1, <2>2, IdleIs DEF Pending, Deleting
  <2>6. i \in Stored' => rows'[i].fact = task[v].fact
    BY <1>0, <1>6, <2>1, <2>2 DEF Pending
  <2>7. ASSUME ~task[v].torn PROVE i \in Stored'
    <3>1. i \in Stored
      BY <1>0, <2>1, <2>2, <2>7 DEF Pending
    <3>2. rows[i].agent = task[v].agent
      BY <2>1, <2>2, <3>1, Agree DEF Writing
    <3>3. ~Covers(t, task[v].agent, i)
      BY <1>0, <1>1, <1>2, <2>1, <2>2, <2>7 DEF Removing, Storing
    <3>4. QED BY <1>5, <3>1, <3>2, <3>3
  <2>8. QED BY <1>2, <1>7, <2>1, <2>2, <2>3, <2>4, <2>5, <2>6, <2>7
<1>12. Removing'
  BY <1>0, <1>2, <1>3, <1>6, IdleIs DEF Removing, Deleting, Storing
<1>13. Dead'
  BY <1>0, <1>2, <1>6, <1>7, <1>8 DEF Dead
<1>14. Updating'
  BY <1>0, <1>2, <1>3, IdleIs DEF Updating
<1>15. Matching'
  <2> SUFFICES ASSUME NEW e \in Held, e.id \notin loose
               PROVE  /\ e.id \in Stored'
                      /\ \/ rows'[e.id].fact = e.fact
                         \/ \E v \in Worker : task'[v].pc = "persist" /\ task'[v].id = e.id /\ task'[v].fact = e.fact
    BY <1>2 DEF Matching
  <2>1. /\ e.id \in Stored
        /\ \/ rows[e.id].fact = e.fact
           \/ \E v \in Worker : task[v].pc = "persist" /\ task[v].id = e.id /\ task[v].fact = e.fact
    BY <1>0 DEF Matching
  <2>2. rows[e.id].agent = e.agent
    BY <2>1, Agree
  <2>3. ~Covers(t, e.agent, e.id)
    BY <1>0, <1>1, <1>2 DEF Removing
  <2>4. e.id \in Stored'
    BY <1>5, <2>1, <2>2, <2>3
  <2>5. QED BY <1>1, <1>2, <1>3, <1>6, <2>1, <2>4
<1>16. OwnFacts' /\ Unlike'
  BY <1>0, <1>2, <1>6 DEF OwnFacts, Unlike
<1>17. Unmet'
  BY <1>0, <1>2, <1>3, IdleIs DEF Unmet, Storing
<1>18. QED BY <1>9, <1>10, <1>11, <1>12, <1>13, <1>14, <1>15, <1>16, <1>17 DEF MemoryInv

LEMMA RestartKeeps == ASSUME MemoryInv, Restart PROVE MemoryInv'
<1>0. Typed /\ OneOwner /\ Pending /\ Removing /\ Dead /\ Updating /\ Matching /\ OwnFacts /\ Unlike /\ Unmet
  BY DEF MemoryInv
<1>1. /\ UNCHANGED <<rows, lastId, gone>> /\ Stored' = Stored /\ doomed' = {} /\ loose' = {}
      /\ task' = [w \in Worker |-> Idle]
  BY DEF Restart, Stored
<1>2. /\ entries' \in Seq(Entry) /\ Distinct(entries)'
      /\ \A e \in Held' : e.id \in Stored /\ e.agent = rows[e.id].agent /\ e.fact = rows[e.id].fact
      /\ odd' = (odd \cap InMemory') \cup (InMemory' \ InMemory)
  <2>1. PICK s \in WarmRows :
          /\ entries' = [n \in DOMAIN s |-> [id |-> s[n], agent |-> rows[s[n]].agent, fact |-> rows[s[n]].fact]]
          /\ odd' = (odd \cap InMemory') \cup (InMemory' \ InMemory)
    BY DEF Restart
  <2>2. PICK l : l = [n \in DOMAIN s |-> [id |-> s[n], agent |-> rows[s[n]].agent, fact |-> rows[s[n]].fact]]
    OBVIOUS
  <2>3. rows \in [Id -> Row \cup {None}]
    BY <1>0 DEF Typed
  <2>4. /\ l \in Seq(Entry) /\ Distinct(l)
        /\ \A e \in Entries(l) : e.id \in Stored /\ e.agent = rows[e.id].agent /\ e.fact = rows[e.id].fact
    BY <2>2, <2>3, WarmList
  <2>5. QED BY <2>1, <2>2, <2>4 DEF Held, Entries, Distinct
<1>3. odd' \subseteq Id
  <2>1. \A e \in Held' : e.id \in Id
    BY <1>2 DEF Stored
  <2>2. QED BY <1>0, <1>2, <2>1, InMemoryIs DEF Typed
<1>4. Typed'
  BY <1>0, <1>1, <1>2, <1>3, IdleIs DEF Typed
<1>5. OneOwner'
  <2>1. ASSUME NEW i, NEW a, Owned(i, a)' PROVE Owned(i, a)
    <3>1. i \in Stored /\ rows[i].agent = a
      BY <1>1, <1>2, <2>1, IdleIs DEF Owned, Writing
    <3>2. QED BY <3>1 DEF Owned
  <2>2. QED BY <1>0, <1>1, <2>1 DEF OneOwner
<1>6. Pending' /\ Removing' /\ Updating' /\ Unmet'
  BY <1>1, IdleIs DEF Pending, Removing, Deleting, Updating, Unmet, Storing
<1>7. Dead'
  <2>1. \A i \in InMemory' : i \in Stored
    BY <1>2, InMemoryIs
  <2>2. QED BY <1>0, <1>1, <2>1 DEF Dead
<1>8. Matching'
  BY <1>1, <1>2 DEF Matching
<1>9. OwnFacts'
  BY <1>0, <1>1, <1>2 DEF OwnFacts
<1>10. Unlike'
  <2>1. ASSUME NEW x \in Held', x.id \notin odd'
        PROVE  \E e \in Held : e.id = x.id /\ e.agent = x.agent /\ e.fact = x.fact /\ e.id \notin odd
    <3>1. x.id \in InMemory /\ x.id \notin odd
      BY <1>2, <2>1, InMemoryIs
    <3>2. PICK e \in Held : e.id = x.id
      BY <3>1, InMemoryIs
    <3>3. rows[e.id].agent = e.agent
      BY <1>2, <3>2, Agree
    <3>4. rows[e.id].fact = e.fact
      BY <1>0, <1>2, <3>1, <3>2 DEF Unlike
    <3>5. QED BY <1>2, <3>1, <3>2, <3>3, <3>4
  <2>2. ASSUME NEW x \in Held', NEW y \in Held', x.id \notin odd', y.id # x.id, y.agent = x.agent, y.id \notin odd'
        PROVE  <<x.fact, y.fact>> \notin Same \cup Near
    <3>1. PICK e \in Held : e.id = x.id /\ e.agent = x.agent /\ e.fact = x.fact /\ e.id \notin odd
      BY <2>1, <2>2
    <3>2. PICK f \in Held : f.id = y.id /\ f.agent = y.agent /\ f.fact = y.fact /\ f.id \notin odd
      BY <2>1, <2>2
    <3>3. <<e.fact, f.fact>> \notin Same \cup Near
      BY <1>0, <2>2, <3>1, <3>2 DEF Unlike
    <3>4. QED BY <3>1, <3>2, <3>3
  <2>3. QED BY <1>1, <1>2, <2>2 DEF Unlike
<1>11. QED BY <1>4, <1>5, <1>6, <1>7, <1>8, <1>9, <1>10 DEF MemoryInv

LEMMA MemoryStep == ASSUME MemoryInv, Next PROVE MemoryInv'
<1>1. ASSUME NEW w \in Worker, InsertFails(w) \/ UpdateRowFails(w) \/ DeleteRowsFails(w) PROVE MemoryInv'
  <2>1. /\ task' = [task EXCEPT ![w] = Idle] /\ UNCHANGED <<entries, rows, lastId, doomed, gone, odd>>
        /\ \/ task[w].pc # "persist" /\ loose' = loose
           \/ loose' = loose \cup ({task[w].id} \cap InMemory)
    BY <1>1 DEF InsertFails, UpdateRowFails, DeleteRowsFails, Deleting, history
  <2>2. QED BY <2>1, GivingUpKeeps
<1>2. ASSUME NEW w \in Worker, Store(w) PROVE MemoryInv'
  BY <1>1, <1>2, ScanKeeps, InsertKeeps, AppendEntryKeeps, UpdateMemoryKeeps, UpdateRowKeeps DEF Store
<1>3. ASSUME NEW w \in Worker, Removal(w) PROVE MemoryInv'
  <2>1. lastId \in Nat
    BY MemoryConstants DEF MemoryInv, Typed
  <2>2. CASE \E i \in Id : Delete(w, i)
    <3>1. PICK i \in Id : i <= lastId /\ Remove(w, None, i)
      BY <2>2 DEF Delete
    <3>2. i \in 0 .. lastId
      BY <2>1, <3>1 DEF Id
    <3>3. QED BY <3>1, <3>2, RemoveKeeps
  <2>3. CASE (\E a \in Agent : DeleteByAgent(w, a)) \/ Flush(w)
    <3>1. 0 \in 0 .. lastId
      BY <2>1
    <3>2. QED BY <2>3, <3>1, RemoveKeeps DEF DeleteByAgent, Flush
  <2>4. QED BY <1>1, <1>3, <2>2, <2>3, DeleteRowsKeeps DEF Removal
<1>4. QED BY <1>2, <1>3, EvictRowKeeps, RestartKeeps DEF Next

LEMMA MemoryStill == ASSUME MemoryInv, UNCHANGED vars PROVE MemoryInv'
<1>1. UNCHANGED <<entries, rows, lastId, task, doomed, gone, loose, odd>>
  BY DEF vars, history
<1>2. Held' = Held /\ Stored' = Stored /\ InMemory' = InMemory
  BY <1>1 DEF Held, Stored, InMemory
<1>3. (Typed <=> Typed') /\ (OneOwner <=> OneOwner') /\ (Pending <=> Pending') /\ (Removing <=> Removing')
  BY <1>1, <1>2 DEF Typed, OneOwner, Owned, Pending, Removing, Deleting, Storing
<1>4. (Dead <=> Dead') /\ (Updating <=> Updating') /\ (Matching <=> Matching') /\ (OwnFacts <=> OwnFacts')
  BY <1>1, <1>2 DEF Dead, Updating, Matching, OwnFacts
<1>5. (Unlike <=> Unlike') /\ (Unmet <=> Unmet')
  BY <1>1, <1>2 DEF Unlike, Unmet, Storing
<1>6. QED BY <1>3, <1>4, <1>5 DEF MemoryInv

LEMMA MemoryHolds == Spec => []MemoryInv
<1>1. MemoryInv /\ [Next]_vars => MemoryInv'
  BY MemoryStep, MemoryStill
<1>2. QED BY MemoryStart, <1>1, PTL DEF Spec

-----------------------------------------------------------------------------
(* What it amounts to *)

(* For any number of agents, facts and goroutines, through failed and late *)
(* statements, evictions and restarts: a fact in memory has a row of its   *)
(* own with the same text, or the UPDATE that brings it there is under     *)
(* way, unless its store crossed a removal, its updates overlapped or one  *)
(* failed (memory.go: StoreFactWithVectors, updateExistingEntry).          *)
THEOREM MemoryIsTheTable == Spec => []MemoryMatchesTable
<1>1. MemoryInv => MemoryMatchesTable
  <2> SUFFICES ASSUME MemoryInv, NEW n \in DOMAIN entries, NEW e, e = entries[n], e.id \notin loose
               PROVE  /\ rows[e.id] # None /\ rows[e.id].agent = e.agent
                      /\ \/ rows[e.id].fact = e.fact
                         \/ \E w \in Worker : task[w].pc = "persist" /\ task[w].id = e.id /\ task[w].fact = e.fact
    BY DEF MemoryMatchesTable
  <2>1. e \in Held
    BY DEF Held, Entries
  <2>2. e.id \in Stored => rows[e.id].agent = e.agent
    BY <2>1, Agree
  <2>3. QED BY <2>1, <2>2 DEF MemoryInv, Matching, Stored
<1>2. QED BY MemoryHolds, <1>1, PTL

(* What a removal covered and reported as deleted is in neither the list   *)
(* nor the table ever again, however many stores, updates, evictions and   *)
(* restarts cross it (Delete, DeleteByAgent, Flush).                       *)
THEOREM DeletedStaysGone == Spec => []DeletedIsGone
<1>1. MemoryInv => DeletedIsGone
  BY DEF MemoryInv, Dead, DeletedIsGone
<1>2. QED BY MemoryHolds, <1>1, PTL

(* Whatever is similar to what: two facts of an agent that are similar are *)
(* together in the list only if one was stored while another store of the  *)
(* agent finished, was rewritten, or came back from the table.             *)
THEOREM NoTwinsAlone == Spec => []NoTwins
<1>1. MemoryInv => NoTwins
  <2> SUFFICES ASSUME MemoryInv, NEW m \in DOMAIN entries, NEW n \in DOMAIN entries, m # n,
                      entries[m].agent = entries[n].agent,
                      entries[m].id \notin odd, entries[n].id \notin odd
               PROVE  <<entries[m].fact, entries[n].fact>> \notin Same \cup Near
    BY DEF NoTwins
  <2>1. entries[m].id # entries[n].id
    BY DEF MemoryInv, Typed, Distinct
  <2>2. entries[m] \in Held /\ entries[n] \in Held
    BY DEF Held, Entries
  <2>3. QED BY <2>1, <2>2 DEF MemoryInv, Unlike
<1>2. QED BY MemoryHolds, <1>1, PTL

(* In memory and in the table an agent has only facts of its own           *)
(* conversations, also where a similar fact of another agent is updated,   *)
(* and after a restart (StoreFactWithVectors compares e.AgentID).          *)
THEOREM AgentsKeepTheirOwn == Spec => []OwnFactsOnly
<1>1. MemoryInv => OwnFactsOnly
  <2>1. \A n \in DOMAIN entries : entries[n] \in Held
    BY DEF Held, Entries
  <2>2. QED BY <2>1 DEF MemoryInv, OwnFacts, OwnFactsOnly
<1>2. QED BY MemoryHolds, <1>1, PTL
=============================================================================
