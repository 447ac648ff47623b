----------------------------- MODULE VectorStore -----------------------------
(***************************************************************************)
(* The vectors of the semantic cache: vectorstore/vectorstore.go, as the   *)
(* pipeline's detached Store, POST /api/cache/flush and the settings'      *)
(* rebuild use it (cache/semantic.go, cache/cache_api.go, main.go).        *)
(*                                                                         *)
(* On SQLite a map mirrors the table; on Postgres the table is all there   *)
(* is.  Either way rows are written and deleted by detached goroutines,    *)
(* which run in any order, may fail, and may outlive a flush or the store  *)
(* that started them.  An entry is known by its provider and model: the    *)
(* vector is the one of the request.                                       *)
(***************************************************************************)
EXTENDS Integers, FiniteSets, Functions

CONSTANTS
  Worker,      \* goroutines that store or flush
  Hash,        \* cache hashes
  Scope,       \* provider and model of an entry
  MaxVectors,  \* vs.maxEntries (SQLite only)
  MaxWriters,  \* bound: detached statements at a time
  None

VARIABLES
  pg,          \* the backend is Postgres
  vectors,     \* SQLite: vs.entries; Postgres: what the store was told to hold (history)
  vectorRows,  \* semantic_cache_vectors
  writers,     \* detached statements, how many of each
  user,        \* the goroutines inside the store
  crossed      \* hashes whose statements crossed, failed or were lost (history)

vars == <<pg, vectors, vectorRows, writers, user, crossed>>

Statement == [hash : Hash, scope : Scope \cup {None}]   \* None: DELETE
Idle == [pc |-> "idle", old |-> FALSE]
Stored == {h \in Hash : vectorRows[h] # None}
Mirrored == {h \in Hash : vectors[h] # None}
InFlight == {s \in Statement : writers[s] > 0}

Init ==
  /\ pg \in BOOLEAN
  /\ vectors = [h \in Hash |-> None] /\ vectorRows = [h \in Hash |-> None]
  /\ writers = [s \in Statement |-> 0]
  /\ user = [w \in Worker |-> Idle]
  /\ crossed = {}

-----------------------------------------------------------------------------
(* A request or the flush handler takes the semantic cache there is now; a  *)
(* request then waits for the embedding, which may fail.                    *)
Take(w, pc) ==
  /\ user[w] = Idle
  /\ user' = [user EXCEPT ![w].pc = pc]
  /\ UNCHANGED <<pg, vectors, vectorRows, writers, crossed>>
EmbedFails(w) ==
  /\ user[w].pc = "store"
  /\ user' = [user EXCEPT ![w] = Idle]
  /\ UNCHANGED <<pg, vectors, vectorRows, writers, crossed>>

(* Statements already under way for h when another one starts *)
Busy(h) ==
  \/ \E s \in InFlight : s.hash = h
  \/ \E w \in Worker : user[w].pc = "delete"

(* evictOldest: only SQLite has a limit, and a known hash needs no room.   *)
(* Which entry is the oldest is a choice.                                  *)
Evicted(h) ==
  IF ~pg /\ vectors[h] = None /\ Cardinality(Mirrored) >= MaxVectors
    THEN {{v} : v \in Mirrored} ELSE {{}}

Launch(statements) ==
  /\ writers' = [s \in Statement |-> writers[s] + IF s \in statements THEN 1 ELSE 0]
  /\ SumFunction(writers') <= MaxWriters

(* mutant: an evicted vector keeps its row *)
StoreHybrid_Kept(w, h, s) ==
  /\ user[w] = [pc |-> "store", old |-> FALSE]
  /\ user' = [user EXCEPT ![w] = Idle]
  /\ \E gone \in Evicted(h) :
       /\ vectors' = [g \in Hash |-> IF g = h THEN s ELSE IF g \in gone THEN None ELSE vectors[g]]
       /\ Launch({[hash |-> h, scope |-> s]})
       /\ crossed' = (crossed \ {h}) \cup {g \in {h} : Busy(g)}
  /\ UNCHANGED <<pg, vectorRows>>

StoreHybrid(w, h, s) ==
  /\ user[w] = [pc |-> "store", old |-> FALSE]
  /\ user' = [user EXCEPT ![w] = Idle]
  /\ \E gone \in Evicted(h) :
       /\ vectors' = [g \in Hash |-> IF g = h THEN s ELSE IF g \in gone THEN None ELSE vectors[g]]
       /\ Launch({[hash |-> h, scope |-> s]} \cup {[hash |-> g, scope |-> None] : g \in gone})
       /\ crossed' = (crossed \ ({h} \cup gone)) \cup {g \in {h} \cup gone : Busy(g)}
  /\ UNCHANGED <<pg, vectorRows>>

(* The store was replaced meanwhile: nobody searches its map any more, but *)
(* the row is written, and what its map, full or not, evicts is deleted.   *)
StoreIntoOld(w, h, s) ==
  /\ user[w] = [pc |-> "store", old |-> TRUE]
  /\ user' = [user EXCEPT ![w] = Idle]
  /\ \E gone \in {{}} \cup {{g} : g \in IF pg THEN {} ELSE Hash \ {h}} :
       /\ Launch({[hash |-> h, scope |-> s]} \cup {[hash |-> g, scope |-> None] : g \in gone})
       /\ crossed' = crossed \cup {h} \cup gone
  /\ UNCHANGED <<pg, vectors, vectorRows>>

(* persistToDB, persistPG, and the DELETE of evictOldest; errors are logged *)
(* or ignored                                                               *)
Execute(s) ==
  /\ s \in InFlight
  /\ writers' = [writers EXCEPT ![s] = @ - 1]
  /\ \/ vectorRows' = [vectorRows EXCEPT ![s.hash] = s.scope] /\ UNCHANGED crossed
     \/ crossed' = crossed \cup {s.hash} /\ UNCHANGED vectorRows
  /\ UNCHANGED <<pg, vectors, user>>

-----------------------------------------------------------------------------
(* Flush: the map first, the rows after it, an error ignored *)

FlushMemory(w) ==
  /\ user[w].pc = "flush"
  /\ user' = [user EXCEPT ![w].pc = "delete"]
  /\ vectors' = IF pg \/ user[w].old THEN vectors ELSE [h \in Hash |-> None]
  /\ UNCHANGED <<pg, vectorRows, writers, crossed>>

(* What was stored since the map was cleared, or is on its way, may be lost *)
(* or come back.                                                            *)
FlushRows(w) ==
  /\ user[w].pc = "delete"
  /\ user' = [user EXCEPT ![w] = Idle]
  /\ vectors' = IF pg THEN [h \in Hash |-> None] ELSE vectors
  /\ \/ /\ vectorRows' = [h \in Hash |-> None]
        /\ crossed' = {s.hash : s \in InFlight} \cup {h \in Hash : vectors'[h] # None}
     \/ /\ UNCHANGED vectorRows
        /\ crossed' = Hash
  /\ UNCHANGED <<pg, writers>>

-----------------------------------------------------------------------------
(* New, at a start or when the settings change the embedder: warmLoad       *)
(* mirrors the newest rows, as many as fit (which ones is a choice), or     *)
(* fewer: the query may fail, and its iteration may end early unnoticed.    *)
Loaded == IF pg THEN {Stored} ELSE {S \in SUBSET Stored : Cardinality(S) <= MaxVectors}

New(launched) ==
  \E S \in Loaded :
    /\ vectors' = [h \in Hash |-> IF h \in S THEN vectorRows[h] ELSE None]
    /\ crossed' = (Stored \ S) \cup {s.hash : s \in launched}

Restart ==
  /\ writers' = [s \in Statement |-> 0] /\ user' = [w \in Worker |-> Idle]
  /\ New({})
  /\ UNCHANGED <<pg, vectorRows>>

(* The old store's users and statements live on. *)
Rebuild ==
  /\ user' = [w \in Worker |-> IF user[w] = Idle THEN Idle ELSE [user[w] EXCEPT !.old = TRUE]]
  /\ New(InFlight)
  /\ UNCHANGED <<pg, vectorRows, writers>>

Use(w) ==
  \/ \E pc \in {"store", "flush"} : Take(w, pc)
  \/ EmbedFails(w) \/ FlushMemory(w) \/ FlushRows(w)
  \/ \E h \in Hash, s \in Scope : StoreHybrid(w, h, s) \/ StoreIntoOld(w, h, s)

Next ==
  \/ \E w \in Worker : Use(w)
  \/ \E s \in Statement : Execute(s)
  \/ Restart \/ Rebuild

Spec == Init /\ [][Next]_vars

-----------------------------------------------------------------------------
(* Although memory and table are changed at different times and by         *)
(* different goroutines, a hash that is at rest has the row it should have *)
(* (its last vector, or none once evicted or flushed), unless two of its   *)
(* statements were under way at once, one failed, or it crossed a flush or *)
(* a rebuild: what a search finds today is what it finds after a restart.  *)
TableFollows ==
  \A h \in Hash \ crossed : ~Busy(h) => vectorRows[h] = vectors[h]
=============================================================================
