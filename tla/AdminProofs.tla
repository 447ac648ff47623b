----------------------------- MODULE AdminProofs -----------------------------
(***************************************************************************)
(* For any numbers of administrators, callers, keys, providers, prices and *)
(* vectors: the stores behind the management API and what mirrors them.    *)
(* Each store is first treated by itself; the last section puts them       *)
(* together.                                                               *)
(***************************************************************************)
EXTENDS MCAdmin, FiniteSetTheorems, TLAPS

-----------------------------------------------------------------------------
(* VectorStore.  While a flush is between the map and the rows nothing can *)
(* be said, and need not be: the rows it then deletes settle every hash it *)
(* does not name as crossed.                                               *)

Flushing == \E w \in Worker : user[w].pc = "delete"

Settled(h) ==
  /\ \A s \in V!InFlight : s.hash = h => s.scope = vectors[h]
  /\ (\A s \in V!InFlight : s.hash # h) => vectorRows[h] = vectors[h]

VectorsInv ==
  /\ vectors \in [Hash -> Scope \cup {None}] /\ vectorRows \in [Hash -> Scope \cup {None}]
  /\ user \in [Worker -> [pc : {"idle", "store", "flush", "delete"}, old : BOOLEAN]]
  /\ writers \in [V!Statement -> Nat]
  /\ ~Flushing => \A h \in Hash \ crossed : Settled(h)

LEMMA VectorsStart == V!Init => VectorsInv
  BY DEF V!Init, V!Idle, V!InFlight, VectorsInv, Settled

\* What is under way after a launch.
LEMMA LaunchAdds ==
  ASSUME writers \in [V!Statement -> Nat], NEW new \in SUBSET V!Statement, V!Launch(new)
  PROVE  writers' \in [V!Statement -> Nat] /\ V!InFlight' = V!InFlight \cup new
  BY DEF V!Launch, V!InFlight

\* Storing: a hash that is at rest is settled by the statement just launched.
LEMMA StoreSettles ==
  ASSUME VectorsInv, NEW w \in Worker, NEW h \in Hash, NEW s \in Scope, V!StoreHybrid(w, h, s)
  PROVE  VectorsInv'
<1>1. PICK gone \in V!Evicted(h) :
        /\ vectors' = [g \in Hash |-> IF g = h THEN s ELSE IF g \in gone THEN None ELSE vectors[g]]
        /\ V!Launch({[hash |-> h, scope |-> s]} \cup {[hash |-> g, scope |-> None] : g \in gone})
        /\ crossed' = (crossed \ ({h} \cup gone)) \cup {g \in {h} \cup gone : V!Busy(g)}
  BY DEF V!StoreHybrid
<1>2. gone \subseteq Hash /\ h \notin gone
  BY DEF V!Evicted, V!Mirrored
<1>3. user[w] = [pc |-> "store", old |-> FALSE] /\ user' = [user EXCEPT ![w] = V!Idle]
      /\ vectorRows' = vectorRows
  BY DEF V!StoreHybrid
<1>4. /\ vectors' \in [Hash -> Scope \cup {None}] /\ writers' \in [V!Statement -> Nat]
      /\ V!InFlight' = V!InFlight \cup {[hash |-> h, scope |-> s]}
                                  \cup {[hash |-> g, scope |-> None] : g \in gone}
  <2>1. {[hash |-> h, scope |-> s]} \cup {[hash |-> g, scope |-> None] : g \in gone}
          \subseteq V!Statement
    BY <1>2 DEF V!Statement
  <2>2. vectors' \in [Hash -> Scope \cup {None}]
    BY <1>1 DEF VectorsInv
  <2>3. QED BY <1>1, <2>1, <2>2, LaunchAdds DEF VectorsInv
<1>5. user' \in [Worker -> [pc : {"idle", "store", "flush", "delete"}, old : BOOLEAN]]
  BY <1>3 DEF VectorsInv, V!Idle
<1>6. ~Flushing' => ~Flushing
  BY <1>3 DEF VectorsInv, Flushing, V!Idle
<1>7. ASSUME ~Flushing, NEW g \in Hash \ crossed' PROVE Settled(g)'
  <2>1. CASE g \in {h} \cup gone
    <3>1. \A t \in V!InFlight : t.hash # g
      BY <1>1, <2>1, <1>7 DEF V!Busy
    <3>2. g = h => [hash |-> h, scope |-> s] \in V!InFlight' /\ vectors'[g] = s
      BY <1>1, <1>4
    <3>3. g \in gone => [hash |-> g, scope |-> None] \in V!InFlight' /\ vectors'[g] = None
      BY <1>1, <1>2, <1>4
    <3>4. \A t \in V!InFlight' : t.hash = g => t.scope = vectors'[g]
      BY <1>2, <1>4, <3>1, <3>2, <3>3
    <3>5. \E t \in V!InFlight' : t.hash = g
      BY <2>1, <3>2, <3>3
    <3>6. QED BY <3>4, <3>5 DEF Settled
  <2>2. CASE g \notin {h} \cup gone
    <3>1. g \notin crossed /\ Settled(g)
      BY <1>1, <1>7, <2>2 DEF VectorsInv
    <3>2. vectors'[g] = vectors[g] /\ vectorRows'[g] = vectorRows[g]
      BY <1>1, <1>3, <2>2
    <3>3. \A t \in V!InFlight' : t.hash = g => t \in V!InFlight
      BY <1>4, <2>2
    <3>4. \A t \in V!InFlight : t \in V!InFlight'
      BY <1>4
    <3>5. QED BY <3>1, <3>2, <3>3, <3>4 DEF Settled
  <2>3. QED BY <2>1, <2>2
<1>8. QED BY <1>3, <1>4, <1>5, <1>6, <1>7 DEF VectorsInv

\* Every other use of the store by a request or by the flush handler.
LEMMA UseSettles ==
  ASSUME VectorsInv, NEW w \in Worker, V!Use(w)
  PROVE  VectorsInv'
<1>1. ASSUME NEW pc \in {"store", "flush"}, V!Take(w, pc) PROVE VectorsInv'
  <2>1. user[w] = V!Idle /\ user' = [user EXCEPT ![w].pc = pc]
        /\ UNCHANGED <<vectors, vectorRows, writers, crossed>>
    BY <1>1 DEF V!Take
  <2>2. user' \in [Worker -> [pc : {"idle", "store", "flush", "delete"}, old : BOOLEAN]]
    BY <2>1 DEF VectorsInv
  <2>3. user'[w].pc = pc /\ \A v \in Worker \ {w} : user'[v] = user[v]
    BY <2>1 DEF VectorsInv
  <2>4. ~Flushing' => ~Flushing
    BY <2>1, <2>3 DEF Flushing, V!Idle
  <2>5. QED BY <2>1, <2>2, <2>4 DEF VectorsInv, Settled, V!InFlight
<1>2. CASE V!EmbedFails(w)
  <2>1. user[w].pc = "store" /\ user' = [user EXCEPT ![w] = V!Idle]
        /\ UNCHANGED <<vectors, vectorRows, writers, crossed>>
    BY <1>2 DEF V!EmbedFails
  <2>2. user' \in [Worker -> [pc : {"idle", "store", "flush", "delete"}, old : BOOLEAN]]
    BY <2>1 DEF VectorsInv, V!Idle
  <2>3. ~Flushing' => ~Flushing
    BY <2>1 DEF VectorsInv, Flushing, V!Idle
  <2>4. QED BY <2>1, <2>2, <2>3 DEF VectorsInv, Settled, V!InFlight
<1>3. CASE V!FlushMemory(w)
  <2>1. Flushing'
    BY <1>3 DEF VectorsInv, V!FlushMemory, Flushing
  <2>2. vectors' \in [Hash -> Scope \cup {None}]
        /\ user' \in [Worker -> [pc : {"idle", "store", "flush", "delete"}, old : BOOLEAN]]
        /\ UNCHANGED <<vectorRows, writers>>
    BY <1>3 DEF VectorsInv, V!FlushMemory
  <2>3. QED BY <2>1, <2>2 DEF VectorsInv
<1>4. CASE V!FlushRows(w)
  <2>1. vectors' \in [Hash -> Scope \cup {None}] /\ vectorRows' \in [Hash -> Scope \cup {None}]
        /\ user' \in [Worker -> [pc : {"idle", "store", "flush", "delete"}, old : BOOLEAN]]
        /\ writers' = writers
    BY <1>4 DEF VectorsInv, V!FlushRows, V!Idle
  <2>2. ASSUME NEW h \in Hash \ crossed' PROVE Settled(h)'
    BY <1>4, <2>1, <2>2 DEF V!FlushRows, Settled, V!InFlight
  <2>3. QED BY <2>1, <2>2 DEF VectorsInv
<1>5. ASSUME NEW h \in Hash, NEW s \in Scope, V!StoreIntoOld(w, h, s) PROVE VectorsInv'
  <2>1. PICK gone \in {{}} \cup {{g} : g \in IF pg THEN {} ELSE Hash \ {h}} :
          /\ V!Launch({[hash |-> h, scope |-> s]} \cup {[hash |-> g, scope |-> None] : g \in gone})
          /\ crossed' = crossed \cup {h} \cup gone
    BY <1>5 DEF V!StoreIntoOld
  <2>2. gone \subseteq Hash
    BY <2>1
  <2>3. UNCHANGED <<vectors, vectorRows>> /\ user' = [user EXCEPT ![w] = V!Idle]
        /\ user[w].pc = "store"
    BY <1>5 DEF V!StoreIntoOld
  <2>4. ~Flushing' => ~Flushing
    BY <2>3 DEF VectorsInv, Flushing, V!Idle
  <2>5. user' \in [Worker -> [pc : {"idle", "store", "flush", "delete"}, old : BOOLEAN]]
    BY <2>3 DEF VectorsInv, V!Idle
  <2>6. /\ writers' \in [V!Statement -> Nat]
        /\ V!InFlight' = V!InFlight \cup {[hash |-> h, scope |-> s]}
                                    \cup {[hash |-> g, scope |-> None] : g \in gone}
    <3>1. {[hash |-> h, scope |-> s]} \cup {[hash |-> g, scope |-> None] : g \in gone}
            \subseteq V!Statement
      BY <2>2 DEF V!Statement
    <3>2. QED BY <2>1, <3>1, LaunchAdds DEF VectorsInv
  <2>7. ASSUME ~Flushing, NEW g \in Hash \ crossed' PROVE Settled(g)'
    <3>1. Settled(g) /\ g # h /\ g \notin gone
      BY <2>1, <2>7 DEF VectorsInv
    <3>2. \A t : t.hash = g => (t \in V!InFlight' <=> t \in V!InFlight)
      BY <2>6, <3>1
    <3>3. QED BY <2>3, <3>1, <3>2 DEF Settled
  <2>8. QED BY <2>3, <2>4, <2>5, <2>6, <2>7 DEF VectorsInv
<1>6. QED BY <1>1, <1>2, <1>3, <1>4, <1>5, StoreSettles DEF V!Use

\* A statement that is carried out makes the row what the map says.
LEMMA ExecuteSettles ==
  ASSUME VectorsInv, NEW s \in V!Statement, V!Execute(s)
  PROVE  VectorsInv'
<1>1. /\ writers' \in [V!Statement -> Nat] /\ UNCHANGED <<vectors, user>>
      /\ s \in V!InFlight /\ V!InFlight \ {s} \subseteq V!InFlight' /\ V!InFlight' \subseteq V!InFlight
  BY DEF VectorsInv, V!Execute, V!InFlight
<1>2. vectorRows' \in [Hash -> Scope \cup {None}]
  BY <1>1 DEF VectorsInv, V!Execute, V!Statement
<1>3. ASSUME ~Flushing, NEW h \in Hash \ crossed' PROVE Settled(h)'
  <2>1. Settled(h)
    BY <1>3 DEF VectorsInv, V!Execute
  <2>2. CASE h # s.hash
    <3>1. vectorRows'[h] = vectorRows[h]
      BY <2>2 DEF V!Execute, VectorsInv
    <3>2. QED BY <1>1, <2>1, <2>2, <3>1 DEF Settled
  <2>3. CASE h = s.hash
    <3>1. vectorRows'[h] = s.scope
      BY <1>3, <2>3 DEF V!Execute, VectorsInv
    <3>2. QED BY <1>1, <2>1, <2>3, <3>1 DEF Settled
  <2>4. QED BY <2>2, <2>3
<1>4. Flushing' <=> Flushing
  BY <1>1 DEF Flushing
<1>5. QED BY <1>1, <1>2, <1>3, <1>4 DEF VectorsInv

\* A store that is built mirrors the table, as far as crossed does not say otherwise.
LEMMA NewSettles ==
  ASSUME VectorsInv, V!Restart \/ V!Rebuild
  PROVE  VectorsInv'
<1>1. PICK loaded \in V!Loaded :
        /\ vectors' = [h \in Hash |-> IF h \in loaded THEN vectorRows[h] ELSE None]
        /\ V!Stored \ loaded \subseteq crossed'
  BY DEF V!Restart, V!Rebuild, V!New
<1>2. writers' \in [V!Statement -> Nat] /\ \A s \in V!InFlight' : s.hash \in crossed'
  BY DEF VectorsInv, V!Restart, V!Rebuild, V!New, V!InFlight
<1>3. vectorRows' = vectorRows
  BY DEF V!Restart, V!Rebuild
<1>4. user' \in [Worker -> [pc : {"idle", "store", "flush", "delete"}, old : BOOLEAN]]
  <2>1. V!Idle \in [pc : {"idle", "store", "flush", "delete"}, old : BOOLEAN]
    BY DEF V!Idle
  <2>2. \A u \in [pc : {"idle", "store", "flush", "delete"}, old : BOOLEAN] :
          [u EXCEPT !.old = TRUE] \in [pc : {"idle", "store", "flush", "delete"}, old : BOOLEAN]
    OBVIOUS
  <2>3. \A w \in Worker : user[w] \in [pc : {"idle", "store", "flush", "delete"}, old : BOOLEAN]
    BY DEF VectorsInv
  <2>4. QED BY <2>1, <2>2, <2>3 DEF V!Restart, V!Rebuild
<1>5. vectors' \in [Hash -> Scope \cup {None}]
  BY <1>1 DEF VectorsInv
<1>6. ASSUME NEW h \in Hash \ crossed' PROVE Settled(h)'
  <2>1. vectors'[h] = vectorRows[h]
    BY <1>1, <1>6 DEF V!Stored
  <2>2. QED BY <1>2, <1>3, <1>6, <2>1 DEF Settled
<1>7. QED BY <1>2, <1>3, <1>4, <1>5, <1>6 DEF VectorsInv

LEMMA VectorsStep ==
  ASSUME VectorsInv, V!Next PROVE VectorsInv'
  BY UseSettles, ExecuteSettles, NewSettles DEF V!Next

LEMMA VectorsStill ==
  ASSUME VectorsInv, UNCHANGED vectorVars PROVE VectorsInv'
  BY DEF VectorsInv, vectorVars, Flushing, Settled, V!InFlight

LEMMA VectorsShow == VectorsInv => V!TableFollows
  BY DEF VectorsInv, V!TableFollows, V!Busy, Flushing, Settled

-----------------------------------------------------------------------------
(* Providers.  Until reloads cross or fail at most one handler holds what  *)
(* its query returned; and once every edit has queried, whoever holds the  *)
(* list last has the table as it is.                                       *)

RoutesInv ==
  /\ editing = [e \in Worker |-> editing[e]]
  /\ ~routesCrossed =>
       /\ \A d, e \in Worker : R!Holding(d) /\ R!Holding(e) => d = e
       /\ (\A e \in Worker : editing[e].pc # "query") =>
            /\ \A e \in Worker : R!Holding(e) => editing[e].got = R!Enabled(providers)
            /\ (\A e \in Worker : ~R!Holding(e)) => routes = R!Enabled(providers)

LEMMA RoutesStart == R!Init => RoutesInv
<1> SUFFICES ASSUME R!Init PROVE RoutesInv
  OBVIOUS
<1>1. editing = [e \in Worker |-> editing[e]] /\ routes = R!Enabled(providers)
  BY DEF R!Init
<1>2. \A e \in Worker : editing[e].pc = "idle"
  BY DEF R!Init, R!Idle
<1>3. QED BY <1>1, <1>2 DEF RoutesInv, R!Holding

\* A handler that has written is about to query.
LEMMA WriteThenQuery ==
  ASSUME RoutesInv, NEW e \in Worker, editing[e].pc \in {"idle", "update"},
         R!Go(e, "query"), routesCrossed' = routesCrossed
  PROVE  RoutesInv'
<1>1. editing' = [editing EXCEPT ![e] = [R!Idle EXCEPT !.pc = "query"]]
  BY DEF R!Go
<1>2. editing'[e].pc = "query" /\ ~R!Holding(e)'
  BY <1>1 DEF R!Idle, R!Holding, RoutesInv
<1>3. \A d \in Worker \ {e} : editing'[d] = editing[d] /\ (R!Holding(d)' <=> R!Holding(d))
  BY <1>1 DEF RoutesInv, R!Holding
<1>4. editing' = [d \in Worker |-> editing'[d]]
  BY <1>1 DEF RoutesInv
<1>5. QED BY <1>2, <1>3, <1>4 DEF RoutesInv

LEMMA EditKeepsRoutes ==
  ASSUME RoutesInv, NEW e \in Worker, R!Edit(e)
  PROVE  RoutesInv'
<1>1. ASSUME NEW i \in R!Id, NEW s \in Setup, NEW on \in BOOLEAN, R!UpdateCheck(e, i, s, on)
      PROVE  RoutesInv'
  <2>1. editing[e].pc = "idle"
    BY <1>1 DEF R!UpdateCheck, R!Free, R!Idle
  <2>2. editing'[e].pc = "update"
    BY <1>1 DEF R!UpdateCheck, R!Idle, RoutesInv
  <2>3. \A d \in Worker \ {e} : editing'[d] = editing[d]
    BY <1>1 DEF R!UpdateCheck, RoutesInv
  <2>4. editing' = [d \in Worker |-> editing'[d]] /\ UNCHANGED <<providers, routes, routesCrossed>>
    BY <1>1 DEF R!UpdateCheck, RoutesInv
  <2>5. \A d \in Worker : R!Holding(d)' <=> R!Holding(d)
    BY <2>1, <2>2, <2>3 DEF R!Holding
  <2>6. \A d \in Worker : R!Holding(d) => editing'[d] = editing[d]
    BY <2>1, <2>3 DEF R!Holding
  <2>7. (\A d \in Worker : editing'[d].pc # "query") => (\A d \in Worker : editing[d].pc # "query")
    BY <2>1, <2>3
  <2>8. QED BY <2>4, <2>5, <2>6, <2>7 DEF RoutesInv
<1>2. CASE R!Update(e)
  BY <1>2, WriteThenQuery DEF R!Update
<1>3. CASE \/ \E n \in Name, s \in Setup, on \in BOOLEAN : R!Create(e, n, s, on)
           \/ \E i \in R!Id : R!Delete(e, i) \/ \E on \in BOOLEAN : R!Toggle(e, i, on)
  <2>1. R!Free(e) /\ R!Go(e, "query") /\ routesCrossed' = routesCrossed
    BY <1>3 DEF R!Create, R!Delete, R!Toggle
  <2>2. QED BY <2>1, WriteThenQuery DEF R!Free, R!Idle
<1>4. QED BY <1>1, <1>2, <1>3 DEF R!Edit

LEMMA ReloadKeepsRoutes ==
  ASSUME RoutesInv, NEW e \in Worker, R!Query(e) \/ R!QueryBreaks(e) \/ R!QueryFails(e) \/ R!Install(e)
  PROVE  RoutesInv'
<1>1. editing' = [d \in Worker |-> editing'[d]] /\ providers' = providers
  BY DEF R!Query, R!QueryBreaks, R!QueryFails, R!Install, RoutesInv
<1>2. \A d \in Worker \ {e} : editing'[d] = editing[d]
  BY DEF R!Query, R!QueryBreaks, R!QueryFails, R!Install, RoutesInv
<1>3. CASE R!Query(e)
  <2>1. editing'[e].pc = "install" /\ editing'[e].got = R!Enabled(providers)
    BY <1>3 DEF R!Query, R!Idle, RoutesInv
  <2>2. ~routesCrossed' => \A d \in Worker : ~R!Holding(d)
    BY <1>3 DEF R!Query
  <2>3. QED BY <1>1, <1>2, <2>1, <2>2 DEF RoutesInv, R!Holding
<1>4. CASE R!QueryBreaks(e) \/ R!QueryFails(e)
  BY <1>1, <1>4 DEF R!QueryBreaks, R!QueryFails, RoutesInv
<1>5. CASE R!Install(e)
  <2>1. R!Holding(e) /\ routes' = editing[e].got /\ editing'[e].pc = "idle"
    BY <1>5 DEF R!Install, R!Idle, RoutesInv
  <2>2. ASSUME ~routesCrossed' PROVE \A d \in Worker \ {e} : ~R!Holding(d)
    BY <1>5, <2>1, <2>2 DEF R!Install, RoutesInv
  <2>3. ASSUME ~routesCrossed', \A d \in Worker : editing'[d].pc # "query"
        PROVE  editing[e].got = R!Enabled(providers)
    <3>1. CASE routesCrossed
      BY <1>5, <2>3, <3>1 DEF R!Install
    <3>2. CASE ~routesCrossed
      <4>1. \A d \in Worker : editing[d].pc # "query"
        BY <1>2, <2>1, <2>3 DEF R!Holding
      <4>2. QED BY <2>1, <3>2, <4>1 DEF RoutesInv
    <3>3. QED BY <3>1, <3>2
  <2>4. QED BY <1>1, <1>2, <2>1, <2>2, <2>3 DEF RoutesInv, R!Holding
<1>6. QED BY <1>3, <1>4, <1>5

LEMMA RoutesStep ==
  ASSUME RoutesInv, R!Next PROVE RoutesInv'
  BY EditKeepsRoutes, ReloadKeepsRoutes DEF R!Next

LEMMA RoutesStill ==
  ASSUME RoutesInv, UNCHANGED routeVars PROVE RoutesInv'
  BY DEF RoutesInv, routeVars, R!Holding

LEMMA RoutesShow == RoutesInv => R!RoutesFollowTable
  BY DEF RoutesInv, R!RoutesFollowTable, R!Holding

-----------------------------------------------------------------------------
(* ApiKeys.  What the cache holds of a key that is no longer on, or for    *)
(* longer than its expiry and the TTL together, is about to be cleared or  *)
(* was put there too late.                                                 *)

Clearing == \E a \in Worker : admin[a] = "clear"

KeysInv ==
  /\ now \in Nat
  /\ keys \in [Key -> [state : {"unissued", "on", "off", "deleted"}, expires : Nat]]
  /\ cached = [k \in Key |-> cached[k]]
  /\ admin = [a \in Worker |-> admin[a]]
  /\ \A c \in Caller : call[c].at # "idle" => call[c].key \in Key
  /\ call = [c \in Caller |-> call[c]]
  /\ \A k \in Key : cached[k] # None =>
       /\ cached[k] \in Nat
       /\ \/ Clearing
          \/ k \in late
          \/ /\ keys[k].state = "on"
             /\ keys[k].expires # 0 => cached[k] <= keys[k].expires + TTL

LEMMA KeysStart == K!Init => KeysInv
  BY DEF K!Init, K!Unissued, K!Idle, KeysInv

LEMMA WrapKeepsKeys ==
  ASSUME KeysInv, NEW c \in Caller, K!Wrap(c)
  PROVE  KeysInv'
<1>1. ASSUME NEW k \in Key, K!Ask(c, k) PROVE KeysInv'
  BY <1>1 DEF K!Ask, K!Move, KeysInv, Clearing
<1>2. CASE K!DropExpired(c)
  BY <1>2 DEF K!DropExpired, K!Move, KeysInv, Clearing
<1>3. CASE K!Query(c)
  BY <1>3 DEF K!Query, K!Move, K!Leave, K!Idle, KeysInv, Clearing
<1>4. CASE K!Remember(c)
  <2>1. PICK key \in Key : key = call[c].key
    BY <1>4 DEF K!Remember, KeysInv
  <2>2. PICK until \in Nat : until = now + TTL
    BY AdminAssumption DEF KeysInv
  <2>3. /\ cached' = [cached EXCEPT ![key] = until]
        /\ UNCHANGED <<now, keys, admin>>
        /\ call' = [call EXCEPT ![c] = K!Idle]
    BY <1>4, <2>1, <2>2 DEF K!Remember, K!Leave
  <2>4. late' = IF K!Valid(key) THEN late \ {key} ELSE late \cup {key}
    BY <1>4, <2>1 DEF K!Remember
  <2>5. K!Valid(key) => /\ keys[key].state = "on"
                        /\ keys[key].expires # 0 => until <= keys[key].expires + TTL
    BY <2>2, AdminAssumption DEF K!Valid, KeysInv
  <2>6. /\ cached' = [k \in Key |-> cached'[k]]
        /\ \A k \in Key : cached'[k] = IF k = key THEN until ELSE cached[k]
    BY <2>3 DEF KeysInv
  <2>7. /\ \A k \in Key \ {key} : k \in late' <=> k \in late
        /\ K!Valid(key) \/ key \in late'
    BY <2>4
  <2>8. Clearing' <=> Clearing
    BY <2>3 DEF Clearing
  <2>9. \A k \in Key : cached'[k] # None =>
          /\ cached'[k] \in Nat
          /\ \/ Clearing'
             \/ k \in late'
             \/ /\ keys'[k].state = "on"
                /\ keys'[k].expires # 0 => cached'[k] <= keys'[k].expires + TTL
    BY <2>2, <2>3, <2>5, <2>6, <2>7, <2>8 DEF KeysInv
  <2>10. /\ \A d \in Caller : call'[d].at # "idle" => call'[d].key \in Key
         /\ call' = [d \in Caller |-> call'[d]]
    BY <2>3 DEF KeysInv, K!Idle
  <2>11. QED BY <2>3, <2>6, <2>9, <2>10 DEF KeysInv
<1>5. QED BY <1>1, <1>2, <1>3, <1>4 DEF K!Wrap

LEMMA ManageKeepsKeys ==
  ASSUME KeysInv, NEW a \in Worker, K!Manage(a)
  PROVE  KeysInv'
<1>1. ASSUME NEW k \in Key, NEW row1 \in [state : {"unissued", "on", "off", "deleted"}, expires : Nat],
             K!Statement(a, k, row1)
      PROVE  KeysInv'
  <2>1. Clearing'
    BY <1>1 DEF K!Statement, KeysInv, Clearing
  <2>2. QED BY <1>1, <2>1 DEF K!Statement, KeysInv
<1>2. ASSUME NEW k \in Key, K!Create(a, k) PROVE KeysInv'
  BY <1>1, <1>2 DEF K!Create, KeysInv
<1>3. ASSUME NEW k \in Key, K!Delete(a, k) PROVE KeysInv'
  BY <1>1, <1>3 DEF K!Delete
<1>4. ASSUME NEW k \in Key, NEW state \in {"on", "off"}, K!Toggle(a, k, state) PROVE KeysInv'
  <2>1. [keys[k] EXCEPT !.state = state] \in
          [state : {"unissued", "on", "off", "deleted"}, expires : Nat]
    BY DEF KeysInv
  <2>2. QED BY <1>1, <1>4, <2>1 DEF K!Toggle
<1>5. CASE K!InvalidateCache(a)
  BY <1>5 DEF K!InvalidateCache, KeysInv
<1>6. QED BY <1>2, <1>3, <1>4, <1>5 DEF K!Manage

LEMMA KeysStep ==
  ASSUME KeysInv, K!Next PROVE KeysInv'
<1>1. CASE K!Sweep
  BY <1>1 DEF K!Sweep, KeysInv, Clearing
<1>2. CASE K!Tick
  BY <1>2 DEF K!Tick, KeysInv, Clearing
<1>3. QED BY <1>1, <1>2, WrapKeepsKeys, ManageKeepsKeys DEF K!Next

LEMMA KeysStill ==
  ASSUME KeysInv, UNCHANGED keyVars PROVE KeysInv'
  BY DEF KeysInv, keyVars, Clearing

LEMMA KeysShow == KeysInv => K!RevokedStaysOut
  BY AdminAssumption DEF KeysInv, K!RevokedStaysOut, K!Admitted, K!Valid, Clearing
-----------------------------------------------------------------------------
(* Pricing.  A writer owes a reload from its first statement to its query; *)
(* one that is about to count owes it only while the table is empty, since *)
(* it then seeds it, and otherwise whoever wrote the row owes it or has    *)
(* listed the table since.  When nobody owes one, the writer who holds a   *)
(* list, or else the cache, has the table.                                 *)

Owes(t) ==
  \/ t.pc \in {"seed", "upsert", "prune", "query"}
  \/ t.pc = "count" /\ P!Listed(prices) = {}

IsTask(t) == {"pc", "listed", "got"} \subseteq DOMAIN t

PricesInv ==
  /\ pricing = [w \in Worker |-> pricing[w]]
  /\ \A w \in Worker : IsTask(pricing[w]) /\ (P!Holding(w) => pricing[w].listed = None)
  /\ ~pricesCrossed =>
       /\ \A v, w \in Worker : P!Holding(v) /\ P!Holding(w) => v = w
       /\ (\A w \in Worker : ~Owes(pricing[w])) =>
            /\ \A w \in Worker : P!Holding(w) => pricing[w].got = P!Prices(prices)
            /\ (\A w \in Worker : ~P!Holding(w)) => priceCache = P!Prices(prices)

LEMMA IdleOwesNothing ==
  IsTask(P!Idle) /\ P!Idle.pc = "idle" /\ P!Idle.listed = None /\ ~Owes(P!Idle)
  BY DEF P!Idle, IsTask, Owes

LEMMA ReloadNextOwes ==
  IsTask(P!ReloadNext) /\ P!ReloadNext.pc = "query" /\ P!ReloadNext.listed = None
  BY DEF P!ReloadNext, P!Idle, IsTask

LEMMA PricesStart == P!Init => PricesInv
<1> SUFFICES ASSUME P!Init PROVE PricesInv
  OBVIOUS
<1>1. /\ pricing = [w \in Worker |-> pricing[w]] /\ \A w \in Worker : pricing[w] = P!Idle
      /\ priceCache = P!Prices(prices)
  BY DEF P!Init
<1>2. QED BY <1>1, IdleOwesNothing DEF PricesInv, P!Holding

\* What a writer does to the others' tasks leaves them where they are.
LEMMA DisturbedIs ==
  ASSUME NEW t, IsTask(t)
  PROVE  /\ IsTask(P!Disturbed(t)) /\ P!Disturbed(t).pc = t.pc
         /\ t.listed = None => P!Disturbed(t) = t
<1>1. CASE t.listed = None
  BY <1>1 DEF P!Disturbed
<1>2. CASE t.listed # None /\ t.pc = "query"
  BY <1>2, ReloadNextOwes DEF P!Disturbed
<1>3. CASE t.listed # None /\ t.pc # "query"
  <2>1. P!Disturbed(t) = [t EXCEPT !.lone = FALSE]
    BY <1>3 DEF P!Disturbed
  <2>2. QED BY <1>3, <2>1 DEF IsTask
<1>4. QED BY <1>1, <1>2, <1>3

\* A statement of a writer who goes on to owe a reload: nothing is claimed.
LEMMA WritingKeepsPrices ==
  ASSUME PricesInv, NEW w \in Worker, NEW t, IsTask(t),
         t.pc \in {"seed", "upsert", "prune", "query"} \/ (t.pc = "count" /\ P!Listed(prices') = {}),
         P!Wrote(w, t), pricesCrossed' = pricesCrossed, ~P!Holding(w)
  PROVE  PricesInv'
<1>1. pricing' = [v \in Worker |-> IF v = w THEN t ELSE P!Disturbed(pricing[v])]
  BY DEF P!Wrote
<1>2. pricing' = [v \in Worker |-> pricing'[v]] /\ pricing'[w] = t
  BY <1>1
<1>3. \A v \in Worker \ {w} : pricing'[v] = P!Disturbed(pricing[v]) /\ IsTask(pricing[v])
  BY <1>1 DEF PricesInv
<1>4. \A v \in Worker : IsTask(pricing'[v])
  BY <1>2, <1>3, DisturbedIs
<1>5. \A v \in Worker \ {w} : pricing'[v].pc = pricing[v].pc
  BY <1>3, DisturbedIs
<1>6. ~P!Holding(w)'
  BY <1>2 DEF P!Holding
<1>7. \A v \in Worker : P!Holding(v)' => P!Holding(v) /\ pricing'[v].listed = None
  BY <1>3, <1>5, <1>6, DisturbedIs DEF P!Holding, PricesInv
<1>8. Owes(pricing[w])'
  BY <1>2 DEF Owes, P!Listed
<1>9. QED BY <1>2, <1>4, <1>7, <1>8 DEF PricesInv

\* One writer moves on without a statement, and owes afterwards if it did before.
LEMMA MovingKeepsPrices ==
  ASSUME PricesInv, NEW w \in Worker, NEW t, IsTask(t), t.pc # "install",
         pricing' = [pricing EXCEPT ![w] = t], UNCHANGED <<prices, priceCache, pricesCrossed>>,
         ~P!Holding(w), Owes(pricing[w]) => Owes(t)
  PROVE  PricesInv'
<1>1. pricing' = [v \in Worker |-> pricing'[v]] /\ pricing'[w] = t
      /\ \A v \in Worker \ {w} : pricing'[v] = pricing[v]
  BY DEF PricesInv
<1>2. \A v \in Worker : IsTask(pricing'[v]) /\ (P!Holding(v)' <=> P!Holding(v))
  BY <1>1 DEF PricesInv, P!Holding
<1>3. \A v \in Worker : Owes(pricing[v]) => Owes(pricing[v])'
  BY <1>1 DEF Owes, P!Listed
<1>4. P!Prices(prices)' = P!Prices(prices)
  BY DEF P!Prices
<1>5. \A v \in Worker : P!Holding(v) => v # w /\ pricing'[v] = pricing[v]
  BY <1>1
<1>6. QED BY <1>1, <1>2, <1>3, <1>4, <1>5 DEF PricesInv

\* Where a refresh goes after a statement: it still owes the reload.
LEMMA AfterOwes ==
  ASSUME NEW t, IsTask(t), t.pc \in {"upsert", "prune"}
  PROVE  IsTask(P!After(t)) /\ P!After(t).pc \in {"upsert", "prune", "query"}
<1>1. CASE P!After(t) = t
  BY <1>1
<1>2. ASSUME NEW gone, P!After(t) = [t EXCEPT !.todo = gone, !.pc = "prune"]
      PROVE  IsTask(P!After(t)) /\ P!After(t).pc \in {"upsert", "prune", "query"}
  BY <1>2 DEF IsTask
<1>3. CASE P!After(t) = [t EXCEPT !.pc = "query"]
  BY <1>3 DEF IsTask
<1>4. CASE P!After(t) = P!ReloadNext
  BY <1>4, ReloadNextOwes
<1>5. QED BY <1>1, <1>2, <1>3, <1>4 DEF P!After

LEMMA DoneOwes ==
  ASSUME NEW t, IsTask(t), t.pc \in {"upsert", "prune"}, NEW p, NEW ok
  PROVE  /\ IsTask(P!Done(t, p, ok)) /\ P!Done(t, p, ok).pc \in {"upsert", "prune", "query"}
         /\ IsTask(P!Tried(t, p, ok)) /\ P!Tried(t, p, ok).pc \in {"upsert", "prune", "query"}
<1>1. ASSUME NEW u, IsTask(u), u.pc \in {"upsert", "prune"}
      PROVE  IsTask(P!Done(u, p, ok)) /\ P!Done(u, p, ok).pc \in {"upsert", "prune", "query"}
  <2> DEFINE x == [u EXCEPT !.todo = @ \ {p}, !.failed = @ \/ ~ok]
  <2>1. IsTask(x) /\ x.pc = u.pc
    BY <1>1 DEF IsTask
  <2>2. P!Done(u, p, ok) = P!After(x)
    BY DEF P!Done
  <2> HIDE DEF x
  <2>3. QED BY <1>1, <2>1, <2>2, AfterOwes
<1> DEFINE y == [t EXCEPT !.updated = @ \/ ok]
<1>2. IsTask(y) /\ y.pc = t.pc
  BY DEF IsTask
<1>3. P!Tried(t, p, ok) = P!Done(y, p, ok)
  BY DEF P!Tried
<1> HIDE DEF y
<1>4. QED BY <1>1, <1>2, <1>3

LEMMA EditKeepsPrices ==
  ASSUME PricesInv, NEW w \in Worker, P!Edit(w) \/ P!DeleteAll(w)
  PROVE  PricesInv'
<1>1. CASE P!Edit(w)
  <2>1. P!Free(w) /\ P!Wrote(w, P!ReloadNext) /\ pricesCrossed' = pricesCrossed
    BY <1>1 DEF P!Edit, P!Create, P!Update, P!Delete
  <2>2. QED BY <2>1, ReloadNextOwes, WritingKeepsPrices DEF P!Free, P!Holding
<1>2. CASE P!DeleteAll(w)
  <2> DEFINE t == [P!Idle EXCEPT !.pc = "count"]
  <2>1. IsTask(t) /\ t.pc = "count"
    BY DEF P!Idle, IsTask
  <2>2. P!Free(w) /\ P!Wrote(w, t) /\ pricesCrossed' = pricesCrossed
        /\ prices' = [p \in Prefix |-> None]
    BY <1>2 DEF P!DeleteAll
  <2>3. P!Listed(prices') = {}
    BY <2>2 DEF P!Listed
  <2> HIDE DEF t
  <2>4. QED BY <2>1, <2>2, <2>3, WritingKeepsPrices DEF P!Free, P!Holding
<1>3. QED BY <1>1, <1>2

\* A refused count gives up without a reload, but then a row is there.
LEMMA ResetKeepsPrices ==
  ASSUME PricesInv, NEW w \in Worker, P!Count(w) \/ \E p \in Prefix : P!Seed(w, p)
  PROVE  PricesInv'
<1>0. IsTask(pricing[w])
  BY DEF PricesInv
<1>1. CASE P!Count(w)
  <2>1. pricing[w].pc = "count" /\ UNCHANGED <<prices, priceCache>>
    BY <1>1 DEF P!Count
  <2>2. CASE P!Listed(prices) = {} /\ pricing' = [pricing EXCEPT ![w].pc = "seed", ![w].todo = Seeds]
             /\ UNCHANGED pricesCrossed
    <3> DEFINE t == [pricing[w] EXCEPT !.pc = "seed", !.todo = Seeds]
    <3>1. IsTask(t) /\ t.pc = "seed"
      BY <1>0 DEF IsTask
    <3>2. pricing' = [pricing EXCEPT ![w] = t]
      BY <2>2 DEF PricesInv
    <3> HIDE DEF t
    <3>3. QED BY <2>1, <2>2, <3>1, <3>2, MovingKeepsPrices DEF Owes, P!Holding
  <2>3. CASE P!Listed(prices) # {} /\ pricing' = [pricing EXCEPT ![w] = P!Idle] /\ UNCHANGED pricesCrossed
    BY <2>1, <2>3, IdleOwesNothing, MovingKeepsPrices DEF Owes, P!Holding
  <2>4. CASE pricing' = [pricing EXCEPT ![w] = P!Idle] /\ pricesCrossed'
    BY <2>4, IdleOwesNothing DEF PricesInv, P!Holding
  <2>5. QED BY <1>1, <2>2, <2>3, <2>4 DEF P!Count
<1>2. ASSUME NEW p \in Prefix, P!Seed(w, p) PROVE PricesInv'
  <2>1. PICK t : /\ t = [pricing[w] EXCEPT !.todo = @ \ {p},
                                !.pc = IF pricing[w].todo = {p} THEN "query" ELSE "seed"]
                 /\ \/ P!Wrote(w, t)
                    \/ pricing' = [pricing EXCEPT ![w] = t] /\ UNCHANGED prices
    BY <1>2 DEF P!Seed
  <2>2. IsTask(t) /\ t.pc \in {"seed", "query"}
    BY <1>0, <2>1 DEF IsTask
  <2>3. pricing[w].pc = "seed" /\ UNCHANGED <<priceCache, pricesCrossed>>
    BY <1>2 DEF P!Seed
  <2>4. QED BY <2>1, <2>2, <2>3, WritingKeepsPrices, MovingKeepsPrices DEF Owes, P!Holding
<1>3. QED BY <1>1, <1>2

LEMMA RefreshKeepsPrices ==
  ASSUME PricesInv, NEW w \in Worker, P!Refresh(w)
  PROVE  PricesInv'
<1>0. IsTask(pricing[w])
  BY DEF PricesInv
<1>1. ASSUME NEW cat \in SUBSET Prefix, P!List(w, cat) PROVE PricesInv'
  <2> DEFINE x == [P!Idle EXCEPT !.pc = "upsert", !.todo = cat, !.cat = cat, !.listed = prices]
  <2>1. IsTask(x) /\ x.pc = "upsert"
    BY DEF P!Idle, IsTask
  <2>2. P!Free(w) /\ pricing' = [pricing EXCEPT ![w] = P!After(x)]
        /\ UNCHANGED <<prices, priceCache, pricesCrossed>>
    BY <1>1 DEF P!List
  <2> HIDE DEF x
  <2>3. IsTask(P!After(x)) /\ P!After(x).pc \in {"upsert", "prune", "query"}
    BY <2>1, AfterOwes
  <2>4. QED BY <2>2, <2>3, MovingKeepsPrices DEF P!Free, P!Holding, Owes
<1>2. ASSUME NEW p \in Prefix, P!Upsert(w, p) \/ P!Prune(w, p) PROVE PricesInv'
  <2>1. PICK t : /\ \/ \E ok \in BOOLEAN : t = P!Tried(pricing[w], p, ok)
                    \/ \E ok \in BOOLEAN : t = P!Done(pricing[w], p, ok)
                 /\ \/ P!Wrote(w, t)
                    \/ pricing' = [pricing EXCEPT ![w] = t] /\ UNCHANGED prices
    BY <1>2 DEF P!Upsert, P!Prune
  <2>2. pricing[w].pc \in {"upsert", "prune"} /\ UNCHANGED <<priceCache, pricesCrossed>>
    BY <1>2 DEF P!Upsert, P!Prune
  <2>3. IsTask(t) /\ t.pc \in {"upsert", "prune", "query"}
    BY <1>0, <2>1, <2>2, DoneOwes
  <2>4. QED BY <2>1, <2>2, <2>3, WritingKeepsPrices, MovingKeepsPrices DEF Owes, P!Holding
<1>3. QED BY <1>1, <1>2 DEF P!Refresh

LEMMA ReloadKeepsPrices ==
  ASSUME PricesInv, NEW w \in Worker, P!Reload(w)
  PROVE  PricesInv'
<1>0. P!Prices(prices)' = P!Prices(prices) /\ P!Listed(prices)' = P!Listed(prices)
  BY DEF P!Reload, P!Query, P!QueryFails, P!Install, P!Prices, P!Listed
<1>1. /\ pricing' = [v \in Worker |-> pricing'[v]]
      /\ \A v \in Worker \ {w} : pricing'[v] = pricing[v]
  BY DEF P!Reload, P!Query, P!QueryFails, P!Install, PricesInv
<1>2. CASE P!Query(w)
  <2> DEFINE t == [P!Idle EXCEPT !.pc = "install", !.got = P!Prices(prices)]
  <2>1. IsTask(t) /\ t.pc = "install" /\ t.listed = None /\ t.got = P!Prices(prices)
    BY DEF P!Idle, IsTask
  <2>2. pricing' = [pricing EXCEPT ![w] = t]
    BY <1>2 DEF P!Query
  <2> HIDE DEF t
  <2>3. pricing'[w] = t
    BY <2>2 DEF PricesInv
  <2>4. ~pricesCrossed' => ~pricesCrossed /\ \A v \in Worker : ~P!Holding(v)
    BY <1>2 DEF P!Query
  <2>5. \A v \in Worker \ {w} : P!Holding(v)' <=> P!Holding(v)
    BY <1>1 DEF P!Holding
  <2>6. QED BY <1>0, <1>1, <2>1, <2>3, <2>4, <2>5 DEF PricesInv, P!Holding
<1>3. CASE P!QueryFails(w)
  <2>1. pricing'[w] = P!Idle /\ pricesCrossed'
    BY <1>3 DEF P!QueryFails, PricesInv
  <2>2. QED BY <1>1, <2>1, IdleOwesNothing DEF PricesInv, P!Holding
<1>4. CASE P!Install(w)
  <2>1. P!Holding(w) /\ pricing'[w] = P!Idle /\ priceCache' = pricing[w].got
    BY <1>4 DEF P!Install, PricesInv
  <2>2. ~pricesCrossed' =>
          \/ ~pricesCrossed
          \/ pricing[w].got = P!Prices(prices) /\ \A v \in Worker \ {w} : ~P!Holding(v)
    BY <1>4 DEF P!Install
  <2>3. ~P!Holding(w)' /\ \A v \in Worker \ {w} : P!Holding(v)' <=> P!Holding(v)
    BY <1>1, <2>1, IdleOwesNothing DEF P!Holding
  <2>4. ~pricesCrossed' => \A v \in Worker : ~P!Holding(v)'
    BY <2>1, <2>2, <2>3 DEF PricesInv
  <2>5. \A v \in Worker \ {w} : Owes(pricing[v])' <=> Owes(pricing[v])
    BY <1>0, <1>1 DEF Owes
  <2>6. ~Owes(pricing[w])
    BY <2>1 DEF Owes, P!Holding
  <2>7. ASSUME ~pricesCrossed', \A v \in Worker : ~Owes(pricing[v])'
        PROVE  pricing[w].got = P!Prices(prices)
    BY <2>1, <2>2, <2>5, <2>6, <2>7 DEF PricesInv
  <2>8. \A v \in Worker : IsTask(pricing'[v])
    BY <1>1, <2>1, IdleOwesNothing DEF PricesInv
  <2>9. ~pricesCrossed' /\ (\A v \in Worker : ~Owes(pricing[v])') => priceCache' = P!Prices(prices)'
    BY <1>0, <2>1, <2>7
  <2>10. \A v \in Worker : P!Holding(v)' => pricing'[v].listed = None
    BY <1>1, <2>3 DEF PricesInv, P!Holding
  <2>11. QED BY <1>1, <2>4, <2>8, <2>9, <2>10 DEF PricesInv
<1>5. QED BY <1>2, <1>3, <1>4 DEF P!Reload

LEMMA PricesStep ==
  ASSUME PricesInv, P!Next PROVE PricesInv'
  BY EditKeepsPrices, ResetKeepsPrices, RefreshKeepsPrices, ReloadKeepsPrices DEF P!Next, P!Reset

LEMMA PricesStill ==
  ASSUME PricesInv, UNCHANGED priceVars PROVE PricesInv'
  BY DEF PricesInv, priceVars, P!Holding, Owes, P!Listed, P!Prices

LEMMA PricesShow == PricesInv => P!PricesFollowTable
  BY DEF PricesInv, P!PricesFollowTable, P!Holding, P!Free, Owes

-----------------------------------------------------------------------------
(* Settings.  While PUTs do not overlap there is at most one, and what it  *)
(* holds is what it made live; the claims hold from the step that sees to  *)
(* them on.  A semantic cache was built with lastKey, but between its      *)
(* publication and the note of its key.                                    *)

Live   == [on : BOOLEAN, lam : {0, 1, 2}, key : Key \cup {None}, size : Size \cup {Limit}]
Built  == [key : Key \cup {None}, on : BOOLEAN]
At(e, pcs) == put[e].pc \in pcs

TypedPut(e) ==
  /\ put[e] = S!Idle \/ At(e, {"snapshot", "save", "read", "tell", "embedder", "publish", "note"})
  /\ At(e, {"snapshot"}) => put[e].data \in S!Incoming
  /\ At(e, {"save"}) => put[e].data \in Live
  /\ At(e, {"publish"}) => put[e].data \in Built

OfLive(e) ==
  /\ At(e, {"snapshot", "save"}) =>
       put[e].data.on = cfg.on /\ put[e].data.lam = cfg.lam /\ put[e].data.size = cfg.size
  /\ At(e, {"save"}) => put[e].data.key = cfg.key
  /\ At(e, {"tell"}) => put[e].data = cfg.lam
  /\ At(e, {"publish"}) => put[e].data = [key |-> cfg.key, on |-> cfg.on] /\ cfg.key # None
  /\ At(e, {"note"}) =>
       put[e].data = cfg.key /\ cfg.key # None /\ sem = [key |-> cfg.key, on |-> cfg.on]

MemoryTold == recall # None /\ cfg.lam > 0 => recall = cfg.lam
CacheBuilt ==
  "build" \notin failed =>
    /\ sem # None => sem = [key |-> cfg.key, on |-> cfg.on]
    /\ cfg.on /\ cfg.key # None => sem # None

SettingsTyped ==
  /\ cfg \in Live /\ row \in Live \cup {None} /\ sem \in Built \cup {None}
  /\ put = [e \in Worker |-> put[e]]
  /\ \A e \in Worker : TypedPut(e)

OneByOne ==
  /\ \A d, e \in Worker : put[d] # S!Idle /\ put[e] # S!Idle => d = e
  /\ \A e \in Worker : OfLive(e)
  /\ sem # None => cfg.key # None
  /\ (\A e \in Worker : ~At(e, {"note"})) /\ sem # None => sem.key = lastKey
  /\ (\A e \in Worker : ~At(e, {"snapshot", "save"})) => S!SavedIsLive
  /\ (\A e \in Worker : ~At(e, {"snapshot", "save", "read", "tell"})) => MemoryTold
  /\ S!Quiet => CacheBuilt

SettingsInv == SettingsTyped /\ (~overlapped => OneByOne)

LEMMA RestoredIsLive == ASSUME NEW r \in Live \cup {None} PROVE S!Restored(r) \in Live
  BY DEF Live, S!Restored, S!Default

LEMMA IdlePut == S!Idle.pc = "idle"
  BY DEF S!Idle

LEMMA SettingsStart == S!Init => SettingsInv
<1> SUFFICES ASSUME S!Init PROVE SettingsInv
  OBVIOUS
<1>1. (\A e \in Worker : put[e] = S!Idle) /\ put = [e \in Worker |-> put[e]]
  BY DEF S!Init
<1>2. cfg \in Live /\ row = None /\ sem = None /\ recall = None /\ cfg = S!Default
  BY DEF S!Init, S!Default, Live
<1>3. S!SavedIsLive /\ MemoryTold /\ CacheBuilt
  BY <1>2 DEF S!SavedIsLive, S!Restored, S!Default, MemoryTold, CacheBuilt
<1>4. \A e \in Worker : put[e].pc = "idle"
  BY <1>1, IdlePut
<1>5. \A e \in Worker : TypedPut(e) /\ OfLive(e)
  BY <1>1, <1>4 DEF TypedPut, OfLive, At
<1>6. SettingsTyped
  BY <1>1, <1>2, <1>5 DEF SettingsTyped
<1>7. OneByOne
  BY <1>1, <1>2, <1>3, <1>5 DEF OneByOne
<1>8. QED BY <1>6, <1>7 DEF SettingsInv

\* A restart builds everything from the row.
LEMMA RestartKeepsSettings ==
  ASSUME SettingsInv, S!Restart PROVE SettingsInv'
<1>1. /\ put' = [e \in Worker |-> S!Idle] /\ row' = row /\ cfg' = S!Restored(row)
      /\ recall' \in IF cfg'.key = None THEN {None} ELSE {cfg'.lam, None}
      /\ lastKey' = cfg'.key
  BY DEF S!Restart, S!Start, S!Built
<1>2. cfg' \in Live /\ row' \in Live \cup {None}
  BY <1>1, RestoredIsLive DEF SettingsInv, SettingsTyped
<1>3. /\ sem' = None \/ (sem' = [key |-> cfg'.key, on |-> TRUE] /\ cfg'.on /\ cfg'.key # None)
      /\ sem' = None /\ cfg'.on /\ cfg'.key # None => "build" \in failed'
      /\ sem' \in Built \cup {None}
  <2>1. CASE cfg'.on /\ cfg'.key # None
    <3>1. \/ sem' = [key |-> cfg'.key, on |-> TRUE]
          \/ sem' = None /\ failed' = failed \cup {"build"}
      BY <2>1 DEF S!Restart, S!Start, S!Built
    <3>2. [key |-> cfg'.key, on |-> TRUE] \in Built
      BY <1>2 DEF Built, Live
    <3>3. sem' = [key |-> cfg'.key, on |-> TRUE] => sem' # None
      BY <3>2, NoneAssumption DEF Built
    <3>4. QED BY <2>1, <3>1, <3>2, <3>3
  <2>2. CASE ~(cfg'.on /\ cfg'.key # None)
    BY <2>2 DEF S!Restart, S!Start
  <2>3. QED BY <2>1, <2>2
<1>4. (\A e \in Worker : put'[e] = S!Idle) /\ put' = [e \in Worker |-> put'[e]]
  BY <1>1
<1>5. S!SavedIsLive'
  BY <1>1 DEF S!SavedIsLive
<1>6. MemoryTold'
  BY <1>1 DEF MemoryTold
<1>7. CacheBuilt'
  BY <1>2, <1>3 DEF CacheBuilt, Live
<1>8. sem' # None => cfg'.key # None /\ sem'.key = lastKey'
  BY <1>1, <1>3
<1>9. \A e \in Worker : put'[e].pc = "idle"
  BY <1>4, IdlePut
<1>10. \A e \in Worker : TypedPut(e)' /\ OfLive(e)'
  BY <1>4, <1>9 DEF TypedPut, OfLive, At
<1>11. SettingsTyped'
  BY <1>2, <1>3, <1>4, <1>10 DEF SettingsTyped
<1>12. OneByOne'
  BY <1>4, <1>5, <1>6, <1>7, <1>8, <1>10 DEF OneByOne
<1>13. QED BY <1>11, <1>12 DEF SettingsInv

\* The one PUT under way moves on to u, if PUTs have not overlapped: the others
\* are idle, and what is to be shown is about u and the claims.
LEMMA MovingOn ==
  ASSUME SettingsInv, NEW e \in Worker, NEW u, put' = [put EXCEPT ![e] = u],
         overlapped' = overlapped, put[e] # S!Idle,
         cfg' \in Live, row' \in Live \cup {None}, sem' \in Built \cup {None},
         TypedPut(e)',
         (OneByOne /\ \A d \in Worker \ {e} : put[d].pc = "idle") =>
           /\ OfLive(e)'
           /\ sem' # None => cfg'.key # None
           /\ ~At(e, {"note"})' /\ sem' # None => sem'.key = lastKey'
           /\ ~At(e, {"snapshot", "save"})' => S!SavedIsLive'
           /\ ~At(e, {"snapshot", "save", "read", "tell"})' => MemoryTold'
           /\ put'[e] = S!Idle => CacheBuilt'
  PROVE  SettingsInv'
<1>1. /\ put' = [d \in Worker |-> put'[d]] /\ put'[e] = u
      /\ \A d \in Worker \ {e} : put'[d] = put[d]
  BY DEF SettingsInv, SettingsTyped
<1>2. SettingsTyped'
  <2>1. \A d \in Worker \ {e} : TypedPut(d)'
    BY <1>1 DEF SettingsInv, SettingsTyped, TypedPut, At
  <2>2. QED BY <1>1, <2>1 DEF SettingsTyped
<1>3. ASSUME ~overlapped PROVE OneByOne'
  <2>1. \A d \in Worker \ {e} : put[d] = S!Idle
    BY <1>3 DEF SettingsInv, OneByOne
  <2>2. \A d \in Worker \ {e} : put[d].pc = "idle" /\ put'[d] = S!Idle /\ put'[d].pc = "idle"
    BY <1>1, <2>1 DEF S!Idle
  <2>3. \A d \in Worker \ {e} : OfLive(d)'
    BY <2>2 DEF OfLive, At
  <2>4. OneByOne
    BY <1>3 DEF SettingsInv
  <2>5. S!Quiet' => put'[e] = S!Idle
    BY DEF S!Quiet
  <2>6. QED BY <2>2, <2>3, <2>4, <2>5 DEF OneByOne
<1>4. QED BY <1>2, <1>3 DEF SettingsInv

LEMMA ApplyKeepsSettings ==
  ASSUME SettingsInv, NEW e \in Worker, NEW in \in S!Incoming, S!Apply(e, in)
  PROVE  SettingsInv'
<1>1. /\ put[e] = S!Idle
      /\ cfg' = [on |-> in.on, lam |-> in.lam,
                 key |-> IF in.key \in {None, S!Mask} THEN cfg.key ELSE in.key,
                 size |-> in.size]
      /\ put' = [put EXCEPT ![e] = [pc |-> "snapshot", data |-> in]]
      /\ UNCHANGED <<row, recall, sem, lastKey, failed>>
      /\ ~overlapped' => ~overlapped /\ S!Quiet
  BY DEF S!Apply, S!Go, S!Incoming
<1>2. /\ put' = [d \in Worker |-> put'[d]] /\ put'[e] = [pc |-> "snapshot", data |-> in]
      /\ \A d \in Worker \ {e} : put'[d] = put[d]
  BY <1>1 DEF SettingsInv, SettingsTyped
<1>3. cfg' \in Live
  BY <1>1 DEF Live, S!Incoming, SettingsInv, SettingsTyped
<1>4. \A d \in Worker : TypedPut(d)'
  BY <1>2 DEF SettingsInv, SettingsTyped, TypedPut, At
<1>5. SettingsTyped'
  BY <1>1, <1>2, <1>3, <1>4 DEF SettingsInv, SettingsTyped
<1>6. ASSUME ~overlapped' PROVE OneByOne'
  <2>1. \A d \in Worker \ {e} : put'[d] = S!Idle /\ put'[d].pc = "idle"
    BY <1>1, <1>2, <1>6 DEF S!Quiet, S!Idle
  <2>2. \A d \in Worker : OfLive(d)'
    <3>1. OfLive(e)'
      BY <1>1, <1>2 DEF OfLive, At
    <3>2. QED BY <2>1, <3>1 DEF OfLive, At
  <2>3. At(e, {"snapshot"})' /\ At(e, {"snapshot", "save"})'
        /\ At(e, {"snapshot", "save", "read", "tell"})' /\ ~At(e, {"note"})'
    BY <1>2 DEF At
  <2>4. put'[e] # S!Idle
    BY <1>2 DEF S!Idle
  <2>5. \A d \in Worker : ~At(d, {"note"})
    BY <1>1, <1>6 DEF At, S!Quiet, S!Idle
  <2>6. sem' # None => cfg'.key # None /\ sem'.key = lastKey'
    BY <1>1, <1>6, <2>5 DEF SettingsInv, OneByOne
  <2>7. ~S!Quiet'
    BY <2>4 DEF S!Quiet
  <2>8. QED BY <2>1, <2>2, <2>3, <2>4, <2>6, <2>7 DEF OneByOne
<1>7. QED BY <1>5, <1>6 DEF SettingsInv

LEMMA SavingKeepsSettings ==
  ASSUME SettingsInv, NEW e \in Worker, S!Snapshot(e) \/ S!Save(e)
  PROVE  SettingsInv'
<1>0. cfg \in Live /\ row \in Live \cup {None} /\ sem \in Built \cup {None} /\ TypedPut(e)
      /\ put = [d \in Worker |-> put[d]]
  BY DEF SettingsInv, SettingsTyped
<1>1. CASE S!Snapshot(e)
  <2> DEFINE u == [pc |-> "save", data |-> [put[e].data EXCEPT !.key = cfg.key]]
  <2>1. /\ put[e].pc = "snapshot" /\ put' = [put EXCEPT ![e] = u] /\ put[e].data \in S!Incoming
        /\ UNCHANGED <<cfg, row, recall, sem, lastKey, overlapped, failed>>
    BY <1>0, <1>1 DEF S!Snapshot, S!Go, TypedPut, At
  <2>2. u.pc = "save" /\ u.data \in Live /\ u.data.on = put[e].data.on
        /\ u.data.lam = put[e].data.lam /\ u.data.size = put[e].data.size /\ u.data.key = cfg.key
    BY <1>0, <2>1 DEF S!Incoming, Live
  <2>3. put'[e] = u /\ put[e] # S!Idle /\ u # S!Idle
    BY <1>0, <2>1, <2>2 DEF S!Idle
  <2> HIDE DEF u
  <2>4. TypedPut(e)'
    BY <2>2, <2>3 DEF TypedPut, At
  <2>5. OneByOne => OfLive(e)' /\ ~At(e, {"note"}) /\ At(e, {"snapshot"})
    BY <2>1, <2>2, <2>3 DEF OneByOne, OfLive, At
  <2>6. At(e, {"snapshot", "save"})' /\ At(e, {"snapshot", "save", "read", "tell"})'
    BY <2>2, <2>3 DEF At
  <2>7. OneByOne /\ (\A d \in Worker \ {e} : put[d].pc = "idle") /\ sem # None =>
          cfg.key # None /\ sem.key = lastKey
    BY <2>1 DEF OneByOne, At
  <2>8. QED BY <1>0, <2>1, <2>3, <2>4, <2>5, <2>6, <2>7, MovingOn
<1>2. CASE S!Save(e)
  <2> DEFINE u == [pc |-> IF recall = None THEN "embedder" ELSE "read", data |-> None]
  <2>1. /\ put[e].pc = "save" /\ put' = [put EXCEPT ![e] = u] /\ put[e].data \in Live
        /\ UNCHANGED <<cfg, recall, sem, lastKey, overlapped>>
        /\ row' = put[e].data \/ (row' = row /\ "save" \in failed')
    BY <1>0, <1>2 DEF S!Save, S!Go, TypedPut, At
  <2>2. u.pc \in {"embedder", "read"} /\ (u.pc = "embedder" => recall = None)
    OBVIOUS
  <2>3. put'[e] = u /\ put[e] # S!Idle /\ u # S!Idle
    BY <1>0, <2>1, <2>2 DEF S!Idle
  <2> HIDE DEF u
  <2>4. TypedPut(e)' /\ OfLive(e)' /\ row' \in Live \cup {None}
    BY <1>0, <2>1, <2>2, <2>3 DEF TypedPut, OfLive, At
  <2>5. OneByOne => S!SavedIsLive'
    <3>1. CASE "save" \in failed'
      BY <3>1 DEF S!SavedIsLive
    <3>2. CASE row' = put[e].data
      <4>1. row' # None /\ row'.lam \in {0, 1, 2}
        BY <2>1, <3>2, NoneAssumption DEF Live
      <4>2. OneByOne => /\ row'.on = cfg.on /\ row'.lam = cfg.lam
                      /\ row'.key = cfg.key /\ row'.size = cfg.size
        BY <2>1, <3>2 DEF OneByOne, OfLive, At
      <4>3. QED BY <2>1, <4>1, <4>2 DEF S!SavedIsLive, S!Restored, S!Default
    <3>3. QED BY <2>1, <3>1, <3>2
  <2>6. ~At(e, {"snapshot", "save", "read", "tell"})' => MemoryTold'
    BY <2>1, <2>2, <2>3 DEF At, MemoryTold
  <2>7. OneByOne /\ (\A d \in Worker \ {e} : put[d].pc = "idle") /\ sem # None =>
          cfg.key # None /\ sem.key = lastKey
    BY <2>1 DEF OneByOne, At
  <2>8. QED BY <1>0, <2>1, <2>3, <2>4, <2>5, <2>6, <2>7, MovingOn
<1>3. QED BY <1>1, <1>2

LEMMA TellingKeepsSettings ==
  ASSUME SettingsInv, NEW e \in Worker, S!ReadLam(e) \/ S!TellMemory(e)
  PROVE  SettingsInv'
<1>0. cfg \in Live /\ row \in Live \cup {None} /\ sem \in Built \cup {None} /\ TypedPut(e)
      /\ put = [d \in Worker |-> put[d]]
  BY DEF SettingsInv, SettingsTyped
<1>1. PICK u : /\ put[e].pc \in {"read", "tell"} /\ put' = [put EXCEPT ![e] = u]
               /\ \/ put[e].pc = "read" /\ u = [pc |-> "tell", data |-> cfg.lam] /\ recall' = recall
                  \/ /\ put[e].pc = "tell" /\ u = [pc |-> "embedder", data |-> None]
                     /\ recall' = IF put[e].data > 0 THEN put[e].data ELSE recall
               /\ UNCHANGED <<cfg, row, sem, lastKey, overlapped, failed>>
  BY DEF S!ReadLam, S!TellMemory, S!Go
<1>2. put'[e] = u /\ put[e] # S!Idle /\ u.pc \in {"tell", "embedder"}
  BY <1>0, <1>1 DEF S!Idle
<1>3. u # S!Idle
  BY <1>2 DEF S!Idle
<1>4. TypedPut(e)' /\ OfLive(e)'
  BY <1>1, <1>2 DEF TypedPut, OfLive, At
<1>5. OneByOne /\ ~At(e, {"snapshot", "save", "read", "tell"})' => MemoryTold'
  BY <1>0, <1>1, <1>2 DEF OneByOne, OfLive, At, MemoryTold, Live
<1>6. OneByOne /\ (\A d \in Worker \ {e} : put[d].pc = "idle") =>
        /\ S!SavedIsLive'
        /\ sem # None => cfg.key # None /\ sem.key = lastKey
  BY <1>1 DEF OneByOne, At, S!SavedIsLive
<1>7. QED BY <1>0, <1>1, <1>2, <1>3, <1>4, <1>5, <1>6, MovingOn

\* The rebuild: publish what was built with the live key, then note the key.
LEMMA BuildingKeepsSettings ==
  ASSUME SettingsInv, NEW e \in Worker,
         S!Build(e) \/ S!Publish(e) \/ S!NoteKey(e) \/ S!Switch(e)
  PROVE  SettingsInv'
<1>0. cfg \in Live /\ row \in Live \cup {None} /\ sem \in Built \cup {None} /\ TypedPut(e)
      /\ put = [d \in Worker |-> put[d]]
  BY DEF SettingsInv, SettingsTyped
<1>1. UNCHANGED <<cfg, row, recall, overlapped>> /\ put[e].pc \in {"embedder", "publish", "note"}
      /\ ("save" \in failed' <=> "save" \in failed)
  BY DEF S!Build, S!Publish, S!NoteKey, S!Switch
<1>2. put[e] # S!Idle
  BY <1>1 DEF S!Idle
<1>3. ASSUME OneByOne, \A d \in Worker \ {e} : put[d].pc = "idle"
      PROVE  /\ S!SavedIsLive' /\ MemoryTold'
             /\ sem # None => cfg.key # None
             /\ put[e].pc # "note" /\ sem # None => sem.key = lastKey
             /\ OfLive(e)
  <2>1. S!SavedIsLive /\ MemoryTold
    BY <1>1, <1>3 DEF OneByOne, At
  <2>2. S!SavedIsLive'
    BY <1>1, <2>1 DEF S!SavedIsLive
  <2>3. MemoryTold'
    BY <1>1, <2>1 DEF MemoryTold
  <2>4. put[e].pc # "note" => \A d \in Worker : ~At(d, {"note"})
    BY <1>3 DEF At
  <2>5. QED BY <1>3, <2>2, <2>3, <2>4 DEF OneByOne
<1>4. CASE put' = [put EXCEPT ![e] = S!Idle] /\ put[e].pc = "embedder" /\ "build" \in failed'
           /\ UNCHANGED <<sem, lastKey>>
  <2>1. put'[e] = S!Idle /\ TypedPut(e)' /\ OfLive(e)'
    BY <1>0, <1>4 DEF TypedPut, OfLive, At, S!Idle
  <2>2. CacheBuilt'
    BY <1>4 DEF CacheBuilt
  <2>3. QED BY <1>0, <1>1, <1>2, <1>3, <1>4, <2>1, <2>2, MovingOn
<1>5. CASE put' = [put EXCEPT ![e] = [pc |-> "publish", data |-> [key |-> cfg.key, on |-> cfg.on]]]
           /\ put[e].pc = "embedder" /\ S!Rebuilds /\ UNCHANGED <<sem, lastKey, failed>>
  <2> DEFINE u == [pc |-> "publish", data |-> [key |-> cfg.key, on |-> cfg.on]]
  <2>1. put'[e] = u /\ u # S!Idle /\ cfg.key # None
    BY <1>0, <1>5 DEF S!Idle, S!Rebuilds
  <2>2. TypedPut(e)' /\ OfLive(e)'
    BY <1>0, <1>1, <2>1 DEF TypedPut, OfLive, At, Built, Live
  <2> HIDE DEF u
  <2>3. QED BY <1>0, <1>1, <1>2, <1>3, <1>5, <2>1, <2>2, MovingOn DEF u
<1>6. CASE S!Publish(e)
  <2> DEFINE u == [pc |-> "note", data |-> put[e].data.key]
  <2>1. /\ put[e].pc = "publish" /\ put' = [put EXCEPT ![e] = u] /\ sem' = put[e].data
        /\ lastKey' = lastKey /\ put[e].data \in Built
    BY <1>0, <1>6 DEF S!Publish, S!Go, TypedPut, At
  <2>2. put'[e] = u /\ u # S!Idle /\ u.pc = "note" /\ u.data = put[e].data.key
    BY <1>0, <2>1 DEF S!Idle
  <2> HIDE DEF u
  <2>3. TypedPut(e)' /\ At(e, {"note"})'
    BY <2>1, <2>2 DEF TypedPut, At
  <2>4. OfLive(e) => OfLive(e)' /\ cfg.key # None
    BY <1>1, <2>1, <2>2 DEF OfLive, At
  <2>5. QED BY <1>0, <1>1, <1>2, <1>3, <2>1, <2>2, <2>3, <2>4, MovingOn
<1>7. CASE S!NoteKey(e)
  <2>1. /\ put[e].pc = "note" /\ put' = [put EXCEPT ![e] = S!Idle]
        /\ lastKey' = put[e].data /\ UNCHANGED <<sem, failed>>
    BY <1>7 DEF S!NoteKey
  <2>2. put'[e] = S!Idle /\ TypedPut(e)' /\ OfLive(e)'
    BY <1>0, <2>1 DEF TypedPut, OfLive, At, S!Idle
  <2>3. OfLive(e) => /\ sem = [key |-> cfg.key, on |-> cfg.on] /\ sem.key = lastKey'
                     /\ sem \in Built
    BY <1>0, <2>1 DEF OfLive, At, Built, Live
  <2>4. OfLive(e) => CacheBuilt'
    BY <1>1, <2>1, <2>3, NoneAssumption DEF CacheBuilt, Built
  <2>5. QED BY <1>0, <1>1, <1>2, <1>3, <2>1, <2>2, <2>3, <2>4, MovingOn
<1>8. CASE S!Switch(e)
  <2>1. /\ put[e].pc = "embedder" /\ put' = [put EXCEPT ![e] = S!Idle] /\ ~S!Rebuilds
        /\ sem' = IF sem = None THEN None ELSE [sem EXCEPT !.on = cfg.on]
        /\ UNCHANGED <<lastKey, failed>>
    BY <1>8 DEF S!Switch
  <2>2. put'[e] = S!Idle /\ TypedPut(e)' /\ OfLive(e)'
    BY <1>0, <2>1 DEF TypedPut, OfLive, At, S!Idle
  <2>3. /\ sem = None => sem' = None
        /\ sem # None => sem' \in Built /\ sem' = [key |-> sem.key, on |-> cfg.on]
    BY <1>0, <2>1 DEF Built, Live
  <2>4. sem' # None <=> sem # None
    BY <2>3, NoneAssumption DEF Built
  <2>5. (sem # None => cfg.key # None /\ sem.key = lastKey) => CacheBuilt'
    BY <1>1, <2>1, <2>3, <2>4 DEF CacheBuilt, S!Rebuilds
  <2>6. QED BY <1>0, <1>1, <1>2, <1>3, <2>1, <2>2, <2>3, <2>4, <2>5, MovingOn
<1>9. CASE S!Build(e)
  BY <1>4, <1>5, <1>9 DEF S!Build, S!Built, S!Go
<1>10. QED BY <1>6, <1>7, <1>8, <1>9

LEMMA SettingsStep ==
  ASSUME SettingsInv, S!Next PROVE SettingsInv'
  BY ApplyKeepsSettings, SavingKeepsSettings, TellingKeepsSettings, BuildingKeepsSettings,
     RestartKeepsSettings, EnteredAssumption DEF S!Next, S!OnChange

LEMMA SettingsStill ==
  ASSUME SettingsInv, UNCHANGED settingVars PROVE SettingsInv'
  BY DEF SettingsInv, SettingsTyped, OneByOne, TypedPut, OfLive, At, MemoryTold, CacheBuilt,
         settingVars, S!SavedIsLive, S!Quiet

LEMMA SettingsShow == SettingsInv => S!SettingsStick
<1> SUFFICES ASSUME SettingsInv, S!Quiet, ~overlapped PROVE S!SavedIsLive /\ S!HandedOver
  BY DEF S!SettingsStick
<1>1. \A e \in Worker : put[e].pc = "idle"
  BY IdlePut DEF S!Quiet
<1>2. S!SavedIsLive /\ MemoryTold /\ CacheBuilt
  BY <1>1 DEF SettingsInv, OneByOne, At
<1>3. QED BY <1>2 DEF S!HandedOver, MemoryTold, CacheBuilt

-----------------------------------------------------------------------------
(* Pricing: the catalogue.  While nobody else writes, a refresh knows of   *)
(* every row whether it has dealt with it.                                 *)

PriceLabel == {"seed", "custom", "openrouter"}
Tables == [Prefix -> P!PriceRow \cup {None}]

\* A table whose rows have ids of their own, handed out up to n.
Sound(tab, n) ==
  /\ n \in Nat /\ tab \in Tables
  /\ \A p \in Prefix : tab[p] # None => tab[p].id \in 1..n
  /\ \A p, q \in Prefix : tab[p] # None /\ tab[q] # None /\ tab[p].id = tab[q].id => p = q

Unwritten(t, q) == q \in t.todo \/ (t.pc = "upsert" /\ q \notin t.cat)
Written(t, tab, q) ==
  \/ t.failed /\ tab[q] = t.listed[q]
  \/ q \in t.cat /\ tab[q] # None /\ tab[q].price = "openrouter"
  \/ q \notin t.cat /\ tab[q] = None

Tracks(t, tab) ==
  /\ t.cat \subseteq Prefix
  /\ t.pc = "upsert" => t.todo \subseteq t.cat
  /\ t.pc = "prune" => t.updated /\ t.todo \subseteq P!Listed(t.listed) \ t.cat
  /\ t.pc = "query" => t.todo = {}
  /\ ~t.updated => tab = t.listed
  /\ (t.updated \/ t.pc = "upsert") =>
       \A q \in Prefix : IF Unwritten(t, q) THEN tab[q] = t.listed[q] ELSE Written(t, tab, q)

CatTask(t, tab) ==
  /\ DOMAIN t = DOMAIN P!Idle
  /\ t.listed # None => t.pc \in {"upsert", "prune", "query"}
  /\ t.pc \in {"upsert", "prune"} => t.listed # None
  /\ t.listed # None /\ t.lone => Tracks(t, tab)

CatalogueInv ==
  /\ Sound(prices, lastPrice)
  /\ pricing = [w \in Worker |-> pricing[w]]
  /\ \A w \in Worker : CatTask(pricing[w], prices)

LEMMA IdleTask ==
  /\ DOMAIN P!Idle = {"pc", "todo", "cat", "listed", "got", "updated", "failed", "lone"}
  /\ P!Idle.pc = "idle" /\ P!Idle.listed = None /\ P!Idle.lone = TRUE /\ P!Idle.updated = FALSE /\ P!Idle.failed = FALSE
  BY DEF P!Idle

LEMMA RowIsNotNone == ASSUME NEW i \in Nat, NEW v \in PriceLabel PROVE [id |-> i, price |-> v] \in P!PriceRow \ {None}
  BY NoneAssumption DEF PriceLabel, P!PriceRow

LEMMA TableIsNotNone == \A tab \in Tables : tab # None
  BY NoneAssumption DEF Tables

LEMMA CatalogueStart == P!Init => CatalogueInv
<1> SUFFICES ASSUME P!Init PROVE CatalogueInv
  OBVIOUS
<1>1. lastPrice \in Nat
  <2>1. P!Cardinality(Seeds) = Cardinality(Seeds)
    BY DEF P!Cardinality, Cardinality
  <2>2. QED BY <2>1, SeedsAssumption, FS_CardinalityType DEF P!Init
<1>2. PICK n \in [Seeds -> 1..lastPrice] :
        /\ \A p, q \in Seeds : p # q => n[p] # n[q]
        /\ prices = [p \in Prefix |-> IF p \in Seeds THEN [id |-> n[p], price |-> "seed"] ELSE None]
  BY DEF P!Init
<1>3. ASSUME NEW p \in Prefix, prices[p] # None
      PROVE  p \in Seeds /\ prices[p].id = n[p] /\ n[p] \in 1..lastPrice
  BY <1>2, <1>3
<1>4. prices \in Tables
  <2>1. \A p \in Seeds : [id |-> n[p], price |-> "seed"] \in P!PriceRow
    BY <1>1, <1>2 DEF P!PriceRow
  <2>2. QED BY <1>2, <2>1 DEF Tables
<1>5. Sound(prices, lastPrice)
  BY <1>1, <1>2, <1>3, <1>4 DEF Sound
<1>6. pricing = [w \in Worker |-> pricing[w]] /\ \A w \in Worker : pricing[w] = P!Idle
  BY DEF P!Init
<1>7. CatTask(P!Idle, prices)
  BY IdleTask DEF CatTask
<1>8. QED BY <1>5, <1>6, <1>7 DEF CatalogueInv

\* The statements keep ids apart and touch one row.
LEMMA InsertIsSound ==
  ASSUME Sound(prices, lastPrice), NEW p \in Prefix, NEW v \in PriceLabel, P!Insert(p, v)
  PROVE  /\ Sound(prices', lastPrice') /\ prices[p] = None
         /\ prices'[p] # None /\ prices'[p].price = v /\ \A q \in Prefix \ {p} : prices'[q] = prices[q]
<1>1. PICK r : r = [id |-> lastPrice + 1, price |-> v]
  OBVIOUS
<1>2. lastPrice \in Nat /\ lastPrice' = lastPrice + 1 /\ prices[p] = None /\ prices' = [prices EXCEPT ![p] = r]
  BY <1>1 DEF P!Insert, Sound
<1>3. r \in P!PriceRow \ {None} /\ r.id = lastPrice + 1 /\ r.price = v
  BY <1>1, <1>2, RowIsNotNone
<1>4. prices' \in Tables /\ prices'[p] = r /\ \A q \in Prefix \ {p} : prices'[q] = prices[q]
  BY <1>2, <1>3 DEF Sound, Tables
<1>5. \A q \in Prefix : prices'[q] # None => prices'[q].id \in 1..lastPrice'
  BY <1>2, <1>3, <1>4 DEF Sound
<1>6. \A q, s \in Prefix : prices'[q] # None /\ prices'[s] # None /\ prices'[q].id = prices'[s].id => q = s
  <2>1. \A q \in Prefix \ {p} : prices'[q] # None => prices'[q].id # lastPrice + 1
    BY <1>2, <1>4 DEF Sound
  <2>2. QED BY <1>3, <1>4, <2>1 DEF Sound
<1>7. QED BY <1>2, <1>3, <1>4, <1>5, <1>6 DEF Sound

LEMMA UpdateIsSound ==
  ASSUME Sound(prices, lastPrice), NEW p \in Prefix, NEW v \in PriceLabel, NEW i,
         P!UpdateRow(i, p, v), lastPrice' = lastPrice
  PROVE  /\ Sound(prices', lastPrice')
         /\ prices[p] # None /\ prices[p].id = i =>
              /\ prices'[p] # None /\ prices'[p].price = v /\ \A q \in Prefix \ {p} : prices'[q] = prices[q]
<1>1. PICK r : r = [id |-> i, price |-> v]
  OBVIOUS
<1>2. P!HasId(i) => i \in 1..lastPrice /\ r \in P!PriceRow \ {None} /\ r.id = i /\ r.price = v
  <2>1. P!HasId(i) => i \in 1..lastPrice
    BY DEF P!HasId, Sound
  <2>2. lastPrice \in Nat
    BY DEF Sound
  <2>3. QED BY <1>1, <2>1, <2>2, RowIsNotNone
<1>3. prices' = [q \in Prefix |-> IF q = p /\ P!HasId(i) THEN r
                            ELSE IF prices[q] # None /\ prices[q].id = i THEN None ELSE prices[q]]
  BY <1>1 DEF P!UpdateRow
<1>4. prices' \in Tables
  <2>1. \A q \in Prefix : prices[q] \in P!PriceRow \cup {None}
    BY DEF Sound, Tables
  <2>2. QED BY <1>2, <1>3, <2>1 DEF Tables
<1>5. ASSUME NEW q \in Prefix
      PROVE  \/ q = p /\ P!HasId(i) /\ prices'[q] = r
             \/ prices'[q] = None
             \/ prices'[q] = prices[q] /\ prices[q].id # i
  BY <1>3
<1>6. \A q \in Prefix : prices'[q] # None => prices'[q].id \in 1..lastPrice
  BY <1>2, <1>5 DEF Sound
<1>7. \A q, s \in Prefix : prices'[q] # None /\ prices'[s] # None /\ prices'[q].id = prices'[s].id => q = s
  BY <1>2, <1>5 DEF Sound
<1>8. ASSUME prices[p] # None /\ prices[p].id = i
      PROVE  prices'[p] # None /\ prices'[p].price = v /\ \A q \in Prefix \ {p} : prices'[q] = prices[q]
  <2>1. P!HasId(i)
    BY <1>8 DEF P!HasId
  <2>2. \A q \in Prefix \ {p} : ~(prices[q] # None /\ prices[q].id = i)
    BY <1>8 DEF Sound
  <2>3. QED BY <1>2, <1>3, <2>1, <2>2
<1>9. lastPrice \in Nat
  BY DEF Sound
<1>10. Sound(prices', lastPrice')
  BY <1>4, <1>6, <1>7, <1>9 DEF Sound
<1>11. QED BY <1>8, <1>10

LEMMA DeleteIsSound ==
  ASSUME Sound(prices, lastPrice), NEW i, P!DeleteRow(i), lastPrice' = lastPrice
  PROVE  /\ Sound(prices', lastPrice')
         /\ \A p \in Prefix : prices[p] # None /\ prices[p].id = i =>
              prices'[p] = None /\ \A q \in Prefix \ {p} : prices'[q] = prices[q]
<1>1. prices' = [q \in Prefix |-> IF prices[q] # None /\ prices[q].id = i THEN None ELSE prices[q]]
  BY DEF P!DeleteRow
<1>2. prices' \in Tables
  BY <1>1 DEF Sound, Tables
<1>3. \A q \in Prefix : prices'[q] # None => prices'[q] = prices[q]
  BY <1>1
<1>4. Sound(prices', lastPrice')
  BY <1>2, <1>3 DEF Sound
<1>5. ASSUME NEW p \in Prefix, prices[p] # None, prices[p].id = i
      PROVE  prices'[p] = None /\ \A q \in Prefix \ {p} : prices'[q] = prices[q]
  BY <1>1, <1>5 DEF Sound
<1>6. QED BY <1>4, <1>5

\* A statement of one writer ends the claims of the others.
LEMMA WritingKeepsCatalogue ==
  ASSUME CatalogueInv, NEW w \in Worker, NEW t, P!Wrote(w, t),
         Sound(prices', lastPrice'), CatTask(t, prices')
  PROVE  CatalogueInv'
<1>1. pricing' = [v \in Worker |-> IF v = w THEN t ELSE P!Disturbed(pricing[v])]
  BY DEF P!Wrote
<1>2. ASSUME NEW x, CatTask(x, prices) PROVE CatTask(P!Disturbed(x), prices')
  <2>1. CASE x.listed = None
    BY <1>2, <2>1 DEF P!Disturbed, CatTask
  <2>2. CASE x.listed # None /\ x.pc = "query"
    <3>1. P!Disturbed(x) = P!ReloadNext
      BY <2>2 DEF P!Disturbed
    <3>2. DOMAIN P!ReloadNext = DOMAIN P!Idle /\ P!ReloadNext.listed = None /\ P!ReloadNext.pc = "query"
      BY DEF P!ReloadNext, P!Idle
    <3>3. QED BY <3>1, <3>2 DEF CatTask
  <2>3. CASE x.listed # None /\ x.pc # "query"
    <3>1. PICK y : y = [x EXCEPT !.lone = FALSE]
      OBVIOUS
    <3>2. P!Disturbed(x) = y
      BY <2>3, <3>1 DEF P!Disturbed
    <3>3. DOMAIN y = DOMAIN P!Idle /\ y.pc = x.pc /\ y.listed = x.listed /\ ~y.lone
      BY <1>2, <3>1, IdleTask DEF CatTask
    <3>4. QED BY <1>2, <2>3, <3>2, <3>3 DEF CatTask
  <2>4. QED BY <2>1, <2>2, <2>3
<1>3. \A v \in Worker : CatTask(pricing'[v], prices')
  BY <1>1, <1>2 DEF CatalogueInv
<1>4. pricing' = [v \in Worker |-> pricing'[v]]
  BY <1>1
<1>5. QED BY <1>3, <1>4 DEF CatalogueInv, CatTask, Tracks, Sound

LEMMA MovingKeepsCatalogue ==
  ASSUME CatalogueInv, NEW w \in Worker, NEW t, pricing' = [pricing EXCEPT ![w] = t],
         UNCHANGED <<prices, lastPrice>>, CatTask(t, prices)
  PROVE  CatalogueInv'
<1>1. /\ pricing' = [v \in Worker |-> pricing'[v]] /\ pricing'[w] = t
      /\ \A v \in Worker \ {w} : pricing'[v] = pricing[v]
  BY DEF CatalogueInv
<1>2. \A v \in Worker : CatTask(pricing'[v], prices')
  BY <1>1 DEF CatalogueInv
<1>3. Sound(prices', lastPrice')
  BY DEF CatalogueInv
<1>4. QED BY <1>1, <1>2, <1>3 DEF CatalogueInv, CatTask, Tracks, Sound

\* A writer who has listed nothing is no concern.
LEMMA NoRefresh ==
  ASSUME NEW t, NEW tab, DOMAIN t = DOMAIN P!Idle, t.listed = None, t.pc \notin {"upsert", "prune"}
  PROVE  CatTask(t, tab)
  BY DEF CatTask

\* Where a refresh goes next: with everything updated it turns to what is to go.
LEMMA AfterTracks ==
  ASSUME NEW t, NEW tab, CatTask(t, tab), t.listed # None, t.pc \in {"upsert", "prune"}
  PROVE  CatTask(P!After(t), tab)
<1>0. DOMAIN t = DOMAIN P!Idle /\ (t.lone => Tracks(t, tab))
  BY DEF CatTask
<1> DEFINE gone == IF t.pc = "upsert" THEN P!ToPrune(t) ELSE {}
<1>1. CASE t.todo # {}
  BY <1>1 DEF P!After
<1>2. CASE t.todo = {} /\ gone # {}
  <2>1. PICK x : x = [t EXCEPT !.todo = gone, !.pc = "prune"]
    OBVIOUS
  <2>2. P!After(t) = x
    BY <1>2, <2>1 DEF P!After
  <2>3. t.pc = "upsert" /\ t.updated /\ gone = P!Listed(t.listed) \ t.cat
    BY <1>2 DEF P!ToPrune
  <2>4. /\ DOMAIN x = DOMAIN P!Idle /\ x.pc = "prune" /\ x.todo = gone /\ x.cat = t.cat /\ x.listed = t.listed
        /\ x.updated = t.updated /\ x.failed = t.failed /\ x.lone = t.lone
    BY <1>0, <2>1, IdleTask
  <2> HIDE DEF gone
  <2>5. ASSUME x.lone, NEW q \in Prefix
        PROVE  IF Unwritten(x, q) THEN tab[q] = x.listed[q] ELSE Written(x, tab, q)
    <3>1. IF Unwritten(t, q) THEN tab[q] = t.listed[q] ELSE Written(t, tab, q)
      BY <1>0, <2>3, <2>4, <2>5 DEF Tracks
    <3>2. q \in gone => Unwritten(t, q)
      BY <2>3 DEF Unwritten
    <3>3. q \notin gone /\ q \notin t.cat => t.listed[q] = None /\ Unwritten(t, q)
      BY <2>3 DEF P!Listed, Unwritten
    <3>4. q \in t.cat => ~Unwritten(t, q)
      BY <1>2 DEF Unwritten
    <3>5. QED BY <2>4, <3>1, <3>2, <3>3, <3>4 DEF Unwritten, Written
  <2>6. x.lone => Tracks(x, tab)
    BY <1>0, <2>3, <2>4, <2>5 DEF Tracks
  <2>7. QED BY <2>2, <2>4, <2>6 DEF CatTask
<1>3. CASE t.todo = {} /\ gone = {} /\ t.lone
  <2>1. PICK x : x = [t EXCEPT !.pc = "query"]
    OBVIOUS
  <2>2. P!After(t) = x
    BY <1>3, <2>1 DEF P!After
  <2>3. /\ DOMAIN x = DOMAIN P!Idle /\ x.pc = "query" /\ x.todo = {} /\ x.cat = t.cat /\ x.listed = t.listed
        /\ x.updated = t.updated /\ x.failed = t.failed /\ x.lone = t.lone
    BY <1>0, <1>3, <2>1, IdleTask
  <2>4. t.updated /\ t.pc = "upsert" => P!Listed(t.listed) \ t.cat = {}
    BY <1>3 DEF P!ToPrune
  <2> HIDE DEF gone
  <2>5. ASSUME t.updated, NEW q \in Prefix PROVE Written(x, tab, q)
    <3>1. IF Unwritten(t, q) THEN tab[q] = t.listed[q] ELSE Written(t, tab, q)
      BY <1>0, <1>3, <2>5 DEF Tracks
    <3>2. CASE Unwritten(t, q)
      <4>1. t.pc = "upsert" /\ q \notin t.cat
        BY <1>3, <3>2 DEF Unwritten
      <4>2. t.listed[q] = None
        BY <2>4, <2>5, <4>1 DEF P!Listed
      <4>3. QED BY <2>3, <3>1, <3>2, <4>1, <4>2 DEF Written
    <3>3. CASE ~Unwritten(t, q)
      BY <2>3, <3>1, <3>3 DEF Written
    <3>4. QED BY <3>2, <3>3
  <2>6. ~t.updated => tab = t.listed
    BY <1>0, <1>3 DEF Tracks
  <2>7. \A q : ~Unwritten(x, q)
    BY <2>3 DEF Unwritten
  <2>8. Tracks(x, tab)
    <3>1. x.cat \subseteq Prefix
      BY <1>0, <1>3, <2>3 DEF Tracks
    <3>2. QED BY <2>3, <2>5, <2>6, <2>7, <3>1 DEF Tracks
  <2>9. QED BY <2>2, <2>3, <2>8 DEF CatTask
<1>4. CASE t.todo = {} /\ gone = {} /\ ~t.lone
  <2>1. P!After(t) = P!ReloadNext
    BY <1>4 DEF P!After
  <2>2. DOMAIN P!ReloadNext = DOMAIN P!Idle /\ P!ReloadNext.listed = None /\ P!ReloadNext.pc = "query"
    BY DEF P!ReloadNext, P!Idle
  <2>3. QED BY <2>1, <2>2, NoRefresh
<1>5. QED BY <1>1, <1>2, <1>3, <1>4

\* A statement that counts, and one that fails: both deal with one more prefix.
LEMMA DoneTracks ==
  ASSUME NEW t, NEW tab, NEW tab2, CatTask(t, tab), t.listed # None, t.pc \in {"upsert", "prune"},
         NEW p \in Prefix, p \in t.todo, NEW ok \in BOOLEAN,
         \A q \in Prefix \ {p} : tab2[q] = tab[q],
         ~ok => tab2 = tab,
         (ok /\ t.lone /\ t.pc = "upsert") => tab2[p] # None /\ tab2[p].price = "openrouter",
         (ok /\ t.lone /\ t.pc = "prune") => tab2[p] = None
  PROVE  /\ t.pc = "upsert" => CatTask(P!Tried(t, p, ok), tab2)
         /\ t.pc = "prune" => CatTask(P!Done(t, p, ok), tab2)
<1>0. DOMAIN t = DOMAIN P!Idle /\ (t.lone => Tracks(t, tab))
  BY DEF CatTask
<1>1. ASSUME NEW u, DOMAIN u = DOMAIN P!Idle, u.pc = t.pc, u.todo = t.todo, u.cat = t.cat,
             u.listed = t.listed, u.lone = t.lone, u.failed = t.failed,
             t.pc = "upsert" => (u.updated <=> t.updated \/ ok),
             t.pc = "prune" => u.updated = t.updated
      PROVE  CatTask(P!Done(u, p, ok), tab2)
  <2>1. PICK x : x = [u EXCEPT !.todo = @ \ {p}, !.failed = @ \/ ~ok]
    OBVIOUS
  <2>2. P!Done(u, p, ok) = P!After(x)
    BY <2>1 DEF P!Done
  <2>3. /\ DOMAIN x = DOMAIN P!Idle /\ x.pc = t.pc /\ x.todo = t.todo \ {p} /\ x.cat = t.cat /\ x.listed = t.listed
        /\ x.lone = t.lone /\ (x.failed <=> t.failed \/ ~ok) /\ x.updated = u.updated
    BY <1>1, <2>1, IdleTask
  <2>4. ASSUME x.lone, x.updated \/ x.pc = "upsert", NEW q \in Prefix
        PROVE  IF Unwritten(x, q) THEN tab2[q] = x.listed[q] ELSE Written(x, tab2, q)
    <3>0. Tracks(t, tab)
      BY <1>0, <2>3, <2>4
    <3>1. IF Unwritten(t, q) THEN tab[q] = t.listed[q] ELSE Written(t, tab, q)
      BY <3>0, <1>1, <2>3, <2>4 DEF Tracks
    <3>2. CASE q # p
      <4>1. (Unwritten(x, q) <=> Unwritten(t, q)) /\ tab2[q] = tab[q]
        BY <2>3, <3>2 DEF Unwritten
      <4>2. Written(t, tab, q) => Written(x, tab2, q)
        BY <2>3, <4>1 DEF Written
      <4>3. QED BY <2>3, <3>1, <4>1, <4>2
    <3>3. CASE q = p
      <4>1. Unwritten(t, q) /\ tab[q] = t.listed[q]
        BY <3>1, <3>3 DEF Unwritten
      <4>2. (t.pc = "upsert" => p \in t.cat) /\ (t.pc = "prune" => p \notin t.cat)
        BY <3>0 DEF Tracks
      <4>3. ~Unwritten(x, q)
        BY <2>3, <3>3, <4>2 DEF Unwritten
      <4>4. Written(x, tab2, q)
        BY <2>3, <2>4, <3>3, <4>1, <4>2 DEF Written
      <4>5. QED BY <4>3, <4>4
    <3>4. QED BY <3>2, <3>3
  <2>5. x.lone => Tracks(x, tab2)
    BY <1>0, <1>1, <2>3, <2>4 DEF Tracks
  <2>6. CatTask(x, tab2)
    BY <2>3, <2>5 DEF CatTask
  <2>7. QED BY <2>2, <2>3, <2>6, AfterTracks
<1>2. CASE t.pc = "upsert"
  <2>1. PICK u : u = [t EXCEPT !.updated = @ \/ ok]
    OBVIOUS
  <2>2. P!Tried(t, p, ok) = P!Done(u, p, ok)
    BY <2>1 DEF P!Tried
  <2>3. /\ DOMAIN u = DOMAIN P!Idle /\ u.pc = t.pc /\ u.todo = t.todo /\ u.cat = t.cat
        /\ u.listed = t.listed /\ u.lone = t.lone /\ u.failed = t.failed /\ (u.updated <=> t.updated \/ ok)
    BY <1>0, <2>1, IdleTask
  <2>4. QED BY <1>1, <1>2, <2>2, <2>3
<1>3. CASE t.pc = "prune"
  BY <1>0, <1>1, <1>3
<1>4. QED BY <1>2, <1>3

\* A refresh that was not alone claims nothing of the table.
LEMMA StrayTask ==
  ASSUME NEW t, NEW tab, NEW tab2, CatTask(t, tab), t.listed # None, ~t.lone, NEW p, NEW ok \in BOOLEAN
  PROVE  /\ t.pc = "upsert" => CatTask(P!Tried(t, p, ok), tab2)
         /\ t.pc = "prune" => CatTask(P!Done(t, p, ok), tab2)
<1>1. ASSUME NEW u, DOMAIN u = DOMAIN P!Idle, u.pc = t.pc, u.listed = t.listed, ~u.lone,
             t.pc \in {"upsert", "prune"}
      PROVE  CatTask(P!Done(u, p, ok), tab2)
  <2>1. PICK x : x = [u EXCEPT !.todo = @ \ {p}, !.failed = @ \/ ~ok]
    OBVIOUS
  <2>2. P!Done(u, p, ok) = P!After(x)
    BY <2>1 DEF P!Done
  <2>3. DOMAIN x = DOMAIN P!Idle /\ x.pc = t.pc /\ x.listed = t.listed /\ ~x.lone
    BY <1>1, <2>1, IdleTask
  <2>4. CatTask(x, tab2)
    BY <1>1, <2>3 DEF CatTask
  <2>5. QED BY <1>1, <2>2, <2>3, <2>4, AfterTracks
<1>2. DOMAIN t = DOMAIN P!Idle
  BY DEF CatTask
<1>3. CASE t.pc = "upsert"
  <2>1. PICK u : u = [t EXCEPT !.updated = @ \/ ok]
    OBVIOUS
  <2>2. P!Tried(t, p, ok) = P!Done(u, p, ok)
    BY <2>1 DEF P!Tried
  <2>3. DOMAIN u = DOMAIN P!Idle /\ u.pc = t.pc /\ u.listed = t.listed /\ ~u.lone
    BY <1>2, <2>1, IdleTask
  <2>4. QED BY <1>1, <1>3, <2>2, <2>3
<1>4. CASE t.pc = "prune"
  BY <1>1, <1>2, <1>4
<1>5. QED BY <1>3, <1>4

LEMMA EditKeepsCatalogue ==
  ASSUME CatalogueInv, NEW w \in Worker, P!Edit(w)
  PROVE  CatalogueInv'
<1>1. CatTask(P!ReloadNext, prices')
  BY NoRefresh DEF P!ReloadNext, P!Idle
<1>2. Sound(prices, lastPrice)
  BY DEF CatalogueInv
<1>3. Sound(prices', lastPrice') /\ P!Wrote(w, P!ReloadNext)
  <2>1. ASSUME NEW p \in Prefix, P!Create(w, p) PROVE Sound(prices', lastPrice') /\ P!Wrote(w, P!ReloadNext)
    BY <1>2, <2>1, InsertIsSound DEF P!Create, PriceLabel
  <2>2. ASSUME NEW i, P!Delete(w, i) PROVE Sound(prices', lastPrice') /\ P!Wrote(w, P!ReloadNext)
    BY <1>2, <2>2, DeleteIsSound DEF P!Delete
  <2>3. ASSUME NEW i, NEW p \in Prefix, P!Update(w, i, p)
        PROVE  Sound(prices', lastPrice') /\ P!Wrote(w, P!ReloadNext)
    BY <1>2, <2>3, UpdateIsSound DEF P!Update, PriceLabel
  <2>4. QED BY <2>1, <2>2, <2>3 DEF P!Edit
<1>4. QED BY <1>1, <1>3, WritingKeepsCatalogue

LEMMA ResetKeepsCatalogue ==
  ASSUME CatalogueInv, NEW w \in Worker, P!Reset(w)
  PROVE  CatalogueInv'
<1>1. Sound(prices, lastPrice) /\ CatTask(pricing[w], prices) /\ pricing = [v \in Worker |-> pricing[v]]
  BY DEF CatalogueInv
<1>2. CASE P!DeleteAll(w)
  <2>1. PICK t : t = [P!Idle EXCEPT !.pc = "count"]
    OBVIOUS
  <2>2. DOMAIN t = DOMAIN P!Idle /\ t.listed = None /\ t.pc = "count"
    BY <2>1, IdleTask
  <2>3. P!Wrote(w, t) /\ prices' = [p \in Prefix |-> None] /\ lastPrice' = lastPrice
    BY <1>2, <2>1 DEF P!DeleteAll
  <2>4. Sound(prices', lastPrice')
    BY <1>1, <2>3 DEF Sound, Tables
  <2>5. CatTask(t, prices')
    BY <2>2, NoRefresh
  <2>6. QED BY <2>3, <2>4, <2>5, WritingKeepsCatalogue
<1>3. CASE P!Count(w)
  <2>1. pricing[w].pc = "count" /\ UNCHANGED <<prices, lastPrice>>
    BY <1>3 DEF P!Count
  <2>2. DOMAIN pricing[w] = DOMAIN P!Idle /\ pricing[w].listed = None
    BY <1>1, <2>1 DEF CatTask
  <2>3. PICK t : t = [pricing[w] EXCEPT !.pc = "seed", !.todo = Seeds]
    OBVIOUS
  <2>4. CatTask(t, prices)
    <3>1. DOMAIN t = DOMAIN P!Idle /\ t.listed = None /\ t.pc = "seed"
      BY <2>2, <2>3, IdleTask
    <3>2. QED BY <3>1, NoRefresh
  <2>5. CatTask(P!Idle, prices)
    BY IdleTask, NoRefresh
  <2>6. pricing' = [pricing EXCEPT ![w] = t] \/ pricing' = [pricing EXCEPT ![w] = P!Idle]
    BY <1>1, <1>3, <2>3 DEF P!Count
  <2>7. QED BY <2>1, <2>4, <2>5, <2>6, MovingKeepsCatalogue
<1>4. ASSUME NEW p \in Prefix, P!Seed(w, p) PROVE CatalogueInv'
  <2>1. PICK t : t = [pricing[w] EXCEPT !.todo = @ \ {p},
                                 !.pc = IF pricing[w].todo = {p} THEN "query" ELSE "seed"]
    OBVIOUS
  <2>2. DOMAIN t = DOMAIN P!Idle /\ t.listed = None /\ t.pc \in {"seed", "query"}
    <3>1. DOMAIN pricing[w] = DOMAIN P!Idle /\ pricing[w].listed = None
      BY <1>1, <1>4 DEF CatTask, P!Seed
    <3>2. QED BY <2>1, <3>1, IdleTask
  <2>3. CatTask(t, prices) /\ CatTask(t, prices')
    BY <2>2, NoRefresh
  <2>4. \/ P!Insert(p, "seed") /\ P!Wrote(w, t)
        \/ pricing' = [pricing EXCEPT ![w] = t] /\ UNCHANGED <<prices, lastPrice>>
    BY <1>4, <2>1 DEF P!Seed
  <2>5. P!Insert(p, "seed") => Sound(prices', lastPrice')
    BY <1>1, InsertIsSound DEF PriceLabel
  <2>6. QED BY <2>3, <2>4, <2>5, WritingKeepsCatalogue, MovingKeepsCatalogue
<1>5. QED BY <1>2, <1>3, <1>4 DEF P!Reset

\* A row that is still to be updated or pruned is there as it was listed, if
\* nobody else has written.
LEMMA RefreshKeepsCatalogue ==
  ASSUME CatalogueInv, NEW w \in Worker, P!Refresh(w)
  PROVE  CatalogueInv'
<1>0. Sound(prices, lastPrice) /\ CatTask(pricing[w], prices)
  BY DEF CatalogueInv
<1>1. ASSUME NEW cat \in SUBSET Prefix, P!List(w, cat) PROVE CatalogueInv'
  <2>1. PICK x : x = [P!Idle EXCEPT !.pc = "upsert", !.todo = cat, !.cat = cat, !.listed = prices]
    OBVIOUS
  <2>2. /\ DOMAIN x = DOMAIN P!Idle /\ x.pc = "upsert" /\ x.todo = cat /\ x.cat = cat /\ x.listed = prices
        /\ x.updated = FALSE
    BY <2>1, IdleTask
  <2>3. prices # None /\ CatTask(x, prices)
    BY <1>0, <2>2, TableIsNotNone DEF CatTask, Tracks, Unwritten, Sound
  <2>4. pricing' = [pricing EXCEPT ![w] = P!After(x)] /\ UNCHANGED <<prices, lastPrice>>
    BY <1>1, <2>1 DEF P!List
  <2>5. CatTask(P!After(x), prices)
    BY <2>2, <2>3, AfterTracks
  <2>6. QED BY <2>4, <2>5, MovingKeepsCatalogue
<1>2. ASSUME NEW p \in Prefix, P!Upsert(w, p) PROVE CatalogueInv'
  <2>1. PICK t : t = pricing[w]
    OBVIOUS
  <2>2. t.pc = "upsert" /\ p \in t.todo /\ CatTask(t, prices) /\ t.listed # None
    BY <1>0, <1>2, <2>1 DEF P!Upsert, CatTask
  <2>3. PICK good, bad : good = P!Tried(t, p, TRUE) /\ bad = P!Tried(t, p, FALSE)
    OBVIOUS
  <2>4. CASE pricing' = [pricing EXCEPT ![w] = bad] /\ UNCHANGED <<prices, lastPrice>>
    <3>1. CatTask(bad, prices)
      BY <2>2, <2>3, DoneTracks
    <3>2. QED BY <2>4, <3>1, MovingKeepsCatalogue
  <2>5. CASE /\ IF t.listed[p] # None
                 THEN P!UpdateRow(t.listed[p].id, p, "openrouter") /\ UNCHANGED lastPrice
                 ELSE P!Insert(p, "openrouter")
             /\ P!Wrote(w, good)
    <3>1. t.lone => prices[p] = t.listed[p]
      BY <2>2 DEF CatTask, Tracks, Unwritten
    <3>2. /\ Sound(prices', lastPrice')
          /\ t.lone => /\ prices'[p] # None /\ prices'[p].price = "openrouter"
                       /\ \A q \in Prefix \ {p} : prices'[q] = prices[q]
      BY <1>0, <2>5, <3>1, UpdateIsSound, InsertIsSound DEF PriceLabel
    <3>3. CatTask(good, prices')
      <4>1. CASE t.lone
        BY <2>2, <2>3, <3>2, <4>1, DoneTracks
      <4>2. CASE ~t.lone
        BY <2>2, <2>3, <4>2, StrayTask
      <4>3. QED BY <4>1, <4>2
    <3>4. QED BY <2>5, <3>2, <3>3, WritingKeepsCatalogue
  <2>6. QED BY <1>2, <2>1, <2>3, <2>4, <2>5 DEF P!Upsert
<1>3. ASSUME NEW p \in Prefix, P!Prune(w, p) PROVE CatalogueInv'
  <2>1. PICK t : t = pricing[w]
    OBVIOUS
  <2>2. t.pc = "prune" /\ p \in t.todo /\ CatTask(t, prices) /\ t.listed # None /\ lastPrice' = lastPrice
    BY <1>0, <1>3, <2>1 DEF P!Prune, CatTask
  <2>3. PICK good, bad : good = P!Done(t, p, TRUE) /\ bad = P!Done(t, p, FALSE)
    OBVIOUS
  <2>4. CASE pricing' = [pricing EXCEPT ![w] = bad] /\ prices' = prices
    <3>1. CatTask(bad, prices)
      BY <2>2, <2>3, DoneTracks
    <3>2. QED BY <2>2, <2>4, <3>1, MovingKeepsCatalogue
  <2>5. CASE P!DeleteRow(t.listed[p].id) /\ P!Wrote(w, good)
    <3>1. t.lone => prices[p] = t.listed[p] /\ t.listed[p] # None
      BY <2>2 DEF CatTask, Tracks, Unwritten, P!Listed
    <3>2. /\ Sound(prices', lastPrice')
          /\ t.lone => prices'[p] = None /\ \A q \in Prefix \ {p} : prices'[q] = prices[q]
      BY <1>0, <2>2, <2>5, <3>1, DeleteIsSound
    <3>3. CatTask(good, prices')
      <4>1. CASE t.lone
        BY <2>2, <2>3, <3>2, <4>1, DoneTracks
      <4>2. CASE ~t.lone
        BY <2>2, <2>3, <4>2, StrayTask
      <4>3. QED BY <4>1, <4>2
    <3>4. QED BY <2>5, <3>2, <3>3, WritingKeepsCatalogue
  <2>6. QED BY <1>3, <2>1, <2>3, <2>4, <2>5 DEF P!Prune
<1>4. QED BY <1>1, <1>2, <1>3 DEF P!Refresh

LEMMA ReloadKeepsCatalogue ==
  ASSUME CatalogueInv, NEW w \in Worker, P!Reload(w)
  PROVE  CatalogueInv'
<1>1. PICK t : t = [P!Idle EXCEPT !.pc = "install", !.got = P!Prices(prices)]
  OBVIOUS
<1>2. DOMAIN t = DOMAIN P!Idle /\ t.listed = None /\ t.pc = "install"
  BY <1>1, IdleTask
<1>3. CatTask(t, prices) /\ CatTask(P!Idle, prices)
  BY <1>2, IdleTask, NoRefresh
<1>4. (pricing' = [pricing EXCEPT ![w] = t] \/ pricing' = [pricing EXCEPT ![w] = P!Idle])
      /\ UNCHANGED <<prices, lastPrice>>
  BY <1>1 DEF P!Reload, P!Query, P!QueryFails, P!Install
<1>5. QED BY <1>3, <1>4, MovingKeepsCatalogue

LEMMA CatalogueStep == ASSUME CatalogueInv, P!Next PROVE CatalogueInv'
  BY EditKeepsCatalogue, ResetKeepsCatalogue, RefreshKeepsCatalogue, ReloadKeepsCatalogue DEF P!Next

LEMMA CatalogueStill == ASSUME CatalogueInv, UNCHANGED priceVars PROVE CatalogueInv'
<1>1. UNCHANGED <<prices, lastPrice, pricing>>
  BY DEF priceVars
<1>2. Sound(prices', lastPrice') /\ \A w \in Worker : CatTask(pricing'[w], prices')
  BY <1>1 DEF CatalogueInv
<1>3. QED BY <1>1, <1>2 DEF CatalogueInv, CatTask, Tracks, Sound

LEMMA CatalogueShow == CatalogueInv => P!CatalogueIsAuthoritative
<1> SUFFICES ASSUME CatalogueInv, NEW w \in Worker, NEW t, t = pricing[w],
                    t.pc = "query", t.listed # None, t.lone
             PROVE  IF ~t.updated THEN prices = t.listed
                    ELSE /\ ~t.failed => P!Prices(prices) = [p \in Prefix |-> IF p \in t.cat THEN "openrouter" ELSE None]
                         /\ \A p \in t.cat : t.listed[p] # None => prices[p] # None
  BY DEF P!CatalogueIsAuthoritative
<1>1. Tracks(t, prices)
  BY DEF CatalogueInv, CatTask
<1>2. t.updated => \A p \in Prefix : Written(t, prices, p)
  BY <1>1 DEF Tracks, Unwritten
<1>3. ASSUME t.updated, ~t.failed
      PROVE  P!Prices(prices) = [p \in Prefix |-> IF p \in t.cat THEN "openrouter" ELSE None]
  <2>1. ASSUME NEW p \in Prefix
        PROVE  (IF prices[p] = None THEN None ELSE prices[p].price) = (IF p \in t.cat THEN "openrouter" ELSE None)
    <3>1. Written(t, prices, p)
      BY <1>2, <1>3
    <3>2. CASE p \in t.cat
      BY <1>3, <3>1, <3>2 DEF Written
    <3>3. CASE p \notin t.cat
      BY <1>3, <3>1, <3>3 DEF Written
    <3>4. QED BY <3>2, <3>3
  <2>2. P!Prices(prices) = [p \in Prefix |-> IF prices[p] = None THEN None ELSE prices[p].price]
    BY DEF P!Prices
  <2>3. QED BY <2>1, <2>2
<1>4. ASSUME t.updated, NEW p \in t.cat, t.listed[p] # None PROVE prices[p] # None
  BY <1>1, <1>2, <1>4 DEF Written, Tracks
<1>5. QED BY <1>1, <1>3, <1>4 DEF Tracks

-----------------------------------------------------------------------------
(* The store a behaviour is about takes a step of its own; another store   *)
(* stands still.                                                           *)

adminVars == <<part, keyVars, routeVars, priceVars, settingVars, vectorVars>>

LEMMA KeysHold == Spec => []KeysInv
<1>1. Init => KeysInv
  BY KeysStart DEF Init
<1>2. KeysInv /\ [Next]_adminVars => KeysInv'
  <2> SUFFICES ASSUME KeysInv, [Next]_adminVars PROVE KeysInv'
    OBVIOUS
  <2>1. CASE K!Next
    BY <2>1, KeysStep
  <2>2. CASE UNCHANGED keyVars
    BY <2>2, KeysStill
  <2>3. QED BY <2>1, <2>2 DEF Next, adminVars
<1>3. QED BY <1>1, <1>2, PTL DEF Spec, adminVars

LEMMA RoutesHold == Spec => []RoutesInv
<1>1. Init => RoutesInv
  BY RoutesStart DEF Init
<1>2. RoutesInv /\ [Next]_adminVars => RoutesInv'
  <2> SUFFICES ASSUME RoutesInv, [Next]_adminVars PROVE RoutesInv'
    OBVIOUS
  <2>1. CASE R!Next
    BY <2>1, RoutesStep
  <2>2. CASE UNCHANGED routeVars
    BY <2>2, RoutesStill
  <2>3. QED BY <2>1, <2>2 DEF Next, adminVars
<1>3. QED BY <1>1, <1>2, PTL DEF Spec, adminVars

LEMMA PricesHold == Spec => []PricesInv
<1>1. Init => PricesInv
  BY PricesStart DEF Init
<1>2. PricesInv /\ [Next]_adminVars => PricesInv'
  <2> SUFFICES ASSUME PricesInv, [Next]_adminVars PROVE PricesInv'
    OBVIOUS
  <2>1. CASE P!Next
    BY <2>1, PricesStep
  <2>2. CASE UNCHANGED priceVars
    BY <2>2, PricesStill
  <2>3. QED BY <2>1, <2>2 DEF Next, adminVars
<1>3. QED BY <1>1, <1>2, PTL DEF Spec, adminVars

LEMMA CatalogueHolds == Spec => []CatalogueInv
<1>1. Init => CatalogueInv
  BY CatalogueStart DEF Init
<1>2. CatalogueInv /\ [Next]_adminVars => CatalogueInv'
  <2> SUFFICES ASSUME CatalogueInv, [Next]_adminVars PROVE CatalogueInv'
    OBVIOUS
  <2>1. CASE P!Next
    BY <2>1, CatalogueStep
  <2>2. CASE UNCHANGED priceVars
    BY <2>2, CatalogueStill
  <2>3. QED BY <2>1, <2>2 DEF Next, adminVars
<1>3. QED BY <1>1, <1>2, PTL DEF Spec, adminVars

LEMMA SettingsHold == Spec => []SettingsInv
<1>1. Init => SettingsInv
  BY SettingsStart DEF Init
<1>2. SettingsInv /\ [Next]_adminVars => SettingsInv'
  <2> SUFFICES ASSUME SettingsInv, [Next]_adminVars PROVE SettingsInv'
    OBVIOUS
  <2>1. CASE S!Next
    BY <2>1, SettingsStep
  <2>2. CASE UNCHANGED settingVars
    BY <2>2, SettingsStill
  <2>3. QED BY <2>1, <2>2 DEF Next, adminVars
<1>3. QED BY <1>1, <1>2, PTL DEF Spec, adminVars

LEMMA VectorsHold == Spec => []VectorsInv
<1>1. Init => VectorsInv
  BY VectorsStart DEF Init
<1>2. VectorsInv /\ [Next]_adminVars => VectorsInv'
  <2> SUFFICES ASSUME VectorsInv, [Next]_adminVars PROVE VectorsInv'
    OBVIOUS
  <2>1. CASE V!Next
    BY <2>1, VectorsStep
  <2>2. CASE UNCHANGED vectorVars
    BY <2>2, VectorsStill
  <2>3. QED BY <2>1, <2>2 DEF Next, adminVars
<1>3. QED BY <1>1, <1>2, PTL DEF Spec, adminVars

(* Whatever the callers and the handlers of the key API do, and however    *)
(* long the cache's TTL, a key that is not valid is admitted only while    *)
(* its revocation has yet to clear the cache, after a validation that was  *)
(* remembered too late, or within the TTL of its expiry (auth.go).         *)
THEOREM KeysStayOut == Spec => []RevokedStaysOut
<1>1. KeysInv => RevokedStaysOut
  BY KeysShow DEF RevokedStaysOut
<1>2. QED BY KeysHold, <1>1, PTL

(* For any number of handlers and providers: once every reload is over,    *)
(* requests are routed by the table as it is, unless two reloads crossed   *)
(* or one failed (ReloadCache, providers/store.go).                        *)
THEOREM RoutesAreTheTable == Spec => []RoutesFollowTable
<1>1. RoutesInv => RoutesFollowTable
  BY RoutesShow DEF RoutesFollowTable
<1>2. QED BY RoutesHold, <1>1, PTL

(* For any number of writers, prefixes and rows, whatever catalogues are   *)
(* fetched: once every edit, reset and refresh is over, requests are priced *)
(* by the table as it is, unless two reloads crossed or one failed; also   *)
(* when a reset found a row and gave up (pricing_store.go).                *)
THEOREM PricesAreTheTable == Spec => []PricesFollowTable
<1>1. PricesInv => PricesFollowTable
  BY PricesShow DEF PricesFollowTable
<1>2. QED BY PricesHold, <1>1, PTL

(* For any number of writers and prefixes, any seed and any catalogues: a  *)
(* refresh that no other statement came between ends with exactly the      *)
(* table it found, or with the catalogue's rows and no others, and a       *)
(* prefix the catalogue holds never loses the price it had, even where a   *)
(* statement of the refresh failed (RefreshFromOpenRouter).                *)
THEOREM CatalogueRules == Spec => []CatalogueIsAuthoritative
<1>1. CatalogueInv => CatalogueIsAuthoritative
  BY CatalogueShow DEF CatalogueIsAuthoritative
<1>2. QED BY CatalogueHolds, <1>1, PTL

(* For any number of workers and keys, through crashes and restarts: once  *)
(* every PUT is answered, and none overlapped another, the live settings   *)
(* are what a restart would restore and what the components work with, but *)
(* for saves and constructions that failed (config.go, main.go).           *)
THEOREM SettingsAreKept == Spec => []SettingsStick
<1>1. SettingsInv => SettingsStick
  BY SettingsShow DEF SettingsStick
<1>2. QED BY SettingsHold, <1>1, PTL

(* For any number of hashes and of detached writers: a hash at rest has    *)
(* the row it should have, its last vector or none, unless two of its      *)
(* statements were under way at once, one failed, or it crossed a flush or *)
(* a rebuild (vectorstore.go).                                             *)
THEOREM VectorsFollow == Spec => []TableFollows
<1>1. VectorsInv => TableFollows
  BY VectorsShow DEF TableFollows
<1>2. QED BY VectorsHold, <1>1, PTL
=============================================================================
