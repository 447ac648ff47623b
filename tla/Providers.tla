------------------------------ MODULE Providers ------------------------------
(***************************************************************************)
(* Custom providers: the table, the cache of enabled ones that routes       *)
(* requests by the prefix of their model (providers/store.go), and the     *)
(* handlers that edit the table and reload the cache (providers/api.go).    *)
(* What a provider's configuration says is one value.                      *)
(***************************************************************************)
EXTENDS Integers

CONSTANTS
  Name,       \* provider names
  Setup,      \* configurations that pass Validate
  Worker,     \* goroutines of the management API
  MaxProvider, \* bound: rows ever inserted
  None

VARIABLES
  providers,     \* custom_providers: id -> row
  lastProvider,  \* AUTOINCREMENT
  routes,        \* ProviderStore.cache: name -> id and configuration
  editing,       \* what each handler is doing
  routesCrossed  \* ghost: reloads have crossed or failed since the last clean one

vars == <<providers, lastProvider, routes, editing, routesCrossed>>

Id == 1..MaxProvider
Idle == [pc |-> "idle", id |-> 0, setup |-> None, on |-> FALSE, got |-> None]
Row(n, s, on) == [name |-> n, setup |-> s, on |-> on]

(* What the query of ReloadCache selects, keyed by name *)
Enabled(t) ==
  [n \in Name |->
     IF \E i \in Id : t[i] # None /\ t[i].name = n /\ t[i].on
       THEN LET i == CHOOSE i \in Id : t[i] # None /\ t[i].name = n /\ t[i].on
            IN [id |-> i, setup |-> t[i].setup]
       ELSE None]

(* A first start: SeedOpenRouter has created one enabled provider *)
OpenRouter == CHOOSE n \in Name : TRUE
ItsSetup == CHOOSE s \in Setup : TRUE

Init ==
  /\ providers = [i \in Id |-> IF i = 1 THEN Row(OpenRouter, ItsSetup, TRUE) ELSE None]
  /\ lastProvider = 1
  /\ routes = Enabled(providers)
  /\ editing = [e \in Worker |-> Idle]
  /\ routesCrossed = FALSE

Free(e) == editing[e] = Idle
Go(e, pc) == editing' = [editing EXCEPT ![e] = [Idle EXCEPT !.pc = pc]]

(* the UNIQUE constraint on the name answers 409, before any reload *)
Create(e, n, s, on) ==
  /\ Free(e) /\ lastProvider < MaxProvider
  /\ \A i \in Id : providers[i] # None => providers[i].name # n
  /\ lastProvider' = lastProvider + 1
  /\ providers' = [providers EXCEPT ![lastProvider + 1] = Row(n, s, on)]
  /\ Go(e, "query")
  /\ UNCHANGED <<routes, routesCrossed>>

(* HandleUpdate reads the row first (404 when it is gone), and keeps its name *)
UpdateCheck(e, i, s, on) ==
  /\ Free(e) /\ providers[i] # None
  /\ editing' = [editing EXCEPT ![e] = [Idle EXCEPT !.pc = "update", !.id = i, !.setup = s, !.on = on]]
  /\ UNCHANGED <<providers, lastProvider, routes, routesCrossed>>

Update(e) ==
  /\ editing[e].pc = "update"
  /\ LET t == editing[e] IN
     providers' = [providers EXCEPT ![t.id] = IF @ = None THEN None ELSE Row(@.name, t.setup, t.on)]
  /\ Go(e, "query")
  /\ UNCHANGED <<lastProvider, routes, routesCrossed>>

Delete(e, i) ==
  /\ Free(e) /\ i <= lastProvider
  /\ providers' = [providers EXCEPT ![i] = None]
  /\ Go(e, "query")
  /\ UNCHANGED <<lastProvider, routes, routesCrossed>>

Toggle(e, i, on) ==
  /\ Free(e) /\ i <= lastProvider
  /\ providers' = [providers EXCEPT ![i] = IF @ = None THEN None ELSE [@ EXCEPT !.on = on]]
  /\ Go(e, "query")
  /\ UNCHANGED <<lastProvider, routes, routesCrossed>>

(* ReloadCache: the query, then the swap under the write lock.  When the   *)
(* query fails the handler has nothing to report, and answers ok.          *)
Holding(e) == editing[e].pc = "install"

Query(e) ==
  /\ editing[e].pc = "query"
  /\ editing' = [editing EXCEPT ![e] = [Idle EXCEPT !.pc = "install", !.got = Enabled(providers)]]
  /\ routesCrossed' = (routesCrossed \/ \E d \in Worker : Holding(d))
  /\ UNCHANGED <<providers, lastProvider, routes>>

(* An error ends the iteration early, and rows.Err() is not looked at *)
Partly(t, read) == [n \in Name |-> IF n \in read THEN t[n] ELSE None]
QueryBreaks(e) ==
  /\ editing[e].pc = "query"
  /\ \E read \in SUBSET Name :
       editing' = [editing EXCEPT ![e] =
         [Idle EXCEPT !.pc = "install", !.got = Partly(Enabled(providers), read)]]
  /\ routesCrossed' = TRUE
  /\ UNCHANGED <<providers, lastProvider, routes>>

QueryFails(e) ==
  /\ editing[e].pc = "query"
  /\ editing' = [editing EXCEPT ![e] = Idle]
  /\ routesCrossed' = TRUE
  /\ UNCHANGED <<providers, lastProvider, routes>>

Install(e) ==
  /\ Holding(e)
  /\ routes' = editing[e].got
  /\ editing' = [editing EXCEPT ![e] = Idle]
  /\ routesCrossed' = (routesCrossed /\ (editing[e].got # Enabled(providers) \/ \E d \in Worker \ {e} : Holding(d)))
  /\ UNCHANGED <<providers, lastProvider>>

\* mutant: Toggle answers without a reload
Edit_Toggled(e) ==
  \/ \E n \in Name, s \in Setup, on \in BOOLEAN : Create(e, n, s, on)
  \/ \E i \in Id, s \in Setup, on \in BOOLEAN : UpdateCheck(e, i, s, on)
  \/ Update(e)
  \/ \E i \in Id : Delete(e, i)
  \/ \E i \in Id, on \in BOOLEAN :
       /\ Free(e) /\ providers[i] # None
       /\ providers' = [providers EXCEPT ![i].on = on]
       /\ UNCHANGED <<lastProvider, routes, editing, routesCrossed>>
Edit(e) ==
  \/ \E n \in Name, s \in Setup, on \in BOOLEAN : Create(e, n, s, on)
  \/ \E i \in Id, s \in Setup, on \in BOOLEAN : UpdateCheck(e, i, s, on)
  \/ Update(e)
  \/ \E i \in Id : Delete(e, i) \/ \E on \in BOOLEAN : Toggle(e, i, on)

Next == \E e \in Worker : Edit(e) \/ Query(e) \/ QueryBreaks(e) \/ QueryFails(e) \/ Install(e)

Spec == Init /\ [][Next]_vars

-----------------------------------------------------------------------------
(* Requests are routed by the table as it is, once every edit has reloaded *)
(* the cache, unless reloads crossed (the older list may be installed      *)
(* last) or failed, even half-way.  Nothing polls: the cache then stays     *)
(* wrong until the next edit.                                              *)
RoutesFollowTable ==
  ~routesCrossed /\ (\A e \in Worker : editing[e].pc \notin {"query", "install"})
    => routes = Enabled(providers)
=============================================================================
