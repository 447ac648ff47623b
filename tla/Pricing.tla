------------------------------ MODULE Pricing ------------------------------
(***************************************************************************)
(* Model prices: the table (store/db.go), its cache that prices requests       *)
(* (tracker/pricing_store.go), the handlers that edit it                   *)
(* (tracker/pricing_api.go), the reset to the built-in prices, and the     *)
(* refresh from OpenRouter's catalogue, at boot, daily and on demand       *)
(* (tracker/openrouter_pricing.go).  A price is known by who set it, the   *)
(* row's source: seed, custom or openrouter.                               *)
(***************************************************************************)
EXTENDS Integers, FiniteSets

CONSTANTS
  Prefix,     \* model prefixes
  Seeds,      \* defaultModelPricing: the prefixes it has a price for
  Worker,     \* goroutines of the pricing API, and the daily refresh
  MaxPrice,   \* bound: rows ever inserted
  None

VARIABLES
  prices,       \* model_pricing, by its UNIQUE prefix: None or id and price
  lastPrice,    \* AUTOINCREMENT
  priceCache,   \* PricingStore.cache: prefix -> price or None
  pricing,      \* what each writer is doing
  pricesCrossed \* ghost: reloads have crossed, failed or been skipped by an error

vars == <<prices, lastPrice, priceCache, pricing, pricesCrossed>>

PriceRow == [id : Nat, price : {"seed", "custom", "openrouter"}]
Prices(t) == [p \in Prefix |-> IF t[p] = None THEN None ELSE t[p].price]
Listed(f) == {p \in Prefix : f[p] # None}

(* A writer's task: pc; the prefixes it still has to write; for a refresh  *)
(* the catalogue it fetched, the rows it listed, whether it has updated    *)
(* any or failed to, and (ghost) whether it was the only one to write      *)
Idle == [pc |-> "idle", todo |-> {}, cat |-> {}, listed |-> None, got |-> None,
         updated |-> FALSE, failed |-> FALSE, lone |-> TRUE]

(* main: SeedDefaults on an empty table *)
Init ==
  /\ lastPrice = Cardinality(Seeds)
  /\ \E n \in [Seeds -> 1..lastPrice] :
       /\ \A p, q \in Seeds : p # q => n[p] # n[q]
       /\ prices = [p \in Prefix |-> IF p \in Seeds THEN [id |-> n[p], price |-> "seed"] ELSE None]
  /\ priceCache = Prices(prices)
  /\ pricing = [w \in Worker |-> Idle]
  /\ pricesCrossed = FALSE

Free(w) == pricing[w].pc = "idle"

\* mutant: an edit answers without a reload
ReloadNext_None == Idle
ReloadNext == [Idle EXCEPT !.pc = "query"]

(* Worker w moves on to the task t after writing to the table: whoever     *)
(* else is refreshing is no longer alone (ghosts are dropped when useless) *)
Disturbed(t) ==
  IF t.listed = None THEN t ELSE IF t.pc = "query" THEN ReloadNext ELSE [t EXCEPT !.lone = FALSE]
Wrote(w, t) ==
  pricing' = [v \in Worker |-> IF v = w THEN t ELSE Disturbed(pricing[v])]

(* The statements of store/db.go *)
Insert(p, v) ==
  /\ prices[p] = None /\ lastPrice < MaxPrice
  /\ lastPrice' = lastPrice + 1
  /\ prices' = [prices EXCEPT ![p] = [id |-> lastPrice + 1, price |-> v]]
HasId(i) == \E p \in Prefix : prices[p] # None /\ prices[p].id = i
(* a missing id is no error; another row's prefix is *)
Taken(i, p) == prices[p] # None /\ prices[p].id # i /\ HasId(i)
UpdateRow(i, p, v) ==
  prices' = [q \in Prefix |-> IF q = p /\ HasId(i) THEN [id |-> i, price |-> v]
                            ELSE IF prices[q] # None /\ prices[q].id = i THEN None ELSE prices[q]]
DeleteRow(i) ==
  prices' = [q \in Prefix |-> IF prices[q] # None /\ prices[q].id = i THEN None ELSE prices[q]]

-----------------------------------------------------------------------------
(* HandleCreate, HandleUpdate, HandleDelete: a refused statement answers   *)
(* without a reload                                                        *)

Create(w, p) ==
  /\ Free(w) /\ Insert(p, "custom")
  /\ Wrote(w, ReloadNext)
  /\ UNCHANGED <<priceCache, pricesCrossed>>

Update(w, i, p) ==
  /\ Free(w) /\ ~Taken(i, p)
  /\ UpdateRow(i, p, "custom")
  /\ Wrote(w, ReloadNext)
  /\ UNCHANGED <<lastPrice, priceCache, pricesCrossed>>

Delete(w, i) ==
  /\ Free(w)
  /\ DeleteRow(i)
  /\ Wrote(w, ReloadNext)
  /\ UNCHANGED <<lastPrice, priceCache, pricesCrossed>>

-----------------------------------------------------------------------------
(* ResetDefaults: delete, count, seed, reload.  When the count finds a row *)
(* somebody has put there meanwhile, or fails, nothing is reloaded.        *)

DeleteAll(w) ==
  /\ Free(w)
  /\ prices' = [p \in Prefix |-> None]
  /\ Wrote(w, [Idle EXCEPT !.pc = "count"])
  /\ UNCHANGED <<lastPrice, priceCache, pricesCrossed>>

Count(w) ==
  /\ pricing[w].pc = "count"
  /\ \/ /\ Listed(prices) = {}
        /\ pricing' = [pricing EXCEPT ![w].pc = "seed", ![w].todo = Seeds]
        /\ UNCHANGED pricesCrossed
     \/ /\ Listed(prices) # {}
        /\ pricing' = [pricing EXCEPT ![w] = Idle]
        /\ UNCHANGED pricesCrossed
     \/ pricing' = [pricing EXCEPT ![w] = Idle] /\ pricesCrossed' = TRUE
  /\ UNCHANGED <<prices, lastPrice, priceCache>>

(* each default is inserted in turn; one that fails is logged and skipped *)
Seed(w, p) ==
  /\ pricing[w].pc = "seed" /\ p \in pricing[w].todo
  /\ LET left == [pricing[w] EXCEPT !.todo = @ \ {p},
                                 !.pc = IF pricing[w].todo = {p} THEN "query" ELSE "seed"] IN
     \/ Insert(p, "seed") /\ Wrote(w, left)
     \/ pricing' = [pricing EXCEPT ![w] = left] /\ UNCHANGED <<prices, lastPrice>>
  /\ UNCHANGED <<priceCache, pricesCrossed>>

-----------------------------------------------------------------------------
(* RefreshFromOpenRouter, once the catalogue is fetched *)

(* what follows the last upsert: prune if anything was updated *)
\* mutant: an empty catalogue prunes as well
ToPrune_Always(t) == Listed(t.listed) \ t.cat
ToPrune(t) == IF t.updated THEN Listed(t.listed) \ t.cat ELSE {}

After(t) ==
  LET gone == IF t.pc = "upsert" THEN ToPrune(t) ELSE {} IN
  IF t.todo # {} THEN t
  ELSE IF gone # {} THEN [t EXCEPT !.todo = gone, !.pc = "prune"]
  ELSE IF t.lone THEN [t EXCEPT !.pc = "query"] ELSE ReloadNext

(* models that are free or unpriced are not in cat *)
List(w, cat) ==
  /\ Free(w)
  /\ pricing' = [pricing EXCEPT ![w] = After([Idle EXCEPT !.pc = "upsert", !.todo = cat,
                                                    !.cat = cat, !.listed = prices])]
  /\ UNCHANGED <<prices, lastPrice, priceCache, pricesCrossed>>

Done(t, p, ok) == After([t EXCEPT !.todo = @ \ {p}, !.failed = @ \/ ~ok])
Tried(t, p, ok) == Done([t EXCEPT !.updated = @ \/ ok], p, ok)

Upsert(w, p) ==
  LET t == pricing[w] IN
  /\ t.pc = "upsert" /\ p \in t.todo
  /\ \/ /\ IF t.listed[p] # None
             THEN ~Taken(t.listed[p].id, p) /\ UpdateRow(t.listed[p].id, p, "openrouter") /\ UNCHANGED lastPrice
             ELSE Insert(p, "openrouter")
        /\ Wrote(w, Tried(t, p, TRUE))
     \/ pricing' = [pricing EXCEPT ![w] = Tried(t, p, FALSE)] /\ UNCHANGED <<prices, lastPrice>>
  /\ UNCHANGED <<priceCache, pricesCrossed>>

Prune(w, p) ==
  LET t == pricing[w] IN
  /\ t.pc = "prune" /\ p \in t.todo
  /\ \/ DeleteRow(t.listed[p].id) /\ Wrote(w, Done(t, p, TRUE))
     \/ pricing' = [pricing EXCEPT ![w] = Done(t, p, FALSE)] /\ UNCHANGED prices
  /\ UNCHANGED <<lastPrice, priceCache, pricesCrossed>>

-----------------------------------------------------------------------------
(* ReloadCache: the query, then the swap under the lock *)
Holding(w) == pricing[w].pc = "install"

Query(w) ==
  /\ pricing[w].pc = "query"
  /\ pricing' = [pricing EXCEPT ![w] = [Idle EXCEPT !.pc = "install", !.got = Prices(prices)]]
  /\ pricesCrossed' = (pricesCrossed \/ \E v \in Worker : Holding(v))
  /\ UNCHANGED <<prices, lastPrice, priceCache>>

QueryFails(w) ==
  /\ pricing[w].pc = "query"
  /\ pricing' = [pricing EXCEPT ![w] = Idle]
  /\ pricesCrossed' = TRUE
  /\ UNCHANGED <<prices, lastPrice, priceCache>>

Install(w) ==
  /\ Holding(w)
  /\ priceCache' = pricing[w].got
  /\ pricing' = [pricing EXCEPT ![w] = Idle]
  /\ pricesCrossed' = (pricesCrossed /\ (pricing[w].got # Prices(prices) \/ \E v \in Worker \ {w} : Holding(v)))
  /\ UNCHANGED <<prices, lastPrice>>

Edit(w) ==
  \/ \E p \in Prefix : Create(w, p)
  \/ \E i \in 1..lastPrice : Delete(w, i) \/ \E p \in Prefix : Update(w, i, p)
Reset(w) == DeleteAll(w) \/ Count(w) \/ \E p \in Prefix : Seed(w, p)
Refresh(w) ==
  \/ \E cat \in SUBSET Prefix : List(w, cat)
  \/ \E p \in Prefix : Upsert(w, p) \/ Prune(w, p)
Reload(w) == Query(w) \/ QueryFails(w) \/ Install(w)

Next == \E w \in Worker : Edit(w) \/ Reset(w) \/ Refresh(w) \/ Reload(w)

Spec == Init /\ [][Next]_vars

-----------------------------------------------------------------------------
(* Requests are priced by the table as it is once every writer is done,    *)
(* unless reloads crossed or failed: also when a reset gave up because it  *)
(* found a row, since whoever wrote the row reloads after it.              *)
PricesFollowTable ==
  ~pricesCrossed /\ (\A w \in Worker : Free(w)) => priceCache = Prices(prices)

(* "make the catalogue authoritative" (openrouter_pricing.go:111), yet     *)
(* "a transient empty/garbled response can never wipe the table" (:114):   *)
(* a refresh nobody else wrote during leaves exactly the catalogue; when   *)
(* some of its writes failed, every listed model that was priced before    *)
(* still is; and when none succeeded the table is what it was.             *)
CatalogueIsAuthoritative ==
  \A w \in Worker : LET t == pricing[w] IN
    t.pc = "query" /\ t.listed # None /\ t.lone =>
      IF ~t.updated THEN prices = t.listed
      ELSE /\ ~t.failed => Prices(prices) = [p \in Prefix |-> IF p \in t.cat THEN "openrouter" ELSE None]
           /\ \A p \in t.cat : t.listed[p] # None => prices[p] # None
=============================================================================
