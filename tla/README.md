# Toko-Mo-Co: formal models

Toko-Mo-Co is a proxy for LLM APIs, one Go process: agents send their requests to it instead of to
the provider, and it authenticates, applies rules, redacts, answers from caches, forwards with
retries and fallbacks, records what every request cost, and feeds a live dashboard. This directory
holds TLA+ models of its concurrent core, the TLC configurations that check them, and proofs about
them. All paths below are relative to `src/`.

Almost every component is a Go struct with a mutex, some maps, and goroutines that touch it: one per
HTTP request, a few detached ones per request (row writers, `dbWrite`), periodic sweeps, timers, and
one event loop. What is hard is between the critical sections, not inside them: an object read after
its lock is dropped, two sections where one was meant, a row that lands late, a channel with two
senders. The models are cut along critical sections accordingly: an action is what one goroutine
does under one lock (or one SQL statement, or one channel operation), and everything interleaves.

## Inventory

| Component | State | Operations | Talks to | Hard part | What makes it correct | Module |
|---|---|---|---|---|---|---|
| Response cache (`cache/cache.go`) | `entries`, `lruOrder`, `lruMap`, table `response_cache` | `Lookup`, `Store`, `Flush`, `evictExpired`, `warmLoad`, detached `persistToDB` and `IncrementCacheHit` | request handler, database | lookup is three critical sections; objects are shared without a lock; rows land late or never | map and list stay one structure, bounded, LRU, a flush is final | `ResponseCache` |
| Agent summaries (`dashboard/hub.go`, `Prune` of `store/db.go`) | `cacheValid`, `cachedAgents`, `debounceTimer` | `InvalidateAgentSummaries`, `agentSummaryPayload` | recorder, database, hub | the query runs while rows arrive, the prune deletes rows it has counted | valid misses nothing announced; the last totals come out | `AgentSummaries`, `CachedQuery` |
| Dashboard hub and clients (`dashboard/hub.go`, `websocket.go`) | `clients`, `broadcast`, a `send` channel per client | `Run`, `Broadcast`, `ServeWS`, `replayHistory`, the two pumps | recorder, database, browser | channels closed by one goroutine and written by two; replay against live feed | no gap in the feed; nothing leaks | `DashboardHub` |
| Rate limiter (`rules/ratelimiter.go`, `actions.go`, `conditions.go`) | `buckets` and the bucket objects | `getOrCreate`, `consumeOne`, `consumeQuota`, `cleanupLoop`, `PeekRequest` | rule engine | the sweep drops buckets in use; integer refills; partial consumption | bounded bursts; refills are not lost | `RateLimiter` |
| Upstream (`proxy/handler.go` `executeUpstreamRequest`, `reliability/`) | per request: attempts, delay, kept response | retry loop, failover chain, fallback | providers, settings | which of many answers is returned, which bodies are closed | the right answer, no open body, always an answer | `Upstream` |
| Request pipeline (`proxy/handler.go` `handleRequest`) | per request: body bytes and their parsed form | gates in order: auth, rules, NeMo guard, redaction, memory, cache, upstream, record | everything | redaction edits bytes while memory injection re-marshals the parsed form | what is sent is redacted; what is recorded is what happened | `RequestPipeline` |
| Rule engine and store (`rules/engine.go`, `store.go`, `api.go`) | compiled rule list, table, guardrails mirror | `Reload`, `reloadLoop`, `Evaluate`, CRUD | database, guardrails service | reloads overtake each other; mirror written in another order than the table | edits reach the engine; first match wins | `RuleEngine` |
| API keys (`auth/auth.go`, `api.go`) | key cache with a TTL, table | `Wrap`, `checkCache`, `InvalidateCache`, sweep, issue, revoke, toggle | database | a validation in flight across a revocation | a revoked key is not accepted beyond a known bound | `ApiKeys` |
| Sessions (`tracker/session.go`) | session map and the `*Session` objects, table | `GetOrCreateSession`, `AddCost`, `touch`, `evictOldest`, `evictStale`, `RestoreSession` | handler, database | look-up and creation, and the two phases of the sweep, are separate sections; objects outlive their place in the map | totals agree with the table; no active session is swept | `Sessions` |
| Loop detector (`detector/`) | recent prompts per session, capped | `Add`, `GetRecent`, cleanup | handler | adding and counting are two sections | the count is exact | `Sessions` |
| Persistence and shutdown (`proxy/handler.go`, `main.go`) | persist slots | `persistAndBroadcast`, shutdown | database | rows in flight at exit | a stop loses no more than the slots hold | `Sessions`, `DashboardHub` |
| Custom providers (`providers/`) | table, cache of the enabled ones | CRUD, `ReloadCache` | database, handler | two reloads may install in the wrong order | cache equals table once edits stop | `Providers` |
| Pricing (`tracker/pricing_store.go`, `pricing_api.go`, `openrouter_pricing.go`) | table, cache | CRUD, `ResetDefaults`, `RefreshFromOpenRouter`, `ReloadCache` | database, OpenRouter | the same, and multi-statement rewrites that fail half way | the same; a refresh never wipes the table | `Pricing` |
| Memory (`memory/`) | facts, table | `StoreFactWithVectors`, conflict search, `updateExistingEntry`, `evictForAgent`, removals, `warmLoad` | database, embeddings, handler | search and append are separate sections around a write; removals clear memory and table apart | no duplicate facts, memory agrees with table, a removal is final, agents kept apart | `MemoryStore` |
| Vector store, semantic cache (`vectorstore/`, `cache/semantic.go`) | vectors, table | `StoreHybrid`, `evictOldest`, `Flush`, `warmLoad`, detached writers | database, embeddings | deletes overtaken by the inserts they undo; a store replaced while in use | the table agrees with the map | `VectorStore`; lookups in `RequestPipeline` |
| Settings (`config/config.go`, `main.go`) | live config, row, what the components were built with | `HandlePut`, `onChange`, `LoadFromDB` | every component | three steps without a common lock, masked and blank fields | what was put is live, saved and, where it is handed over, in use | `Settings` |
| Database (`store/db.go`) | tables | SQL | all | | | tables are state of the modules that use them |
| Fallback API, redactor, injector, guards, embedding clients, metrics, pages | none of their own, or external | CRUD, text processing, HTTP clients, rendering | | | | not modelled |

## Modules

Each component has one module (state, `Init`, one action per critical section, `Next`, `Spec`,
properties), an `MC` module that names the model values of its instances, and, where theorems
exist, a `Proofs` module. Two modules compose several: `Traffic` has `Upstream`, `Sessions` and
`RateLimiter` side by side (under the names `U`, `S` and `L`), `MCAdmin` the stores of the management API (and `MCDashboard` runs `DashboardHub` and `AgentSummaries`),
and `TrafficProofs`, `AdminProofs` and `AgentSummariesProofs` are about those. Names follow the code. History variables, which the code does not have,
are marked "(history)" where they are declared. Operators named `X_Something`, defined right before
`X`, are deliberately wrong variants of `X`, each breaking one property: they record what the
property is able to notice, and no specification uses them.

**ResponseCache.** `heap` holds the `CacheEntry` objects behind the pointers, since `Store` updates
an object in place while other goroutines hold it. A request is `LookupRead` (the `RLock` section),
`LookupCheck` (the expiry test with no lock), then `LookupDrop` or `LookupPromote` (the `Lock`
section), `ServeHead` and `ServeBody` (the handler reading the object), or `UpstreamOK` and
`StoreEntry` on a miss. `PersistRow` and `BumpRow` are the detached writers, `FlushMemory` and
`FlushRows` the two halves of `Flush`, `CleanMemory` and `CleanRows` those of the sweep. `Restart`
is a crash or a shutdown, which waits for no writer, followed by `warmLoad`. Every SQL statement may
fail. `SpecUp` is one life of the process, `Spec` has restarts. The garbage collector (`Collect`)
blanks objects that nothing refers to, so that addresses are reused. `container/list` is a sequence,
its index `lruMap` is implied by it.

**AgentSummaries** refines **CachedQuery**. CachedQuery says what a cached query result promises: an
answer holds every row already announced, and a row that is gone only if it was deleted since the last
announcement: the daily `Prune` deletes requests and invalidates nothing, so the totals go on counting
them until the next request comes (`lingering` is the history of these). AgentSummaries has the mutex
`cacheMu` (`building` is a rebuild that holds it), the flag, the payload, and the timer, whose
callback runs in a goroutine of its own and may find itself behind a newer invalidation.

**DashboardHub.** `Run`'s select is `Register`, `Unregister` and `Deliver`. `recorder` is `dbWrite`
(insert, then broadcast). `replay` is the `replayHistory` goroutine of a client: the history query,
the totals query, then one send at a time into the same channel `Run` writes and may close.
`WritePump` writes a message to the connection, and `Prune` deletes the oldest rows at any moment. A
panic of either goroutine ends the process (`Alive`). A late pong is a `ReaderStops`.

**RateLimiter.** One rule. Buckets are objects found under the map's lock (`Get`) and used under
their own (`Take`), with `Cleanup` free to come between. Times are relative to each bucket (`age`
since its refill, `left` to its reset) and stop where the code no longer tells values apart, so the
clock needs no bound. An observer (`watched`, `since`, `taken`, `stray`) looks at one counter from
an arbitrary moment on. `conditioned`, chosen at the start, puts the rule's `request_count`
condition in front; `bypassed` counts what it lets by.

**Upstream.** One request through retry loop, failover chain and fallback, with any outcome of every
call. The number of the rule's further providers, the configured chain and the tier's candidates
are chosen at the start. `PutSettings` toggles `FallbackEnabled` while the request runs. The retry
settings are copied at the start, as in the code.

**RuleEngine.** The `rules` table is a function from ids to rows; what a rule says is a `Body` with a
priority, the requests it fits, an action, whether it compiles and whether it authors a rail. A
handler is its statement (`Create`, `Update`, `Delete`, `Toggle`), then the reload as two steps
(`List` the table, `Install` what was listed; nothing is locked in between), then for a toggle
`ReadBack`, then `Push`. The poller is a `Tick` and a reload. `Evaluate` is an operator: it reads
one list and is over before another is installed. `rails` is the external guardrails service; a call
to it may or may not have been carried out when it reports an error. `crossed` and `strained` are
histories that say when the code makes no promise, and the properties are exact about the rest.

**RequestPipeline.** One goroutine per request, with what `handleRequest` has in hand: the body twice
(`bytes`, `parsed`), who is to serve it, what the detectors and the rule said, the hash, what was
sent, the response, what the client saw. An action is one section of the handler, in the order of the
code. A body is a model name, a text (plain, with PII, cleaned) and the set of things added to it; a
hash is what `BuildRequestHash` covers of that. Requests meet in the exact cache, the semantic cache
(hash to the model its vector is filed under, which after a fallback is not the one asked for) and
the extracted facts. What other modules have in detail is an input here: the outcome of the rules,
the detectors' verdicts, the responses `Upstream` can return, and `Forget` for every way an entry
leaves the cache (it expires, is evicted or flushed). Settings are read at their use and may change between, so each is a choice there.
One life of the process: a cache filled before guardrails were switched on is not considered.

**Sessions** follows a request through everything that concerns its session: `Arrive`, `Touch`,
`Found` and `Create` are the sections of `GetOrCreateSession`, `Add` and `Compare` those of the loop
detector, `Answer` is `AddCost`, `Record` and `Insert` are `persistAndBroadcast` with its slots and
`InsertRequest`. `heap` holds the `*Session` objects: a request keeps adding to the one it was given
after it has been evicted. `SweepCollect` and `SweepDelete` are the phases of `evictStale`, `Cleanup`
is the detector's ticker, and `Restart` a stop, graceful or not, and the restore. A request that costs
anything costs 1.

**MemoryStore.** A goroutine scans (`Scan`, under the read lock), then either inserts its row and
appends (`Insert`, `AppendEntry`) or updates the entry and then its row (`UpdateMemory`, `UpdateRow`).
A removal clears the list and then the table (`Remove`, `DeleteRows`); `EvictRow` is the detached
`DELETE` of an evicted entry. Similarity is a relation between facts (`Same` above 0.95, `Near` above
the conflict threshold, `Replaces` for what `shouldReplace` says of a pair), which agent may say what is
`Says`, and the eviction's score is a choice. `loose` and `odd` are histories of what crossed.

**ApiKeys.** `Ask`, `DropExpired`, `Query` and `Remember` are the steps of `Wrap`; an administrator's
handler is a `Statement` and then `InvalidateCache`. **Providers** and **Pricing** have the table, the
cache, and handlers that write and then reload in two steps (`Query`, `Install`). Pricing adds the reset
(`DeleteAll`, `Count`, `Seed`) and the refresh (`List`, `Upsert`, `Prune`), each statement a step that
may fail. A reload of providers whose query breaks off installs what it has read (`QueryBreaks`).
**Settings** has four fields, each for the settings treated like it: copied and handed over (`on`); handed
over, but ignored unless positive (`lam`); kept when blank or masked (`key`); copied and saved, but read
only where a component is built (`size`: the response cache's limit and TTL, the capacity of the memory,
the loop detector's settings). A PUT has its steps (`Apply`, `Snapshot`, `Save`, then the callback, which reads
the live configuration as it goes); the components are the memory store (`recall`), the semantic cache (`sem`)
and those the callback does not know (`limit`).
**VectorStore** has both backends (`pg`): on SQLite a map with a limit mirrors the table, on Postgres the
table is everything. Detached statements (`writers`, how many of each) execute in any order, may fail, and survive both a
flush and a rebuild of the store; `crossed` is the history of hashes where that shows. **MCAdmin** puts
the five side by side: they share the database and nothing else, so a behaviour is about one of them.

**Traffic** does the same for what a request meets on its way: a step is one of Upstream, of Sessions or
of RateLimiter and leaves the other two alone, and its properties are theirs. `Moving` says which of them
take steps: any in the theorems, one in each run, since they share no state and the product would only
multiply their states.

The modules share no variables. The cache's request sees the upstream as a step that yields an
answer or fails, and Upstream says which answer; the hub and the summaries share the recorder's
insert (`rows`), each with the part of `dbWrite` that concerns it, as do the sessions (the session's row).

## What is checked

| Run | Instance | Shows |
|---|---|---|
| `cache_up` | 2 requests, 3 hashes, 2 entries, one flush, 2 ticks, no table | `ListMatchesMap`, `NoHitFromBeforeFlush`, `EvictsLRU` |
| `cache_restart` | 1 request, 2 hashes, 1 entry, table, flush, restart | `Bounded` with late rows and a warm load |
| `dashboard` | the feed: 2 requests, 1 client, buffers of 1, history of 1; the totals: 3 requests, 1 connecting client; prunes, everything may fail | `NoGap`, `RunNeverPanics`, `NoLeak`; `ValidMeansFresh`, `ImplementsCachedQuery`, `EventuallyShown` |
| `traffic` | one request: 4 attempts, 2 further providers, chains and tiers over 3 providers, one unresolvable; the limiter: 2 goroutines, rate 1 per 2 ticks, a token quota of 3 with requests of 2, condition or not | `AnswerIsVerdict`, `OneOpenBody`, `WaitsFollowFormula`, `AlwaysAnswered`; `BurstBound`, `KeepsAdmitting` |
| `rules` | 2 editors, 2 edits, 2 ids, 3 bodies (one does not compile), failing lists and pushes, restart | `FirstMatchWins`, `ReloadedWhenAlone`, `MirrorFollows`, `EventuallyCurrent` |
| `pipeline` | 2 requests of 7 kinds (PII or plain, exempt, meter-only, streaming, uncacheable, unknown model), 5 outcomes of the rules, 2 configurations of the detectors | `StoppedGoesNowhere`, `RecordMatchesAnswer`, `HitIsForThisRequest`, `CheckedUnlessSpared`, `RedactedUnlessRemembered` |
| `memory` | 2 goroutines, 2 agents, 3 facts of which one is near both others, 2 entries, 3 ids, restarts | `MemoryMatchesTable`, `DeletedIsGone`, `NoTwins`, `OwnFactsOnly` |
| `sessions` | 2 requests, 2 sessions of which 1 fits, 2 topics, 2 ticks, 1 slot, restart | `SpendMatchesTable`, `LoopCountExact`, `SweptWereIdle`, `StopLosesFew` |
| `admin` | 2 administrators; 2 callers and keys; 2 providers, prices and vectors; restarts | `RevokedStaysOut`, `RoutesFollowTable`, `PricesFollowTable`, `CatalogueIsAuthoritative`, `SettingsStick`, `TableFollows` |
| `pipeline_redaction` | `RedactedIsSentRedacted`, violated | memory injection undoes the redaction |
| `limiter_condition` | `LimitsWhenConditioned`, violated; the limiter of `traffic` | the documented rate limit rule limits nobody |
| `settings_limits` | `LimitsTakeEffect`, violated; the instance of `admin` | limits are in use only after a restart |

### Bounds

- `cache_up` needs two requests to race on one hash, three hashes to have a choice of victim at a
  capacity of two, and two ticks so that an entry with a lifetime of one expires while another is
  fresh. It has no table because no action but `Restart` copies anything from the table into memory;
  `cache_restart` has it, with one request, since the races there are with the row writers and the
  restart. `Ref` is large enough that a store always finds a free address (`RefsSuffice` says it for
  the warm load).
- `dashboard`, the totals: three requests so that one can be inserted, one announced and one shown while a
  rebuild is in progress.
- `dashboard`, the feed: buffers of one so that full queues and dropped clients happen within a few steps, and a
  history limit of one so that a replay leaves something out. One client suffices: clients interact
  only through the event loop, which treats each alone, and `RunNeverPanics` is proved for any
  number. The code's 256 only makes the same states longer to reach.
- `traffic`, the limiter: two goroutines, so that a dropped bucket can be held by both, a rate slower than the
  clock, so that a refused call leaves a remainder to be kept, and requests whose tokens do not divide
  the quota, so that one overshoots it. The quota on cost is off: it is the same code as the one on
  tokens.
- `rules` starts with one rule in the table. Two edits by two goroutines are what it takes for reloads
  to cross and for edits of one rule to overlap, with the poller as a third party; the body that
  comes first by priority does not compile, and the two others have one priority, so that ids decide.
- `pipeline` has two requests because everything one request can do to another goes through a cache
  entry, and its properties relate at most the one that filled it and the one it was served to. The
  chain has two providers, so that one is left to stand in; the fallback is one of them.
- `traffic`, the request upstream: four attempts with delays 2, 4, 5 reach the cap of the backoff and stay there.
- `memory` has one agent with two facts near each other (so that updates, twins and refusals happen) and
  a second agent whose fact is near the first's (so that scoping matters). A capacity of two is reached
  with the third id; a third row is what it takes to evict while another row is under way.
- `sessions` has a cap of one session and one of prompts, so that two requests evict each other's, and a
  clock that outlasts age and window. Two requests suffice: the properties count requests, and what a
  third could do to one of them a second one does already, each request being restarted with the process.
- `admin`: two hands are what every race there is between. Two rows reach every case of a rename onto
  another's prefix, of a partial refresh, and of a vector store that holds one. PUTs enter any switch, key or
  mask (a blank key is treated as the mask is), the weights 0 (with the mask only: no component looks at both)
  and 2, and with each weight another limit.

### Fairness

- `dashboard`, the totals: a due timer fires, its callback runs, a goroutine that has the mutex or has finished
  its insert goes on. Nothing makes a request arrive, an insert happen, or a client connect.
  `EventuallyShown` then excuses only rows whose own query or broadcast failed, or that are pruned first.
- `dashboard`, the feed: the event loop serves its channels, and the writer of a closed channel drains it. No client
  has to connect, read or leave.
- `traffic`, the limiter: callers keep asking and time passes. The sweep need not run.
- `rules`: a handler that has begun goes on, the ticker ticks, and a poll that keeps asking is
  answered by the database some time (strong fairness of the poller's `List` only). Nobody has to
  edit, and the process need not restart. `EventuallyCurrent` relies on the bound on edits to cease.
- `traffic`, the request upstream: every call returns, because the HTTP client has a timeout, and `time.Sleep` ends.
  Settings changes need not happen.

Runs that switch deadlock checking off are those where the system comes to rest: all requests
recorded, all clients gone, the request answered, the clock stopped.

## What is proved

For every value of the constants, by TLAPS.

**ResponseCacheProofs.** From `CacheConstants` (capacities are positive, times are naturals) and
`RefsSuffice` (memory holds a full cache):

- `CacheTypeOK`, `CacheBounded`: by the inductive invariant `Shape /\ Sound`. `Sound` adds to the
  types that every object something points to is a real one, without which `Store` could not be
  shown to keep `heap` typed. `Shape` says that the list is a duplicate-free enumeration of the
  map's keys (as many elements as keys, and the same ones) and that the capacity holds; `Bounded`
  alone is not inductive, because the eviction takes the list's back and only the equality of the
  two makes this a key of the map. The lemmas about `Retain`, `MoveToFront`, `StoreEntry` and the
  warm load are about finite sets and sequences.
- `CacheListMatchesMap`: adds `Owned`, that each key's object carries that key and no two keys share
  an object. It is needed because `Store` writes through the address it finds.
- `CacheFlushIsComplete`, for `SpecUp`: by `Fresh`, that everything in the map was stored after the
  last completed flush, and that objects only ever become younger.
- `CacheEvictsLRU`, for `SpecUp`: by `InOrder`, that no key of the list stands before one that was used
  later. A step takes keys out, which keeps the order of the others, or puts in front a key used now;
  `Owned` is what says that stamping its object touches no other key's. After a restart it is false:
  the warm load reverses the list.

**AgentSummariesProofs.** From `SummaryAssumption`, about `MCDashboard` (`TotalsOfParts`: its behaviours
are ones of the totals): `SummariesFresh` and `SummariesImplementCachedQuery`, by `BuildingFresh`: while a rebuild holds `cacheMu`, nobody can
announce a row its query has not seen, and what the query has seen that is gone was pruned since the last
announcement. This is why the flag may be set after the query. In the refinement a prune is the abstract
`Delete`, of rows announced or not.

**DashboardHubProofs.** From `HubConstants`:

- `EventLoopNeverPanics`, by the invariant that no client in the set has a closed channel and that only
  connected clients have been in the set.
- `HubTypeOK`: types, and the queue and the channels never exceed their capacities.
- `FeedLeavesNoGap`: `NoGap` is inductive together with the types and `OnlyRows` (what a replay has
  still to send are rows, or totals that carry no event): a step hands an event from one queue to the
  next, and the only messages a full buffer makes the replay skip are totals. Lemmas say what appending
  to, taking from and prefixing a queue does to the events it carries.

**RuleEngineProofs.** From `RuleConstants`:

- `ReloadTakesEffect`, by `Alone`: until a reload crosses another or fails, at most one goroutine holds
  a list, and once every edit has listed, what it holds is the table (or nobody holds one and the
  engine runs it). `ReloadedWhenAlone` alone says nothing of a list in someone's hands and so does
  not survive the installation of one.
- `RailsFollowRules`, by `Mirrored`: of each rule not in `strained` there is at most one edit in hand,
  and it knows what the table says; the subtle case is a toggle of a rule that has been deleted,
  which pushes nothing, and whose rail must have been gone before.

- `TheFirstMatchWins`, by `Ranked`: the engine runs the compiled form of the table it listed. What is to
  be shown is about that form (`CompiledIsRanked`): it is ranked by a `CHOOSE`, so a ranking has to
  exist, and it must leave no rule out. `RankingExists` takes a smallest set of rules without one,
  removes a rule from it and puts that rule into its place in a ranking of the others; `FirstOf`, that a
  set of numbers has a least one, stands in for the induction. `RulesTypeOK` then covers the list too.

**RequestPipelineProofs.** The first two from no assumption at all, the others from `PipelineConstants`
(which values the rules, the answers and the detectors may give):

- `CondemnedGoNowhere`, by `Passes`: before the gates are passed nothing has been sent or shown and no
  blocking rule matched, after them nothing is stopped, and whoever is in the cache or remembered has
  gone all the way (`Through`). The last part is what a property of the caches' contents needs, since
  an entry outlives its request's steps.
- `AnswersAreChecked`, by `Vetting`: every cache entry comes from a finished request and was checked
  unless that request's agent is exempt; the meter-only endpoint, which the gate skips, never computes
  a hash and so keeps nothing; a hit inherits what its entry satisfies.
- `RecordsMatchAnswers`, by `Noting`: what is in hand already says what the record must say: nothing is
  recorded before the end, a response with status 200 names who gave it, and the status about to be
  recorded is the one shown, streams and broken answers apart.
- `RedactedStaysRedacted` and `HitsAreForTheirRequests`, by one invariant, `Carrying`: a body is for the
  model of whoever is asked, what was sent is the body as it still is, and whoever has a hash has the
  hash of that body. A cache entry therefore stands for a request that was sent with what its hash
  covers (`Stands`), a vector and a detached writer of one for a request its model answered (`Stored`),
  and what was learnt comes from a body that was sent. The last parts are what makes the properties
  inductive: they speak of a request when its entry's author has long gone.

**AdminProofs.** For any numbers of workers, keys, providers, prefixes, hashes and ids. From
`AdminAssumption` (the TTL is a natural), `SeedsAssumption` (finitely many defaults) and `NoneAssumption` (`None` is no settings, no cache, no row
and no table):

- `KeysStayOut`, by `KeysInv`: what the cache holds of a key that is not on, or beyond its expiry and the
  TTL, is about to be cleared or was remembered late.
- `RoutesAreTheTable` and `PricesAreTheTable`, by `RoutesInv` and `PricesInv`: unless reloads crossed or
  failed, at most one goroutine holds a list; when nobody owes a reload any more, that list, or else the
  cache, is the table. For prices a reset that is about to count owes a reload only while the table is
  empty: it gives up when it finds a row, and then whoever wrote the row owes it or has listed since.
- `CatalogueRules`, by `CatalogueInv`: while nobody else writes (`lone`), a refresh knows of every row
  whether it has dealt with it: those to come are as it listed them, those behind it are the
  catalogue's or gone, or as listed where a statement failed (`Tracks`). Ids are never given twice
  (`Sound`), so the row a statement finds by id is the one that was listed.
- `SettingsAreKept`, by `SettingsInv`: while PUTs do not overlap there is at most one, what it carries is
  what it made live, and `sem` was built with `lastKey` except between the two steps of a rebuild. It says of
  limits that they are saved, and nothing of their being in use: they are not (`LimitsTakeEffect`).
- `VectorsFollow`, by `VectorsInv`: a hash that has not crossed is settled: its statement under way, or
  else its row, agrees with memory. Nothing is claimed while a flush is between memory and table, since
  the flush counts every hash it may hit as crossed.

**MemoryStoreProofs.** From `MemoryConstants` (being the same and being near are symmetric, and every fact is
the same as itself), four theorems by one invariant, `MemoryInv`:

- `MemoryIsTheTable`: an id has one owner (`OneOwner`: the list, the table and every goroutine that names
  an id agree on its agent, since ids are not reused); a row still to be appended is nobody else's
  business (`Pending`); of an entry that crossed nothing at most one goroutine has an update to write, and
  it writes what the entry says (`Updating`, `Matching`).
- `DeletedStaysGone`: what a removal has yet to delete from the table has left the list, and a store
  it may overtake is already marked as torn (`Removing`, `Dead`).
- `NoTwinsAlone`: a store that met no other of its agent's still finds nothing similar when it appends
  (`Unmet`, `Unlike`).
- `AgentsKeepTheirOwn`: a task in progress carries a fact its agent stated (`Typed`, `OwnFacts`); with
  `OneOwner`, the row an update writes is that agent's.

**TrafficProofs.** Each theorem from the assumption on the constants of the component it is about, for any
number of the three moving: `EachOfThree` says that a behaviour of `Traffic` is one of each of them.

- `AnswersFollowCalls` and `BodiesAreClosed`, by `UpstreamInv`: a success ends the calls; the response
  kept in the chain is the newest that counts and its body the only one open; before the fallback
  nothing is kept.
- `WaitsAreThoseComputed`, by `Waiting`: the delay in hand is what the formula gives for the next wait.
  That the recursive `PowerOfTwo` exists, and doubles, is shown first (`PowersOfTwo`), from tables of the
  first powers and least counterexamples.
- `NoBurstPastTwice`, by `LimiterInv`: a potential. What went through the watched bucket, plus what it
  can still give (`Credit`, counting the refill that has come in and is not yet credited), grows
  no faster than the refill (`Within`). It takes `Store` and `Holding` (a bucket serves one key, also when the
  sweep has dropped it and requests still hold it) to say that nobody else draws from the bucket.
- `ConditionStaysUnmet`, by `Unlimited`: with the condition in front, no bucket is ever created.
- `TotalsMatchRows`, by `Books`: charges and records of a session balance one request at a time (`Balanced`),
  because a request at work holds the object its id has in the map, unless that was dropped (`Keeping`), and
  an object belongs to one id. `SweepSparesTheActive` and `StopLosesNoMore` follow from its parts
  `Collected` and `Slots`.
- `LoopsAreCountedRight`, by `Books` and `Prompts`: what the store has of a session are its requests' prompts,
  once each and in the order of their times, and all those of the window. The order is why a trim, which
  only looks for the first prompt that is still good, drops all expired ones and no other.

Only model-checked: liveness (`EventuallyShown`, `NoLeak`, `KeepsAdmitting`, `AlwaysAnswered`,
`EventuallyCurrent`), which is beyond the prover. Every safety property that a passing run checks is also
a theorem.

## Disagreements between code and words

`pipeline_redaction` is violated: with memory and redaction both on, a request that is recorded as
redacted goes out unredacted whenever the agent has memories (`proxy/handler.go:787`, which marshals
`reqData`, against `README.md:14`).

Two more are as grave. A browser tab that is closed, or too slow, while its history is replayed can end
the process: a send on a closed channel panics even in a `select` with a default (`dashboard/hub.go:172`,
whose comment at 116 says "If the buffer fills we drop rather than block the replay goroutine").
`RunNeverPanics` therefore speaks of the event loop only. And the very rule that the documentation gives
as its rate limiting example (`RULES_ENGINE.md:126`) limits nobody: its `request_count` condition
(`rules/conditions.go:257`) waits for a bucket to be used up that only the action it guards would use.
`limiter_condition` shows more than twice the limit pass in one window (`LimitsWhenConditioned` is violated),
and `ConditionStaysUnmet` proves why: such a rule never limits anybody.

`settings_limits` is violated: the limit and the TTL of the response cache and the settings of the loop
detector "take effect immediately" (`USER_GUIDE.md:453`, also 174, and `config/config.go:619`), but the
callback (`main.go:461`) hands them to nobody, and only the next start reads them. The same holds of the memory's
capacity, of which `USER_GUIDE.md` does not say so.

Others were met on the way and have no run of their own:

- "Flush clears all entries from both memory and DB" (`cache/cache.go:357`): a row whose persist
  goroutine is late is written after the flush and is back at the next start.
- "This ensures the dashboard shows correct cumulative metrics" (`dashboard/hub.go:186`): the totals
  are queried while events flow; a request recorded before and broadcast after is counted twice.
- `README.md:136` shows the request flow in another order than the code has: rules, default blocks,
  redaction, memory, cache, upstream.
- A streaming answer always goes out with status 200, whatever the provider's, which is what gets
  recorded; an upstream body that breaks off is answered 502 and recorded with the provider's status.
- When a whole failover chain fails, the last provider's response is recorded under the first's name.
- "only fields that affect response content" (`cache/cache.go:173`): `max_tokens`, `top_p` or a
  response format affect it too; requests that differ in these share an answer.
- An answer is cached with the loop warning of the session that caused it, and others are served it.
- Answers that an exempt agent got without the output gate are served from the cache to agents that
  are not exempt; hence the exception in `CheckedUnlessSpared`.
- A hit is served from the entry object without a lock while `Store` may be rewriting it in place
  (`cache/cache.go:286`): the status and headers of one answer can go out with the body of another.
- "synchronous on API mutations" (`RULES_ENGINE.md:179`): a reload that listed before the edit may
  install after it; the edit then waits for the next poll. `ReloadedWhenAlone` states what is kept.
- An update of a rule that has been deleted answers success and pushes a rail that nothing removes;
  failed and overtaken pushes are not repeated either (`strained` in `RuleEngine`).
- `cost_daily` and `cost_monthly` conditions (`RULES_ENGINE.md:72`, `USER_GUIDE.md:222`) compare the
  cost of the session, whatever day it was spent on (`rules/conditions.go:229`).
- A rule that does not compile is accepted with 201 and skipped with a log line.
- "sliding-window" (`rules/ratelimiter.go:171`): the bucket starts full, so close to twice the limit
  can pass within a window. `BurstBound` states the bound the code does keep.
- "per-agent or global" (`RULES_ENGINE.md:31`): every key contains the agent, whatever the scope.
- "preventing unbounded map growth" (`rules/ratelimiter.go:95`): a quota bucket is swept only while
  its use is 0, which only a later request makes it.
- "Handle network-level error (no response at all)" (`proxy/handler.go:888`): a provider that answered
  every attempt with 429 or 5xx ends there too, its responses thrown away.
- `USER_GUIDE.md:201` shows a fallback chain of three models; one fallback is ever called.
- The prune of old requests leaves a valid cached agent total as it is (`store/db.go:803`): dashboards that
  connect are told of agents and costs whose rows are gone, until the next request invalidates it.
- A reload of providers and the warm load of memories do not look at `rows.Err()` (`providers/store.go:355`,
  `memory/memory.go:297`): a query that breaks off installs the part that was read.
- After a warm load the LRU list is in reverse: the row used last is evicted first.
- "The WS broadcast fires AFTER the write so a dashboard refresh immediately after will find the row"
  (`proxy/handler.go:1026`): an insert that failed is broadcast all the same.

Of sessions:

- "hard cap" (`tracker/session.go:32`): `RestoreSession` ignores it, so a restart can exceed it.
- The restore stamps every session as used just now, in the order of the query (last used first): the
  session used last becomes the oldest and is evicted first, and long idle ones live on.
- A restart adds to a session's total what its cache hits saved and its blocked requests would have cost,
  which the table records as cost (`main.go:123`). `SpendMatchesTable` accounts for it.
- A session evicted at the cap starts again at zero while its row keeps the total.
- Nothing waits for the persist goroutines at shutdown; `StopLosesFew` bounds what that loses.

Of the memory:

- "it may be updated rather than duplicated" (`memory/memory.go:487`): the first similar fact decides, not
  the most similar, so an update can create a near duplicate of a third; so can two stores at once.
- A store that crosses a flush or a deletion leaves an entry without a row; it is lost at the next start.
- An evicted row whose detached `DELETE` fails comes back at the next start.
- "most recent first" (`ListByAgent`): after a warm load it is oldest first.
- `HandleAdd` answers "stored" for a fact that was skipped as a duplicate.
- Two updates of one entry can reach the list and the table in different orders.

Of the management API:

- "Invalidate cache so revoked key is rejected immediately" (`auth/api.go:151`): a validation begun before
  re-enters the key, which then passes for the TTL; an expired key passes for the TTL as well.
- Crossing reloads of providers or prices can leave the older list installed, and nothing polls. A reset
  of prices that finds a row, or cannot count, does not reload.
- A recency weight of 0 is accepted by `validateSettings`, ignored by the memory store
  (`memory/memory.go:327`) and forgotten by a restart; a conflict threshold from 0.95 up is accepted and
  ignored in the same way.
- A blank base URL keeps the live value but is saved blank. A key of at most 8 characters is masked
  without the dots that mark a mask, so sending the page back overwrites the key with it.
- A change of the embedding provider or model, without a new key, rebuilds nothing (`main.go:477`).
- Two PUTs at once can save the older and leave components with different settings; the callback reads the
  configuration without its lock.

Of the vector store:

- `ON CONFLICT` keeps the old `created_at`: a vector stored again counts as old after a restart.
- The limit on vectors is ignored on Postgres.
- `HandleFlush` returns on a database error before it reaches the semantic cache.
- After a rebuild, goroutines that still use the old store write its rows and delete what it evicts.

## Not modelled, and why

Statistics and metrics (nothing reads them), hashing and JSON (a request is its hash), the HTTP and
SQL drivers (a call may fail or be lost), rendering, regular expressions, and external services,
whose verdicts are inputs. Streaming of upstream bodies is not modelled: `OneOpenBody` follows a
response only until the handler has replied. Real-time starvation of the debounce timer, by
requests less than 500 ms apart for as long as they last, is outside a model whose timer is fair.

A change of the embedding's dimensions, the environment's embedding key, the base URL of the embedding
service, prompt versions, token counts, the arithmetic of costs, and similarity between texts are left
out of the modules that could have them: the first three are further fields of the same kind, the others
pure functions. The fallback table's CRUD and the other tables without state beside them are plain SQL.
The stores of `MCAdmin` meet the request pipeline only as inputs of it: which key, route and price a
request finds is a choice there.

## Plan

Every component with state of its own has its module, and every safety property its proof. What is left:

1. Abstract specifications of more components, with the refinement proved: a session's ledger (charge and
   record, in any order), an append-only memory of facts per agent.
2. Type correctness as theorems for the modules whose proofs only have the parts they need.
3. Rule edits together with the limiter's buckets, which keep the numbers they were created with.
