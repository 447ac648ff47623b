---------------------------- MODULE ResponseCache ----------------------------
(***************************************************************************)
(* The exact-match response cache: cache/cache.go, the handler steps that   *)
(* call it (proxy/handler.go) and its table (store/db.go).                  *)
(*                                                                          *)
(* Request goroutines look a hash up, go upstream on a miss and store the   *)
(* answer.  The map and the LRU list live under one mutex, but a lookup is  *)
(* three critical sections, the object it found is read with no lock held,  *)
(* and Store rewrites that object in place.  Rows are written by detached   *)
(* goroutines, so they land late, in any order, or not at all.              *)
(***************************************************************************)
EXTENDS Integers, FiniteSets, Sequences, Functions

CONSTANTS
    Hash,         \* request hashes
    Resp,         \* upstream answers
    Client,       \* request goroutines
    Ref,          \* addresses of CacheEntry objects
    Nil,          \* no address, no hash, no answer
    HasDB,        \* rc.db # nil (main.go always gives one, the tests do not)
    MaxEntries,   \* cfg.CacheMaxEntries
    TTL,          \* cfg.CacheTTLMinutes, in clock ticks
    MaxNow,       \* bound: clock ticks
    MaxJobs,      \* bound: row writers that have not run yet
    MaxFlushes,   \* bound: calls of Flush
    MaxRestarts   \* bound: process restarts

ASSUME CacheConstants ==
    /\ Nil \notin Hash \cup Resp \cup Ref
    /\ HasDB \in BOOLEAN
    /\ MaxEntries \in Nat \ {0} /\ TTL \in Nat /\ MaxNow \in Nat
    /\ MaxFlushes \in Nat /\ MaxRestarts \in Nat

\* Memory holds a full cache.
ASSUME RefsSuffice ==
    \A keys \in SUBSET Hash : Cardinality(keys) <= MaxEntries => Injection(keys, Ref) # {}

VARIABLES
    now,         \* time.Now()
    entries,     \* rc.entries: hash -> address
    lru,         \* rc.lruOrder, front first; rc.lruMap is its index
    heap,        \* the CacheEntry objects
    req,         \* request goroutines
    persisting,  \* persistToDB goroutines, by the object they were given
    bumping,     \* IncrementCacheHit goroutines, by hash
    db,          \* the response_cache table
    flush,       \* where a running Flush stands
    janitor,     \* where cleanupLoop stands
    epoch,       \* Flush calls that have cleared the map (history)
    flushed,     \* epoch of the last Flush call that returned (history)
    restarts

memory  == <<entries, lru, heap>>
history == <<epoch, flushed, restarts>>
vars == <<now, memory, req, persisting, bumping, db, flush, janitor, history>>

Time   == 0 .. MaxNow + TTL
\* `used` (last Store or hit) and `epoch` are history, not fields of the code.
Object == [hash : Hash, resp : Resp, exp : Time, used : Time, epoch : 0 .. MaxFlushes]
Blank  == [hash |-> Nil, resp |-> Nil, exp |-> 0, used |-> 0, epoch |-> 0]
Row    == [resp : Resp, exp : Time, acc : Time, epoch : 0 .. MaxFlushes]

PC == {"idle", "found", "expired", "live", "head", "body", "miss", "answered"}
Request == [pc : PC, hash : Hash \cup {Nil}, ref : Ref \cup {Nil},
            resp : Resp \cup {Nil}, exp : Time, since : 0 .. MaxFlushes]
Idle == [pc |-> "idle", hash |-> Nil, ref |-> Nil, resp |-> Nil, exp |-> 0, since |-> 0]

TypeOK ==
    /\ now \in 0 .. MaxNow
    /\ entries \in [DOMAIN entries -> Ref] /\ DOMAIN entries \subseteq Hash
    /\ lru \in Seq(Hash)
    /\ heap \in [Ref -> Object \cup {Blank}]
    /\ req \in [Client -> Request]
    /\ persisting \subseteq Ref
    /\ bumping \subseteq Hash
    /\ db \in [DOMAIN db -> Row] /\ DOMAIN db \subseteq Hash
    /\ flush \in {"idle", "rows"} /\ janitor \in {"idle", "rows"}
    /\ epoch \in 0 .. MaxFlushes /\ flushed \in 0 .. MaxFlushes
    /\ restarts \in 0 .. MaxRestarts

Init ==
    /\ now = 0
    /\ entries = [h \in {} |-> Nil] /\ lru = <<>> /\ heap = [r \in Ref |-> Blank]
    /\ req = [c \in Client |-> Idle]
    /\ persisting = {} /\ bumping = {}
    /\ db = [h \in {} |-> Nil]
    /\ flush = "idle" /\ janitor = "idle"
    /\ epoch = 0 /\ flushed = 0 /\ restarts = 0

-----------------------------------------------------------------------------
(* The list and the heap *)

Expired(r) == now > heap[r].exp

\* The orders container/list can be in once only the elements of `keep` are
\* left: the relative order is the old one, so there is exactly one.
Keeping(s, keep) ==
    { l \in [1 .. Cardinality(keep) -> keep] :
        /\ \A h \in keep : \E i \in DOMAIN l : l[i] = h
        /\ \A i, j \in DOMAIN l : i < j =>
              \E m, n \in DOMAIN s : m < n /\ s[m] = l[i] /\ s[n] = l[j] }

\* Go's collector (external): an object nothing refers to carries no state.
InUse == Range(entries) \cup persisting \cup { req[c].ref : c \in Client }
Collect(objects) ==
    heap' = [r \in Ref |-> IF r \in InUse' THEN objects[r] ELSE Blank]

\* delete(rc.entries), lruOrder.Remove and delete(rc.lruMap) for all but `keep`.
Retain(keep) ==
    /\ entries' = Restrict(entries, keep)
    /\ lru' \in Keeping(lru, keep)

MoveToFront(h) ==
    \E l \in Keeping(lru, DOMAIN entries \ {h}) : lru' = <<h>> \o l

-----------------------------------------------------------------------------
(* A request: the cache's part of handleRequest *)

\* The map read of Lookup, under RLock.  (A request made while rc.enabled is
\* false never gets here and touches no state of the cache.)
LookupRead(c, h) ==
    /\ req[c].pc = "idle"
    /\ req' = [req EXCEPT ![c] =
         [pc |-> IF h \in DOMAIN entries THEN "found" ELSE "miss",
          ref |-> IF h \in DOMAIN entries THEN entries[h] ELSE Nil,
          hash |-> h, resp |-> Nil, exp |-> 0, since |-> flushed]]
    /\ UNCHANGED <<now, memory, persisting, bumping, db, flush, janitor, history>>

\* The expiry test, with no lock held.
LookupCheck(c) ==
    /\ req[c].pc = "found"
    /\ req' = [req EXCEPT ![c].pc = IF Expired(req[c].ref) THEN "expired" ELSE "live"]
    /\ UNCHANGED <<now, memory, persisting, bumping, db, flush, janitor, history>>

LookupDrop_MapOnly(c) ==   \* mutant: the list keeps the hash
    /\ req[c].pc = "expired"
    /\ req' = [req EXCEPT ![c].pc = "miss", ![c].ref = Nil]
    /\ entries' = Restrict(entries, DOMAIN entries \ {req[c].hash})
    /\ UNCHANGED <<lru, persisting>>
    /\ Collect(heap)
    /\ UNCHANGED <<now, bumping, db, flush, janitor, history>>

\* Deletes whatever the map now holds for the hash; nothing is re-checked.
LookupDrop(c) ==
    /\ req[c].pc = "expired"
    /\ req' = [req EXCEPT ![c].pc = "miss", ![c].ref = Nil]
    /\ Retain(DOMAIN entries \ {req[c].hash})
    /\ UNCHANGED persisting
    /\ Collect(heap)
    /\ UNCHANGED <<now, bumping, db, flush, janitor, history>>

\* Promotes the hash if it is still listed, then starts IncrementCacheHit.
LookupPromote(c) ==
    /\ req[c].pc = "live"
    /\ LET h == req[c].hash IN
         /\ IF h \in DOMAIN entries
            THEN /\ MoveToFront(h)
                 /\ heap' = [heap EXCEPT ![entries[h]].used = now]
            ELSE UNCHANGED <<lru, heap>>
         /\ bumping' = IF HasDB THEN bumping \cup {h} ELSE bumping
    /\ req' = [req EXCEPT ![c].pc = "head"]
    /\ UNCHANGED <<now, entries, persisting, db, flush, janitor, history>>

\* handleRequest copies the headers out of the entry ...
ServeHead(c) ==
    /\ req[c].pc = "head"
    /\ req' = [req EXCEPT ![c].pc = "body", ![c].resp = heap[req[c].ref].resp]
    /\ UNCHANGED <<now, memory, persisting, bumping, db, flush, janitor, history>>

\* ... and then writes its body.
ServeBody(c) ==
    /\ req[c].pc = "body"
    /\ req' = [req EXCEPT ![c] = Idle]
    /\ UNCHANGED <<entries, lru, persisting>>
    /\ Collect(heap)
    /\ UNCHANGED <<now, bumping, db, flush, janitor, history>>

\* A 200 answer fixes ExpiresAt before Store is called.
UpstreamOK(c, r) ==
    /\ req[c].pc = "miss"
    /\ req' = [req EXCEPT ![c].pc = "answered", ![c].resp = r, ![c].exp = now + TTL]
    /\ UNCHANGED <<now, memory, persisting, bumping, db, flush, janitor, history>>

\* An error or a status other than 200: nothing is stored.
UpstreamFails(c) ==
    /\ req[c].pc = "miss"
    /\ req' = [req EXCEPT ![c] = Idle]
    /\ UNCHANGED <<now, memory, persisting, bumping, db, flush, janitor, history>>

\* What a store at capacity removes: the back of the list.
evictLRU_Front ==        \* mutant: Front() for Back()
    IF Cardinality(DOMAIN entries) >= MaxEntries /\ lru # <<>> THEN {lru[1]} ELSE {}
evictLRU ==
    IF Cardinality(DOMAIN entries) >= MaxEntries /\ lru # <<>> THEN {lru[Len(lru)]} ELSE {}

\* The whole of Store: update in place or evict and insert, then one persist
\* goroutine for the object the caller allocated (`r`), stored or not.
StoreEntry(c) ==
    /\ req[c].pc = "answered"
    /\ Cardinality(persisting) < MaxJobs /\ InUse \cap Ref # Ref
    /\ LET r == CHOOSE r \in Ref : r \notin InUse
           h == req[c].hash
           e == [hash |-> h, resp |-> req[c].resp, exp |-> req[c].exp,
                 used |-> now, epoch |-> epoch]
       IN   /\ req' = [req EXCEPT ![c] = Idle]
            /\ persisting' = IF HasDB THEN persisting \cup {r} ELSE persisting
            /\ \/ /\ h \in DOMAIN entries
                  /\ MoveToFront(h)
                  /\ UNCHANGED entries
                  /\ Collect([heap EXCEPT ![entries[h]] = e, ![r] = e])
               \/ /\ h \notin DOMAIN entries
                  /\ entries' = [g \in (DOMAIN entries \ evictLRU) \cup {h} |->
                                   IF g = h THEN r ELSE entries[g]]
                  /\ \E l \in Keeping(lru, DOMAIN entries \ evictLRU) : lru' = <<h>> \o l
                  /\ Collect([heap EXCEPT ![r] = e])
    /\ UNCHANGED <<now, bumping, db, flush, janitor, history>>

-----------------------------------------------------------------------------
(* Detached row writers *)

\* persistToDB reads the object when it runs, not when it was started.
PersistRow(r) ==
    /\ r \in persisting
    /\ persisting' = persisting \ {r}
    /\ \/ LET o == heap[r]
              row == [resp |-> o.resp, exp |-> o.exp, acc |-> now, epoch |-> o.epoch]
          IN db' = [h \in DOMAIN db \cup {o.hash} |-> IF h = o.hash THEN row ELSE db[h]]
       \/ UNCHANGED db               \* the statement failed: logged at most
    /\ UNCHANGED <<entries, lru, req>>
    /\ Collect(heap)
    /\ UNCHANGED <<now, bumping, flush, janitor, history>>

BumpRow(h) ==
    /\ h \in bumping
    /\ bumping' = bumping \ {h}
    /\ \/ db' = [g \in DOMAIN db |-> IF g = h THEN [db[g] EXCEPT !.acc = now] ELSE db[g]]
       \/ UNCHANGED db
    /\ UNCHANGED <<now, memory, req, persisting, flush, janitor, history>>

-----------------------------------------------------------------------------
(* Operator and background work *)

FlushMemory_RowsOnly ==   \* mutant: the map is not cleared
    /\ flush = "idle" /\ epoch < MaxFlushes
    /\ epoch' = epoch + 1
    /\ IF HasDB THEN flush' = "rows" /\ UNCHANGED flushed
                ELSE flushed' = epoch' /\ UNCHANGED flush
    /\ UNCHANGED <<now, memory, req, persisting, bumping, db, janitor, restarts>>

FlushMemory ==
    /\ flush = "idle" /\ epoch < MaxFlushes
    /\ epoch' = epoch + 1
    /\ IF HasDB THEN flush' = "rows" /\ UNCHANGED flushed
                ELSE flushed' = epoch' /\ UNCHANGED flush
    /\ Retain({})
    /\ UNCHANGED <<req, persisting>>
    /\ Collect(heap)
    /\ UNCHANGED <<now, bumping, db, janitor, restarts>>

FlushRows ==
    /\ flush = "rows"
    /\ flush' = "idle"
    /\ \/ db' = Restrict(db, {}) /\ flushed' = epoch
       \/ UNCHANGED <<db, flushed>>      \* FlushCache failed and so does Flush
    /\ UNCHANGED <<now, memory, req, persisting, bumping, janitor, epoch, restarts>>

\* evictExpired, one critical section ...
CleanMemory ==
    /\ janitor = "idle"
    /\ \E h \in DOMAIN entries : Expired(entries[h])
    /\ janitor' = IF HasDB THEN "rows" ELSE "idle"
    /\ Retain({h \in DOMAIN entries : ~Expired(entries[h])})
    /\ UNCHANGED <<req, persisting>>
    /\ Collect(heap)
    /\ UNCHANGED <<now, bumping, db, flush, history>>

\* ... then PruneExpiredCache.
CleanRows ==
    /\ HasDB
    /\ \/ janitor = "rows"
       \/ janitor = "idle" /\ \A h \in DOMAIN entries : ~Expired(entries[h])
    /\ janitor' = "idle"
    /\ db' = Restrict(db, {h \in DOMAIN db : db[h].exp >= now}) \/ UNCHANGED db
    /\ UNCHANGED <<now, memory, req, persisting, bumping, flush, history>>

Tick ==
    /\ now < MaxNow
    /\ now' = now + 1
    /\ UNCHANGED <<memory, req, persisting, bumping, db, flush, janitor, history>>

HotRows_NoLimit(limit) ==   \* mutant: the query has no LIMIT
    LET hot == {h \in DOMAIN db : db[h].exp > now}
    IN { l \in [1 .. Cardinality(hot) -> hot] : IsInjective(l) }

\* LoadHotCacheEntries: the rows it may return, in the order it returns them.
HotRows(limit) ==
    LET hot == {h \in DOMAIN db : db[h].exp > now}
        n == IF Cardinality(hot) < limit THEN Cardinality(hot) ELSE limit
    IN { l \in [1 .. n -> hot] :
           /\ \A i, j \in 1 .. n : i < j => l[i] # l[j] /\ db[l[i]].acc >= db[l[j]].acc
           /\ \A h \in hot : (\A i \in 1 .. n : l[i] # h) =>
                 \A i \in 1 .. n : db[l[i]].acc >= db[h].acc }

\* What warmLoad gets: nothing if the query fails.
WarmRows == HotRows(MaxEntries) \cup {<<>>}

\* A crash or a shutdown (which waits for no row writer), then NewResponseCache:
\* warmLoad pushes each row to the front, in row order.
Restart ==
    /\ restarts < MaxRestarts
    /\ restarts' = restarts + 1
    /\ req' = [c \in Client |-> Idle]
    /\ persisting' = {} /\ bumping' = {} /\ flush' = "idle" /\ janitor' = "idle"
    /\ \E rows \in WarmRows :
         /\ lru' = [i \in DOMAIN rows |-> rows[Len(rows) + 1 - i]]
         /\ LET at == CHOOSE f \in Injection(Range(rows), Ref) : TRUE IN
              /\ entries' = at
              /\ Collect([r \in Ref |-> IF \E h \in Range(rows) : at[h] = r
                            THEN LET h == CHOOSE h \in Range(rows) : at[h] = r
                                 IN [hash |-> h, resp |-> db[h].resp, exp |-> db[h].exp,
                                     used |-> db[h].acc, epoch |-> db[h].epoch]
                            ELSE Blank])
    /\ UNCHANGED <<now, db, epoch, flushed>>

RequestStep ==
    \E c \in Client :
        \/ \E h \in Hash : LookupRead(c, h)
        \/ LookupCheck(c) \/ LookupDrop(c) \/ LookupPromote(c)
        \/ ServeHead(c) \/ ServeBody(c)
        \/ \E r \in Resp : UpstreamOK(c, r)
        \/ UpstreamFails(c) \/ StoreEntry(c)
WriterStep == (\E r \in Ref : PersistRow(r)) \/ (\E h \in Hash : BumpRow(h))
Background == FlushMemory \/ FlushRows \/ CleanMemory \/ CleanRows \/ Tick

\* One incarnation of the process, and the process with restarts.
Up == RequestStep \/ WriterStep \/ Background
Next == Up \/ Restart

SpecUp == Init /\ [][Up]_vars
Spec == Init /\ [][Next]_vars

-----------------------------------------------------------------------------
(* Properties *)

\* The map, the LRU list and its index stay one structure whatever the
\* lookups, stores, sweeps and flushes interleave to: the list names exactly
\* the keys of the map, each once, and every object sits under its own hash.
\* A lookup that deletes what it did not look at, or a sweep that forgets the
\* list, leaves a key that eviction can never reach.
ListMatchesMap ==
    /\ Range(lru) = DOMAIN entries
    /\ Len(lru) = Cardinality(DOMAIN entries)
    /\ \A h \in DOMAIN entries : heap[entries[h]] # Blank /\ heap[entries[h]].hash = h
    /\ IsInjective(entries)

\* The cache never holds more than CacheMaxEntries answers, also after a
\* warm load and with many stores racing.
Bounded == Cardinality(DOMAIN entries) <= MaxEntries

\* A request that began after a Flush returned is never answered with
\* something stored before that Flush cleared the map.
NoHitFromBeforeFlush ==
    \A c \in Client : req[c].pc \in {"head", "body"} =>
        heap[req[c].ref].epoch >= req[c].since

\* "Evicts the LRU entry if at capacity" (cache.go:280): when a store pushes
\* a live entry out, no entry that stays was used longer ago.
Evicted == DOMAIN entries \ DOMAIN entries'
EvictsLRU ==
    [][(\E c \in Client : StoreEntry(c)) =>
         \A h \in Evicted : \A g \in DOMAIN entries \cap DOMAIN entries' :
             heap[entries[h]].used <= heap[entries[g]].used]_vars
=============================================================================
