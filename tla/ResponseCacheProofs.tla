------------------------- MODULE ResponseCacheProofs -------------------------
(* Theorems about ResponseCache, for every number of hashes, clients and      *)
(* objects, every capacity and every TTL.                                     *)
EXTENDS ResponseCache, FiniteSetTheorems, TLAPS

-----------------------------------------------------------------------------
(* Type correctness *)

\* An object something refers to is a real one, and a request past its map
\* read knows its hash (and its object, its answer).
Sound ==
    /\ TypeOK
    /\ \A r \in InUse \cap Ref : heap[r] \in Object
    /\ \A c \in Client :
         /\ req[c].pc # "idle" => req[c].hash \in Hash
         /\ req[c].pc \in {"found", "expired", "live", "head", "body"} => req[c].ref \in Ref
         /\ req[c].pc = "answered" => req[c].resp \in Resp

LEMMA InitSound == Init => Sound
<1>1. SUFFICES ASSUME Init PROVE Sound
  OBVIOUS
<1>2. TypeOK
  BY <1>1, CacheConstants DEF Init, TypeOK, Request, Idle, PC, Time, Object, Blank, Row
<1>3. InUse \cap Ref = {}
  BY <1>1, CacheConstants DEF Init, InUse, Idle, Range
<1>4. QED BY <1>1, <1>2, <1>3 DEF Init, Sound, Idle

\* A collection leaves the objects in use alone.
LEMMA CollectKeeps ==
  ASSUME NEW objects \in [Ref -> Object \cup {Blank}], Collect(objects),
         \A r \in InUse' \cap Ref : objects[r] \in Object
  PROVE  /\ heap' \in [Ref -> Object \cup {Blank}]
         /\ \A r \in InUse' \cap Ref : heap'[r] = objects[r] /\ heap'[r] \in Object
  BY DEF Collect

\* An order of some keys is a sequence of exactly those keys.
LEMMA KeepingIsOrder ==
  ASSUME NEW s, NEW keep, IsFiniteSet(keep), NEW l \in Keeping(s, keep)
  PROVE  l \in Seq(keep) /\ Len(l) = Cardinality(keep) /\ Range(l) = keep
<1>1. Cardinality(keep) \in Nat
  BY FS_CardinalityType
<1>2. l \in [1 .. Cardinality(keep) -> keep] /\ \A h \in keep : \E i \in DOMAIN l : l[i] = h
  BY DEF Keeping
<1>3. QED BY <1>1, <1>2 DEF Range

-----------------------------------------------------------------------------
(* The map and its list: one structure, never above capacity *)

Shape ==
    /\ IsFiniteSet(DOMAIN entries) /\ IsFiniteSet(DOMAIN db)
    /\ lru \in Seq(DOMAIN entries)
    /\ Range(lru) = DOMAIN entries
    /\ Len(lru) = Cardinality(DOMAIN entries)
    /\ Bounded

LEMMA InitShape == Init => Shape
<1>1. SUFFICES ASSUME Init PROVE Shape
  OBVIOUS
<1>2. DOMAIN entries = {} /\ DOMAIN db = {} /\ lru = <<>>
  BY <1>1 DEF Init
<1>3. QED BY <1>2, FS_EmptySet, CacheConstants DEF Shape, Bounded, Range

\* Deleting keys from the map and the list together.
LEMMA RetainKeepsShape ==
  ASSUME Shape, NEW keep \in SUBSET DOMAIN entries, Retain(keep), IsFiniteSet(DOMAIN db')
  PROVE  Shape'
<1>1. IsFiniteSet(keep) /\ Cardinality(keep) <= Cardinality(DOMAIN entries)
  BY FS_Subset DEF Shape
<1>2. Cardinality(keep) \in Nat /\ Cardinality(DOMAIN entries) \in Nat
  BY <1>1, FS_CardinalityType DEF Shape
<1>3. DOMAIN entries' = keep /\ lru' \in Keeping(lru, keep)
  BY DEF Retain, Restrict
<1>4. lru' \in Seq(keep) /\ Len(lru') = Cardinality(keep) /\ Range(lru') = keep
  BY <1>1, <1>3, KeepingIsOrder
<1>5. Cardinality(keep) <= MaxEntries
  BY <1>1, <1>2, CacheConstants DEF Shape, Bounded
<1>6. QED BY <1>1, <1>3, <1>4, <1>5 DEF Shape, Bounded

\* Putting a key in front of an order of the others.
LEMMA PushFront ==
  ASSUME NEW keys, IsFiniteSet(keys), NEW h, h \notin keys, NEW s, NEW l \in Keeping(s, keys)
  PROVE  /\ <<h>> \o l \in Seq(keys \cup {h})
         /\ Range(<<h>> \o l) = keys \cup {h}
         /\ Len(<<h>> \o l) = Cardinality(keys \cup {h})
<1>1. l \in Seq(keys) /\ Len(l) = Cardinality(keys) /\ Range(l) = keys
  BY KeepingIsOrder
<1>2. Cardinality(keys \cup {h}) = Cardinality(keys) + 1 /\ Cardinality(keys) \in Nat
  BY FS_AddElement, FS_CardinalityType
<1>3. <<h>> \in Seq({h}) /\ Len(<<h>>) = 1 /\ <<h>>[1] = h
  OBVIOUS
<1>4. /\ <<h>> \o l \in Seq(keys \cup {h})
      /\ Len(<<h>> \o l) = Len(l) + 1
      /\ \A i \in 1 .. Len(l) + 1 : (<<h>> \o l)[i] = IF i = 1 THEN h ELSE l[i - 1]
  BY <1>1, <1>3
<1>5. \A i \in 1 .. Len(l) : (<<h>> \o l)[i + 1] = l[i]
  BY <1>1, <1>2, <1>4
<1>6. Range(<<h>> \o l) = keys \cup {h}
  <2> DEFINE q == <<h>> \o l
  <2>1. DOMAIN q = 1 .. Len(l) + 1 /\ DOMAIN l = 1 .. Len(l) /\ Len(l) \in Nat
    BY <1>1, <1>2, <1>4
  <2>2. ASSUME NEW i \in DOMAIN q PROVE q[i] \in keys \cup {h}
    BY <1>4
  <2>3. q[1] = h /\ 1 \in DOMAIN q
    BY <1>4, <2>1
  <2>4. ASSUME NEW k \in keys PROVE \E i \in DOMAIN q : q[i] = k
    <3>1. PICK i \in DOMAIN l : l[i] = k
      BY <1>1 DEF Range
    <3>2. i + 1 \in DOMAIN q /\ q[i + 1] = k
      BY <1>5, <2>1, <3>1
    <3>3. QED BY <3>2
  <2> HIDE DEF q
  <2>5. Range(q) = keys \cup {h}
    BY <2>2, <2>3, <2>4 DEF Range
  <2>6. QED BY <2>5 DEF q
<1>7. QED BY <1>1, <1>2, <1>4, <1>6

LEMMA MoveToFrontKeepsShape ==
  ASSUME Shape, NEW h \in DOMAIN entries, MoveToFront(h), entries' = entries, db' = db
  PROVE  Shape'
<1> DEFINE keys == DOMAIN entries \ {h}
<1>1. PICK l \in Keeping(lru, keys) : lru' = <<h>> \o l
  BY DEF MoveToFront
<1>2. IsFiniteSet(keys) /\ keys \cup {h} = DOMAIN entries /\ h \notin keys
  BY FS_RemoveElement DEF Shape
<1> HIDE DEF keys
<1>3. lru' \in Seq(keys \cup {h}) /\ Range(lru') = keys \cup {h}
      /\ Len(lru') = Cardinality(keys \cup {h})
  BY <1>1, <1>2, PushFront
<1>4. QED BY <1>2, <1>3 DEF Shape, Bounded

\* A store evicts before it inserts, and the list is never empty at capacity.
LEMMA StoreKeepsShape ==
  ASSUME Shape, NEW c \in Client, StoreEntry(c)
  PROVE  Shape'
<1> DEFINE h == req[c].hash
           victim == evictLRU
           keys == DOMAIN entries \ victim
<1>0. db' = db
  BY DEF StoreEntry
<1>1. CASE h \in DOMAIN entries
  <2>1. MoveToFront(h) /\ entries' = entries
    BY <1>1 DEF StoreEntry
  <2>2. QED BY <1>0, <1>1, <2>1, MoveToFrontKeepsShape
<1>2. CASE h \notin DOMAIN entries
  <2>1. DOMAIN entries' = keys \cup {h} /\ \E l \in Keeping(lru, keys) : lru' = <<h>> \o l
    BY <1>2 DEF StoreEntry
  <2>2. PICK l \in Keeping(lru, keys) : lru' = <<h>> \o l
    BY <2>1
  <2>3. Cardinality(DOMAIN entries) \in Nat
    BY FS_CardinalityType DEF Shape
  <2>4. IsFiniteSet(keys) /\ Cardinality(keys) \in Nat /\ Cardinality(keys) + 1 <= MaxEntries
    <3>1. CASE Cardinality(DOMAIN entries) < MaxEntries
      <4>1. victim = {}
        BY <2>3, <3>1, CacheConstants DEF evictLRU
      <4>2. keys = DOMAIN entries
        BY <4>1
      <4> HIDE DEF keys, victim
      <4>3. QED BY <2>3, <3>1, <4>2, CacheConstants DEF Shape
    <3>2. CASE ~(Cardinality(DOMAIN entries) < MaxEntries)
      <4>1. Len(lru) = Cardinality(DOMAIN entries) /\ Len(lru) >= 1 /\ lru \in Seq(DOMAIN entries)
        BY <2>3, <3>2, CacheConstants DEF Shape
      <4>2. lru # <<>> /\ lru[Len(lru)] \in DOMAIN entries
        BY <4>1
      <4>3. victim = {lru[Len(lru)]}
        BY <2>3, <3>2, <4>2, CacheConstants DEF evictLRU
      <4>4. IsFiniteSet(DOMAIN entries)
        BY DEF Shape
      <4> DEFINE last == lru[Len(lru)]
      <4>5. keys = DOMAIN entries \ {last}
        BY <4>3
      <4> HIDE DEF last, keys, victim
      <4>6. IsFiniteSet(keys) /\ Cardinality(keys) = Cardinality(DOMAIN entries) - 1
        BY <4>2, <4>4, <4>5, FS_RemoveElement DEF last
      <4>7. Cardinality(DOMAIN entries) <= MaxEntries
        BY DEF Shape, Bounded
      <4>8. QED BY <2>3, <4>1, <4>6, <4>7, CacheConstants
    <3>3. QED BY <3>1, <3>2
  <2>5. h \notin keys
    BY <1>2
  <2> HIDE DEF keys, h
  <2>6. lru' \in Seq(keys \cup {h}) /\ Range(lru') = keys \cup {h}
        /\ Len(lru') = Cardinality(keys \cup {h})
    BY <2>2, <2>4, <2>5, PushFront
  <2>7. IsFiniteSet(keys \cup {h}) /\ Cardinality(keys \cup {h}) = Cardinality(keys) + 1
    BY <2>4, <2>5, FS_AddElement
  <2>8. QED BY <1>0, <2>1, <2>4, <2>6, <2>7 DEF Shape, Bounded
<1>3. QED BY <1>1, <1>2

\* A warm load takes distinct rows, at most as many as the capacity.
LEMMA HotRowsAreDistinct ==
  ASSUME NEW rows \in HotRows(MaxEntries), IsFiniteSet(DOMAIN db)
  PROVE  \E n \in Nat :
           /\ n <= MaxEntries /\ DOMAIN rows = 1 .. n /\ Len(rows) = n
           /\ rows \in [1 .. n -> DOMAIN db]
           /\ IsFiniteSet(Range(rows)) /\ Cardinality(Range(rows)) = n
<1> DEFINE hot == {h \in DOMAIN db : db[h].exp > now}
           n == IF Cardinality(hot) < MaxEntries THEN Cardinality(hot) ELSE MaxEntries
<1>1. Cardinality(hot) \in Nat
  <2>1. hot \in SUBSET DOMAIN db
    OBVIOUS
  <2>2. QED BY <2>1, FS_Subset, FS_CardinalityType
<1>2. n \in Nat /\ n <= MaxEntries
  BY <1>1, CacheConstants
<1>3. rows \in [1 .. n -> hot] /\ \A i, j \in 1 .. n : i < j => rows[i] # rows[j]
  BY DEF HotRows
<1>4. rows \in [1 .. n -> DOMAIN db] /\ \A i, j \in 1 .. n : i < j => rows[i] # rows[j]
  BY <1>3
<1> HIDE DEF n, hot
<1> DEFINE keys == Range(rows)
<1>5. Len(rows) = n /\ DOMAIN rows = 1 .. n /\ \A i \in 1 .. n : rows[i] \in keys
  BY <1>2, <1>4 DEF Range
<1>6. rows \in Bijection(1 .. n, keys)
  <2>1. \A i, j \in 1 .. n : rows[i] = rows[j] => i = j
    BY <1>2, <1>4
  <2>2. rows \in [1 .. n -> keys]
    BY <1>4, <1>5
  <2>3. \A k \in keys : \E i \in 1 .. n : rows[i] = k
    BY <1>5 DEF Range
  <2>4. QED BY <1>5, <2>1, <2>2, <2>3 DEF Bijection, Injection, Surjection, IsInjective
<1>7. IsFiniteSet(keys) /\ Cardinality(keys) = n
  <2>1. IsFiniteSet(1 .. n) /\ Cardinality(1 .. n) = n
    BY <1>2, FS_Interval
  <2>2. ExistsBijection(1 .. n, keys)
    BY <1>6 DEF ExistsBijection
  <2> HIDE DEF keys
  <2>3. QED BY <2>1, <2>2, FS_Bijection
<1>8. QED BY <1>2, <1>4, <1>5, <1>7

LEMMA WarmRowsAreDistinct ==
  ASSUME NEW rows \in WarmRows, IsFiniteSet(DOMAIN db)
  PROVE  \E n \in Nat :
           /\ n <= MaxEntries /\ DOMAIN rows = 1 .. n /\ Len(rows) = n
           /\ rows \in [1 .. n -> DOMAIN db]
           /\ IsFiniteSet(Range(rows)) /\ Cardinality(Range(rows)) = n
<1>1. CASE rows \in HotRows(MaxEntries)
  BY <1>1, HotRowsAreDistinct
<1>2. CASE rows = <<>>
  <2>1. DOMAIN rows = 1 .. 0 /\ Len(rows) = 0 /\ rows \in [1 .. 0 -> DOMAIN db]
    BY <1>2
  <2>2. Range(rows) = {}
    BY <2>1 DEF Range
  <2>3. QED BY <2>1, <2>2, FS_EmptySet, CacheConstants
<1>3. QED BY <1>1, <1>2 DEF WarmRows

\* They fit into memory, one object each.
LEMMA RestartAllocates ==
  ASSUME NEW rows \in WarmRows, IsFiniteSet(DOMAIN db), DOMAIN db \subseteq Hash
  PROVE  (CHOOSE f \in Injection(Range(rows), Ref) : TRUE) \in Injection(Range(rows), Ref)
<1>1. Cardinality(Range(rows)) <= MaxEntries /\ Range(rows) \in SUBSET Hash
  BY WarmRowsAreDistinct DEF Range
<1>2. QED BY <1>1, RefsSuffice

\* A warm load lists each loaded row once, and loads no more than the capacity.
LEMMA RestartKeepsShape ==
  ASSUME Shape, Restart, DOMAIN db \subseteq Hash
  PROVE  Shape'
<1>1. PICK rows \in WarmRows :
        /\ lru' = [i \in DOMAIN rows |-> rows[Len(rows) + 1 - i]]
        /\ entries' = CHOOSE f \in Injection(Range(rows), Ref) : TRUE
        /\ db' = db
  BY DEF Restart
<1>2. PICK n \in Nat :
        /\ n <= MaxEntries /\ DOMAIN rows = 1 .. n /\ Len(rows) = n
        /\ IsFiniteSet(Range(rows)) /\ Cardinality(Range(rows)) = n
  BY WarmRowsAreDistinct DEF Shape
<1> DEFINE keys == Range(rows)
<1>3. DOMAIN entries' = keys
  BY <1>1, RestartAllocates DEF Shape, Injection
<1>4. lru' \in Seq(keys) /\ Len(lru') = n /\ Range(lru') = keys
  <2>1. lru' \in [1 .. n -> keys] /\ \A i \in 1 .. n : lru'[i] = rows[n + 1 - i]
    <3>1. \A i \in 1 .. n : n + 1 - i \in 1 .. n
      OBVIOUS
    <3>2. QED BY <1>1, <1>2, <3>1 DEF Range
  <2>2. lru' \in Seq(keys) /\ Len(lru') = n
    BY <2>1
  <2>3. ASSUME NEW k \in keys PROVE \E i \in 1 .. n : lru'[i] = k
    <3>1. PICK i \in 1 .. n : rows[i] = k
      BY <1>2 DEF Range
    <3>2. n + 1 - i \in 1 .. n /\ n + 1 - (n + 1 - i) = i
      OBVIOUS
    <3>3. QED BY <2>1, <3>1, <3>2
  <2> HIDE DEF keys
  <2>4. QED BY <2>1, <2>2, <2>3 DEF Range
<1>5. QED BY <1>1, <1>2, <1>3, <1>4 DEF Shape, Bounded

-----------------------------------------------------------------------------
(* Every step keeps Sound *)

\* What a request at control point q.pc must know.
Knows(q) ==
    /\ q.pc # "idle" => q.hash \in Hash
    /\ q.pc \in {"found", "expired", "live", "head", "body"} => q.ref \in Ref
    /\ q.pc = "answered" => q.resp \in Resp

\* Steps that move one request on without touching the shared structures.
LEMMA RequestKeepsSound ==
  ASSUME Sound, NEW c \in Client, NEW q \in Request, req' = [req EXCEPT ![c] = q],
         q.ref \in InUse \cup {Nil}, Knows(q),
         UNCHANGED <<now, memory, persisting, bumping, db, flush, janitor, history>>
  PROVE  Sound'
<1>1. req' \in [Client -> Request]
  BY DEF Sound, TypeOK
<1>2. TypeOK'
  BY <1>1 DEF Sound, TypeOK, memory, history
<1>3. InUse' \cap Ref \subseteq InUse
  BY CacheConstants DEF InUse, memory, Sound, TypeOK
<1>4. \A d \in Client : req'[d] = IF d = c THEN q ELSE req[d]
  BY DEF Sound, TypeOK
<1>5. QED BY <1>2, <1>3, <1>4 DEF Sound, Knows, memory

LEMMA LookupReadKeepsSound ==
  ASSUME Sound, NEW c \in Client, NEW h \in Hash, LookupRead(c, h) PROVE Sound'
<1> DEFINE at == IF h \in DOMAIN entries THEN "found" ELSE "miss"
           ref == IF h \in DOMAIN entries THEN entries[h] ELSE Nil
           q == [pc |-> at, ref |-> ref, hash |-> h, resp |-> Nil, exp |-> 0, since |-> flushed]
<1>1. req' = [req EXCEPT ![c] = q]
      /\ UNCHANGED <<now, memory, persisting, bumping, db, flush, janitor, history>>
  BY DEF LookupRead
<1>2. h \in DOMAIN entries => entries[h] \in Ref /\ entries[h] \in InUse
  BY DEF Sound, TypeOK, InUse, Range
<1>3. q \in Request /\ Knows(q) /\ q.ref \in InUse \cup {Nil}
  <2>0. at \in PC /\ ref \in InUse \cup {Nil} /\ ref \in Ref \cup {Nil}
        /\ ((at = "found" /\ ref \in Ref) \/ at = "miss")
    BY <1>2 DEF PC
  <2> HIDE DEF at, ref
  <2>2. 0 \in Time /\ flushed \in 0 .. MaxFlushes
    BY CacheConstants DEF Time, Sound, TypeOK
  <2>3. q \in Request
    BY <2>0, <2>2 DEF Request
  <2>4. QED BY <2>0, <2>3 DEF Knows
<1> HIDE DEF q
<1>4. QED BY <1>1, <1>3, RequestKeepsSound

LEMMA LocalStepsKeepSound ==
  ASSUME Sound, NEW c \in Client,
         LookupCheck(c) \/ ServeHead(c) \/ UpstreamFails(c) \/ \E r \in Resp : UpstreamOK(c, r)
  PROVE  Sound'
<1> DEFINE Moves(q) == req' = [req EXCEPT ![c] = q]
             /\ UNCHANGED <<now, memory, persisting, bumping, db, flush, janitor, history>>
<1>1. req[c] \in Request /\ Knows(req[c]) /\ req[c].ref \in InUse
  BY DEF Sound, TypeOK, Knows, InUse
<1>2. CASE LookupCheck(c)
  <2> DEFINE q == [req[c] EXCEPT !.pc = IF Expired(req[c].ref) THEN "expired" ELSE "live"]
  <2>1. Moves(q)
    BY <1>2 DEF LookupCheck, Sound, TypeOK
  <2>2. q \in Request /\ Knows(q) /\ q.ref = req[c].ref
    BY <1>1, <1>2 DEF LookupCheck, Request, PC, Knows
  <2> HIDE DEF q
  <2>3. QED BY <1>1, <2>1, <2>2, RequestKeepsSound
<1>3. CASE ServeHead(c)
  <2> DEFINE q == [req[c] EXCEPT !.pc = "body", !.resp = heap[req[c].ref].resp]
  <2>1. Moves(q)
    BY <1>3 DEF ServeHead, Sound, TypeOK
  <2>2. heap[req[c].ref].resp \in Resp
    BY <1>1, <1>3 DEF ServeHead, Sound, Knows, Object
  <2>3. q \in Request /\ Knows(q) /\ q.ref = req[c].ref
    BY <1>1, <1>3, <2>2 DEF ServeHead, Request, PC, Knows
  <2> HIDE DEF q
  <2>4. QED BY <1>1, <2>1, <2>3, RequestKeepsSound
<1>4. CASE UpstreamFails(c)
  <2>1. Moves(Idle)
    BY <1>4 DEF UpstreamFails
  <2>2. Idle \in Request /\ Knows(Idle) /\ Idle.ref = Nil
    BY CacheConstants DEF Idle, Request, PC, Knows, Time
  <2>3. QED BY <2>1, <2>2, RequestKeepsSound
<1>5. ASSUME NEW r \in Resp, UpstreamOK(c, r) PROVE Sound'
  <2> DEFINE q == [req[c] EXCEPT !.pc = "answered", !.resp = r, !.exp = now + TTL]
  <2>1. Moves(q)
    BY <1>5 DEF UpstreamOK, Sound, TypeOK
  <2>2. now + TTL \in Time
    BY CacheConstants DEF Sound, TypeOK, Time
  <2>3. q \in Request /\ Knows(q) /\ q.ref = req[c].ref
    BY <1>1, <1>5, <2>2 DEF UpstreamOK, Request, PC, Knows
  <2> HIDE DEF q
  <2>4. QED BY <1>1, <2>1, <2>3, RequestKeepsSound
<1>6. QED BY <1>2, <1>3, <1>4, <1>5

\* Sound without the heap, the list and the objects.
Typed ==
    /\ now \in 0 .. MaxNow
    /\ entries \in [DOMAIN entries -> Ref] /\ DOMAIN entries \subseteq Hash
    /\ req \in [Client -> Request] /\ \A c \in Client : Knows(req[c])
    /\ persisting \subseteq Ref /\ bumping \subseteq Hash
    /\ db \in [DOMAIN db -> Row] /\ DOMAIN db \subseteq Hash
    /\ flush \in {"idle", "rows"} /\ janitor \in {"idle", "rows"}
    /\ epoch \in 0 .. MaxFlushes /\ flushed \in 0 .. MaxFlushes
    /\ restarts \in 0 .. MaxRestarts

LEMMA SoundTyped == Sound => Typed
  BY DEF Sound, TypeOK, Typed, Knows

LEMMA SeqOfSubset ==
  ASSUME NEW S, NEW T, S \subseteq T, NEW s \in Seq(S) PROVE s \in Seq(T)
  OBVIOUS

LEMMA TypedSound ==
  ASSUME Typed', Shape', heap' \in [Ref -> Object \cup {Blank}],
         \A r \in InUse' \cap Ref : heap'[r] \in Object
  PROVE  Sound'
<1>1. lru' \in Seq(Hash)
  BY SeqOfSubset DEF Typed, Shape
<1>2. QED BY <1>1 DEF Typed, Sound, TypeOK, Knows

\* Steps that only let go of objects.
LEMMA ReleaseKeepsSound ==
  ASSUME Sound, Typed', Shape', Collect(heap), InUse' \cap Ref \subseteq InUse
  PROVE  Sound'
<1>1. heap \in [Ref -> Object \cup {Blank}] /\ \A r \in InUse' \cap Ref : heap[r] \in Object
  BY DEF Sound, TypeOK
<1>2. QED BY <1>1, CollectKeeps, TypedSound

LEMMA RetainTypes ==
  ASSUME Typed, NEW keep \in SUBSET DOMAIN entries, Retain(keep)
  PROVE  /\ entries' \in [keep -> Ref] /\ DOMAIN entries' = keep
         /\ Range(entries') \subseteq Range(entries)
  BY DEF Retain, Restrict, Range, Typed

LEMMA LookupDropKeepsSound ==
  ASSUME Sound, Shape', NEW c \in Client, LookupDrop(c) PROVE Sound'
<1> DEFINE q == [req[c] EXCEPT !.pc = "miss", !.ref = Nil]
<1>1. Typed /\ req[c] \in Request /\ Knows(req[c])
  BY SoundTyped DEF Typed
<1>2. req' = [req EXCEPT ![c] = q]
  BY <1>1 DEF LookupDrop, Typed
<1>3. q \in Request /\ Knows(q) /\ q.ref = Nil
  BY <1>1 DEF LookupDrop, Request, PC, Knows
<1> HIDE DEF q
<1>4. \A d \in Client : req'[d] = IF d = c THEN q ELSE req[d]
  BY <1>1, <1>2 DEF Typed
<1>5. Typed'
  BY <1>1, <1>2, <1>3, <1>4, RetainTypes DEF LookupDrop, Typed, history
<1>6. InUse' \cap Ref \subseteq InUse
  BY <1>1, <1>3, <1>4, RetainTypes, CacheConstants DEF InUse, LookupDrop
<1>7. QED BY <1>5, <1>6, ReleaseKeepsSound DEF LookupDrop

LEMMA LookupPromoteKeepsSound ==
  ASSUME Sound, Shape', NEW c \in Client, LookupPromote(c) PROVE Sound'
<1> DEFINE h == req[c].hash
           q == [req[c] EXCEPT !.pc = "head"]
<1>1. Typed /\ req[c] \in Request /\ Knows(req[c]) /\ h \in Hash
  BY SoundTyped DEF Typed, LookupPromote, Knows
<1>2. req' = [req EXCEPT ![c] = q]
  BY <1>1 DEF LookupPromote, Typed
<1>3. q \in Request /\ Knows(q) /\ q.ref = req[c].ref
  BY <1>1 DEF LookupPromote, Request, PC, Knows
<1> HIDE DEF q
<1>4. \A d \in Client : req'[d] = IF d = c THEN q ELSE req[d]
  BY <1>1, <1>2 DEF Typed
<1>5. bumping' \subseteq Hash
  BY <1>1 DEF LookupPromote, Typed
<1>6. Typed'
  BY <1>1, <1>2, <1>3, <1>4, <1>5 DEF LookupPromote, Typed, history
<1>7. InUse' = InUse
  BY <1>3, <1>4 DEF InUse, LookupPromote
<1>8. heap' \in [Ref -> Object \cup {Blank}] /\ \A r \in InUse' \cap Ref : heap'[r] \in Object
  <2>1. heap \in [Ref -> Object \cup {Blank}] /\ \A r \in InUse \cap Ref : heap[r] \in Object
    BY DEF Sound, TypeOK
  <2>2. CASE h \in DOMAIN entries
    <3>1. heap' = [heap EXCEPT ![entries[h]].used = now]
      BY <2>2 DEF LookupPromote
    <3>2. entries[h] \in InUse \cap Ref /\ now \in Time
      BY <1>1, <2>2, CacheConstants DEF InUse, Range, Typed, Time
    <3>3. [heap[entries[h]] EXCEPT !.used = now] \in Object
      BY <2>1, <3>2 DEF Object
    <3>4. QED BY <1>7, <2>1, <3>1, <3>2, <3>3
  <2>3. CASE h \notin DOMAIN entries
    BY <1>7, <2>1, <2>3 DEF LookupPromote
  <2>4. QED BY <2>2, <2>3
<1>9. QED BY <1>6, <1>8, TypedSound

LEMMA ServeBodyKeepsSound ==
  ASSUME Sound, Shape', NEW c \in Client, ServeBody(c) PROVE Sound'
<1>1. Typed
  BY SoundTyped
<1>2. Idle \in Request /\ Knows(Idle) /\ Idle.ref = Nil
  BY CacheConstants DEF Idle, Request, PC, Knows, Time
<1>3. req' = [req EXCEPT ![c] = Idle]
  BY DEF ServeBody
<1>4. \A d \in Client : req'[d] = IF d = c THEN Idle ELSE req[d]
  BY <1>1, <1>3 DEF Typed
<1>5. Typed'
  BY <1>1, <1>2, <1>3, <1>4 DEF ServeBody, Typed, history
<1>6. InUse' \cap Ref \subseteq InUse
  BY <1>2, <1>4, CacheConstants DEF InUse, ServeBody
<1>7. QED BY <1>5, <1>6, ReleaseKeepsSound DEF ServeBody

\* The object a store allocates is one nothing else refers to.
LEMMA StoreEntryKeepsSound ==
  ASSUME Sound, Shape', NEW c \in Client, StoreEntry(c) PROVE Sound'
<1> DEFINE h == req[c].hash
           r == CHOOSE x \in Ref : x \notin InUse
           e == [hash |-> h, resp |-> req[c].resp, exp |-> req[c].exp,
                 used |-> now, epoch |-> epoch]
           victim == evictLRU
<1>1. Typed /\ req[c] \in Request /\ Knows(req[c]) /\ req[c].pc = "answered"
  BY SoundTyped DEF Typed, StoreEntry
<1>2. r \in Ref /\ r \notin InUse
  BY DEF StoreEntry
<1>3. h \in Hash /\ e \in Object
  <2>1. now \in Time
    BY <1>1, CacheConstants DEF Typed, Time
  <2>2. QED BY <1>1, <2>1 DEF Typed, Knows, Request, Object
<1>4. Idle \in Request /\ Knows(Idle) /\ Idle.ref = Nil
  BY CacheConstants DEF Idle, Request, PC, Knows, Time
<1>5. req' = [req EXCEPT ![c] = Idle] /\ persisting' \subseteq persisting \cup {r}
      /\ UNCHANGED <<now, bumping, db, flush, janitor, history>>
  BY DEF StoreEntry
<1>6. \A d \in Client : req'[d] = IF d = c THEN Idle ELSE req[d]
  BY <1>1, <1>5 DEF Typed
<1>7. heap \in [Ref -> Object \cup {Blank}] /\ \A x \in InUse \cap Ref : heap[x] \in Object
  BY DEF Sound, TypeOK
<1>8. CASE h \in DOMAIN entries
  <2> DEFINE objects == [heap EXCEPT ![entries[h]] = e, ![r] = e]
  <2>1. entries' = entries /\ Collect(objects)
    BY <1>8 DEF StoreEntry
  <2>2. entries[h] \in Ref
    BY <1>1, <1>8 DEF Typed
  <2> HIDE DEF e, r, h
  <2>3. InUse' \subseteq InUse \cup {r, Nil}
    BY <1>4, <1>5, <1>6, <2>1 DEF InUse
  <2>4. objects \in [Ref -> Object \cup {Blank}]
        /\ \A x \in Ref : objects[x] = IF x = r \/ x = entries[h] THEN e ELSE heap[x]
    BY <1>2, <1>7, <1>3, <2>2
  <2> HIDE DEF objects
  <2>5. \A x \in InUse' \cap Ref : objects[x] \in Object
    BY <1>3, <1>7, <2>3, <2>4, CacheConstants
  <2>6. Typed'
    BY <1>1, <1>2, <1>4, <1>5, <1>6, <2>1 DEF Typed, history
  <2>7. QED BY <2>1, <2>4, <2>5, <2>6, CollectKeeps, TypedSound
<1>9. CASE h \notin DOMAIN entries
  <2> DEFINE objects == [heap EXCEPT ![r] = e]
  <2>1. entries' = [g \in (DOMAIN entries \ victim) \cup {h} |->
                      IF g = h THEN r ELSE entries[g]] /\ Collect(objects)
    BY <1>9 DEF StoreEntry
  <2> HIDE DEF e, r, h, victim
  <2>2. entries' \in [DOMAIN entries' -> Ref] /\ DOMAIN entries' \subseteq Hash
        /\ Range(entries') \subseteq Range(entries) \cup {r}
    BY <1>1, <1>2, <1>3, <2>1 DEF Typed, Range
  <2>3. InUse' \subseteq InUse \cup {r, Nil}
    BY <1>4, <1>5, <1>6, <2>2 DEF InUse
  <2>4. objects \in [Ref -> Object \cup {Blank}]
        /\ \A x \in Ref : objects[x] = IF x = r THEN e ELSE heap[x]
    BY <1>2, <1>7, <1>3
  <2> HIDE DEF objects
  <2>5. \A x \in InUse' \cap Ref : objects[x] \in Object
    BY <1>3, <1>7, <2>3, <2>4, CacheConstants
  <2>6. Typed'
    BY <1>1, <1>2, <1>4, <1>5, <1>6, <2>2 DEF Typed, history
  <2>7. QED BY <2>1, <2>4, <2>5, <2>6, CollectKeeps, TypedSound
<1>10. QED BY <1>8, <1>9

LEMMA WritersKeepSound ==
  ASSUME Sound, Shape', WriterStep PROVE Sound'
<1>1. Typed
  BY SoundTyped
<1>2. ASSUME NEW r \in Ref, PersistRow(r) PROVE Sound'
  <2>1. heap[r] \in Object
    BY <1>2 DEF PersistRow, Sound, InUse
  <2>2. PICK d : db' = d /\ (d = db \/ d = [h \in DOMAIN db \cup {heap[r].hash} |->
           IF h = heap[r].hash
           THEN [resp |-> heap[r].resp, exp |-> heap[r].exp, acc |-> now, epoch |-> heap[r].epoch]
           ELSE db[h]])
    BY <1>2 DEF PersistRow
  <2>3. [resp |-> heap[r].resp, exp |-> heap[r].exp, acc |-> now, epoch |-> heap[r].epoch] \in Row
        /\ heap[r].hash \in Hash
    <3>1. now \in Time
      BY <1>1, CacheConstants DEF Typed, Time
    <3>2. QED BY <2>1, <3>1 DEF Object, Row
  <2>4. db' \in [DOMAIN db' -> Row] /\ DOMAIN db' \subseteq Hash
    BY <1>1, <2>2, <2>3 DEF Typed
  <2>5. Typed'
    BY <1>1, <1>2, <2>4 DEF Typed, PersistRow, history
  <2>6. InUse' \subseteq InUse
    BY <1>2 DEF InUse, PersistRow
  <2>7. QED BY <1>2, <2>5, <2>6, ReleaseKeepsSound DEF PersistRow
<1>3. ASSUME NEW h \in Hash, BumpRow(h) PROVE Sound'
  <2>1. now \in Time
    BY <1>1, CacheConstants DEF Typed, Time
  <2>2. \A g \in DOMAIN db : [db[g] EXCEPT !.acc = now] \in Row
    BY <1>1, <2>1 DEF Typed, Row
  <2>3. db' \in [DOMAIN db -> Row] /\ DOMAIN db' = DOMAIN db
    BY <1>1, <1>3, <2>2 DEF BumpRow, Typed
  <2>4. Typed'
    BY <1>1, <1>3, <2>3 DEF Typed, BumpRow, memory, history
  <2>5. InUse' = InUse
    BY <1>3 DEF InUse, BumpRow, memory
  <2>6. QED BY <1>3, <2>4, <2>5, TypedSound DEF BumpRow, memory, Sound, TypeOK
<1>4. QED BY <1>2, <1>3 DEF WriterStep

LEMMA BackgroundKeepsSound ==
  ASSUME Sound, Shape', Background PROVE Sound'
<1>1. Typed
  BY SoundTyped
<1>2. CASE FlushMemory
  <2>1. Retain({}) /\ {} \in SUBSET DOMAIN entries
    BY <1>2 DEF FlushMemory
  <2>2. entries' \in [DOMAIN entries' -> Ref] /\ DOMAIN entries' \subseteq Hash
        /\ Range(entries') \subseteq Range(entries)
    BY <1>1, <2>1, RetainTypes
  <2>3. flush' \in {"idle", "rows"} /\ flushed' \in 0 .. MaxFlushes /\ epoch' \in 0 .. MaxFlushes
    BY <1>1, <1>2, CacheConstants DEF FlushMemory, Typed
  <2>4. Typed'
    BY <1>1, <1>2, <2>2, <2>3 DEF Typed, FlushMemory
  <2>5. InUse' \subseteq InUse
    BY <1>2, <2>2 DEF InUse, FlushMemory
  <2>6. QED BY <1>2, <2>4, <2>5, ReleaseKeepsSound DEF FlushMemory
<1>3. CASE CleanMemory
  <2> DEFINE keep == {h \in DOMAIN entries : ~Expired(entries[h])}
  <2>1. Retain(keep) /\ keep \in SUBSET DOMAIN entries
    BY <1>3 DEF CleanMemory
  <2> HIDE DEF keep
  <2>2. entries' \in [DOMAIN entries' -> Ref] /\ DOMAIN entries' \subseteq Hash
        /\ Range(entries') \subseteq Range(entries)
    BY <1>1, <2>1, RetainTypes DEF Typed
  <2>3. janitor' \in {"idle", "rows"}
    BY <1>3 DEF CleanMemory
  <2>4. Typed'
    BY <1>1, <1>3, <2>2, <2>3 DEF Typed, CleanMemory, history
  <2>5. InUse' \subseteq InUse
    BY <1>3, <2>2 DEF InUse, CleanMemory
  <2>6. QED BY <1>3, <2>4, <2>5, ReleaseKeepsSound DEF CleanMemory
<1>4. CASE FlushRows \/ CleanRows \/ Tick
  <2>1. db' \in [DOMAIN db' -> Row] /\ DOMAIN db' \subseteq Hash
    BY <1>1, <1>4 DEF FlushRows, CleanRows, Tick, Restrict, Typed
  <2>2. now' \in 0 .. MaxNow
    BY <1>1, <1>4, CacheConstants DEF FlushRows, CleanRows, Tick, Typed
  <2>3. Typed'
    BY <1>1, <1>4, <2>1, <2>2 DEF Typed, FlushRows, CleanRows, Tick, memory, history
  <2>4. InUse' = InUse /\ heap' = heap
    BY <1>4 DEF InUse, FlushRows, CleanRows, Tick, memory
  <2>5. QED BY <2>3, <2>4, TypedSound DEF Sound, TypeOK
<1>5. QED BY <1>2, <1>3, <1>4 DEF Background

LEMMA RestartKeepsSound ==
  ASSUME Sound, Shape, Shape', Restart PROVE Sound'
<1>1. Typed
  BY SoundTyped
<1>2. PICK rows \in WarmRows :
        LET at == CHOOSE f \in Injection(Range(rows), Ref) : TRUE IN
          /\ lru' = [i \in DOMAIN rows |-> rows[Len(rows) + 1 - i]]
          /\ entries' = at
          /\ Collect([r \in Ref |-> IF \E h \in Range(rows) : at[h] = r
                        THEN LET h == CHOOSE h \in Range(rows) : at[h] = r
                             IN [hash |-> h, resp |-> db[h].resp, exp |-> db[h].exp,
                                 used |-> db[h].acc, epoch |-> db[h].epoch]
                        ELSE Blank])
  BY DEF Restart
<1> DEFINE Row2Object(h) == [hash |-> h, resp |-> db[h].resp, exp |-> db[h].exp,
                             used |-> db[h].acc, epoch |-> db[h].epoch]
           objects == [r \in Ref |-> IF \E h \in Range(rows) : entries'[h] = r
                         THEN Row2Object(CHOOSE h \in Range(rows) : entries'[h] = r)
                         ELSE Blank]
<1>3. Collect(objects)
  BY <1>2
<1>4. Range(rows) \subseteq DOMAIN db
  <2>1. IsFiniteSet(DOMAIN db)
    BY DEF Shape
  <2>2. PICK n \in Nat : DOMAIN rows = 1 .. n /\ rows \in [1 .. n -> DOMAIN db]
    BY <2>1, WarmRowsAreDistinct
  <2>3. QED BY <2>2 DEF Range
<1>5. \A h \in Range(rows) : Row2Object(h) \in Object
  BY <1>1, <1>4 DEF Typed, Row, Object
<1>6. DOMAIN entries' = Range(rows) /\ entries' \in [Range(rows) -> Ref]
  <2>1. entries' \in Injection(Range(rows), Ref)
    BY <1>1, <1>2, RestartAllocates DEF Shape, Typed
  <2>2. QED BY <2>1 DEF Injection
<1> HIDE DEF Row2Object
<1>7. objects \in [Ref -> Object \cup {Blank}]
  BY <1>5
<1>8. Idle \in Request /\ Knows(Idle) /\ Idle.ref = Nil
  BY CacheConstants DEF Idle, Request, PC, Knows, Time
<1>9. InUse' \cap Ref = Range(entries') \cap Ref
  BY <1>8, CacheConstants DEF Restart, InUse
<1>10. \A r \in InUse' \cap Ref : objects[r] \in Object
  BY <1>5, <1>6, <1>9 DEF Range
<1> HIDE DEF objects
<1>11. Typed'
  <2>1. restarts' \in 0 .. MaxRestarts
    BY <1>1, CacheConstants DEF Restart, Typed
  <2>2. req' \in [Client -> Request] /\ \A c \in Client : req'[c] = Idle
    BY <1>8 DEF Restart
  <2>3. DOMAIN entries' \subseteq Hash
    BY <1>1, <1>4, <1>6 DEF Typed
  <2>4. QED BY <1>1, <1>6, <1>8, <2>1, <2>2, <2>3 DEF Restart, Typed
<1>12. QED BY <1>3, <1>7, <1>10, <1>11, CollectKeeps, TypedSound

\* Every step keeps the map and its list one bounded structure.
LEMMA NextKeepsShape ==
  ASSUME Shape, Sound, Next PROVE Shape'
<1>1. CASE \E c \in Client : StoreEntry(c)
  BY <1>1, StoreKeepsShape
<1>2. ASSUME NEW c \in Client, LookupDrop(c) PROVE Shape'
  BY <1>2, RetainKeepsShape DEF LookupDrop, Shape
<1>3. ASSUME NEW c \in Client, LookupPromote(c) PROVE Shape'
  <2>1. CASE req[c].hash \in DOMAIN entries
    BY <1>3, <2>1, MoveToFrontKeepsShape DEF LookupPromote
  <2>2. CASE req[c].hash \notin DOMAIN entries
    BY <1>3, <2>2 DEF LookupPromote, Shape, Bounded
  <2>3. QED BY <2>1, <2>2
<1>4. ASSUME NEW c \in Client,
             (\E h \in Hash : LookupRead(c, h)) \/ LookupCheck(c) \/ ServeHead(c) \/ ServeBody(c)
             \/ (\E r \in Resp : UpstreamOK(c, r)) \/ UpstreamFails(c)
      PROVE Shape'
  <2>1. UNCHANGED <<entries, lru, db>>
    BY <1>4 DEF LookupRead, LookupCheck, ServeHead, ServeBody, UpstreamOK, UpstreamFails, memory
  <2>2. QED BY <2>1 DEF Shape, Bounded
<1>5. CASE WriterStep
  <2>1. ASSUME NEW r \in Ref, PersistRow(r) PROVE IsFiniteSet(DOMAIN db')
    <3>1. db' = db \/ DOMAIN db' = DOMAIN db \cup {heap[r].hash}
      BY <2>1 DEF PersistRow
    <3>2. QED BY <3>1, FS_AddElement DEF Shape
  <2>2. ASSUME NEW h \in Hash, BumpRow(h) PROVE IsFiniteSet(DOMAIN db')
    BY <2>2 DEF BumpRow, Shape
  <2>3. UNCHANGED <<entries, lru>>
    BY <1>5 DEF WriterStep, PersistRow, BumpRow, memory
  <2>4. QED BY <1>5, <2>1, <2>2, <2>3 DEF WriterStep, Shape, Bounded
<1>6. CASE FlushMemory \/ CleanMemory
  <2>1. IsFiniteSet(DOMAIN db')
    BY <1>6 DEF FlushMemory, CleanMemory, Shape
  <2>2. \E keep \in SUBSET DOMAIN entries : Retain(keep)
    <3>1. {} \in SUBSET DOMAIN entries
          /\ {h \in DOMAIN entries : ~Expired(entries[h])} \in SUBSET DOMAIN entries
      OBVIOUS
    <3>2. QED BY <1>6, <3>1 DEF FlushMemory, CleanMemory
  <2>3. QED BY <2>1, <2>2, RetainKeepsShape
<1>7. CASE FlushRows \/ CleanRows \/ Tick
  <2>1. DOMAIN db' \in SUBSET DOMAIN db /\ UNCHANGED <<entries, lru>>
    BY <1>7 DEF FlushRows, CleanRows, Tick, Restrict, memory
  <2>2. IsFiniteSet(DOMAIN db')
    BY <2>1, FS_Subset DEF Shape
  <2>3. QED BY <2>1, <2>2 DEF Shape, Bounded
<1>8. CASE Restart
  BY <1>8, RestartKeepsShape DEF Sound, TypeOK
<1>9. QED BY <1>1, <1>2, <1>3, <1>4, <1>5, <1>6, <1>7, <1>8
      DEF Next, Up, RequestStep, Background

\* Every step keeps the types.
LEMMA NextKeepsSound ==
  ASSUME Shape, Sound, Next PROVE Sound'
<1>1. Shape'
  BY NextKeepsShape
<1>2. ASSUME RequestStep PROVE Sound'
  BY <1>1, <1>2, LookupReadKeepsSound, LocalStepsKeepSound, LookupDropKeepsSound,
     LookupPromoteKeepsSound, ServeBodyKeepsSound, StoreEntryKeepsSound DEF RequestStep
<1>3. QED BY <1>1, <1>2, WritersKeepSound, BackgroundKeepsSound, RestartKeepsSound DEF Next, Up

LEMMA StutterKeepsBoth ==
  ASSUME Shape, Sound, UNCHANGED vars PROVE Shape' /\ Sound'
<1>1. Shape'
  BY DEF Shape, Bounded, vars, memory
<1>2. Sound'
  BY DEF Sound, TypeOK, InUse, vars, memory, history
<1>3. QED BY <1>1, <1>2

\* Both invariants hold of every behaviour, with restarts.
LEMMA Invariants == Spec => [](Shape /\ Sound)
<1>1. Init => Shape /\ Sound
  BY InitShape, InitSound
<1>2. Shape /\ Sound /\ [Next]_vars => (Shape /\ Sound)'
  BY NextKeepsShape, NextKeepsSound, StutterKeepsBoth
<1>3. QED BY <1>1, <1>2, PTL DEF Spec

\* The state of the cache is well typed after any interleaving of requests,
\* writers, sweeps, flushes and restarts.
THEOREM CacheTypeOK == Spec => []TypeOK
<1>1. Shape /\ Sound => TypeOK
  BY DEF Sound
<1>2. QED BY <1>1, Invariants, PTL

\* The cache never holds more answers than its capacity, for every capacity,
\* number of requests and restart.
THEOREM CacheBounded == Spec => []Bounded
<1>1. Shape /\ Sound => Bounded
  BY DEF Shape
<1>2. QED BY <1>1, Invariants, PTL

-----------------------------------------------------------------------------
(* Objects sit under their own hash *)

Owned == \A h \in DOMAIN entries : heap[entries[h]].hash = h

\* A step that is no store and no restart keeps, of the keys and of the objects,
\* what it leaves.
LEMMA OthersKeepObjects ==
  ASSUME Sound, Up, ~ \E c \in Client : StoreEntry(c)
  PROVE  /\ \A h \in DOMAIN entries' : h \in DOMAIN entries /\ entries'[h] = entries[h]
         /\ \A r \in InUse' \cap Ref :
              heap'[r].hash = heap[r].hash /\ heap'[r].epoch = heap[r].epoch
<1>1. CASE \E c \in Client : LookupPromote(c)
  <2>1. PICK c \in Client : LookupPromote(c)
    BY <1>1
  <2>2. entries' = entries
    BY <2>1 DEF LookupPromote
  <2>3. heap \in [Ref -> Object \cup {Blank}]
    BY DEF Sound, TypeOK
  <2>4. heap' = heap \/ heap' = [heap EXCEPT ![entries[req[c].hash]].used = now]
    BY <2>1 DEF LookupPromote
  <2>5. \A r \in Ref : heap'[r].hash = heap[r].hash /\ heap'[r].epoch = heap[r].epoch
    BY <2>3, <2>4 DEF Object, Blank
  <2>6. QED BY <2>2, <2>5
<1>2. CASE ~ \E c \in Client : LookupPromote(c)
  <2>1. heap' = heap \/ Collect(heap)
    BY <1>2 DEF Up, RequestStep, WriterStep, Background, LookupRead, LookupCheck, LookupDrop,
       ServeHead, ServeBody, UpstreamOK, UpstreamFails, PersistRow, BumpRow, FlushMemory,
       FlushRows, CleanMemory, CleanRows, Tick, memory
  <2>2. \A r \in InUse' \cap Ref : heap'[r] = heap[r]
    BY <2>1 DEF Collect
  <2>3. entries' = entries \/ \E keep \in SUBSET DOMAIN entries : entries' = Restrict(entries, keep)
    <3>1. /\ {} \in SUBSET DOMAIN entries
          /\ {h \in DOMAIN entries : ~Expired(entries[h])} \in SUBSET DOMAIN entries
          /\ \A c : DOMAIN entries \ {req[c].hash} \in SUBSET DOMAIN entries
      OBVIOUS
    <3>2. QED BY <1>2, <3>1 DEF Up, RequestStep, WriterStep, Background, LookupRead, LookupCheck,
            LookupDrop, ServeHead, ServeBody, UpstreamOK, UpstreamFails, PersistRow, BumpRow,
            FlushMemory, FlushRows, CleanMemory, CleanRows, Tick, Retain, memory
  <2>4. QED BY <2>2, <2>3 DEF Restrict
<1>3. QED BY <1>1, <1>2

\* What a store writes: its own object under its own hash, in the present epoch,
\* used now.
LEMMA StoreWrites ==
  ASSUME Sound, NEW c \in Client, StoreEntry(c)
  PROVE  LET h == req[c].hash IN
         /\ h \in DOMAIN entries'
         /\ heap'[entries'[h]].hash = h /\ heap'[entries'[h]].epoch = epoch
         /\ heap'[entries'[h]].used = now
         /\ \A g \in DOMAIN entries' \ {h} : g \in DOMAIN entries /\ entries'[g] = entries[g]
         /\ \A r \in InUse' \cap InUse \cap Ref :
              \/ heap'[r] = heap[r]
              \/ h \in DOMAIN entries /\ r = entries[h] /\ heap'[r].epoch = epoch
<1> DEFINE h == req[c].hash
           r == CHOOSE x \in Ref : x \notin InUse
           e == [hash |-> h, resp |-> req[c].resp, exp |-> req[c].exp,
                 used |-> now, epoch |-> epoch]
           victim == evictLRU
<1>1. r \in Ref /\ r \notin InUse
  BY DEF StoreEntry
<1>2. heap \in [Ref -> Object \cup {Blank}] /\ entries \in [DOMAIN entries -> Ref]
  BY DEF Sound, TypeOK
<1>3. e.hash = h /\ e.epoch = epoch /\ e.used = now
  OBVIOUS
<1>4. CASE h \in DOMAIN entries
  <2> DEFINE objects == [heap EXCEPT ![entries[h]] = e, ![r] = e]
  <2>1. entries' = entries /\ Collect(objects)
    BY <1>4 DEF StoreEntry
  <2>2. entries[h] \in Ref /\ entries[h] \in InUse'
    BY <1>2, <1>4, <2>1 DEF InUse, Range
  <2> HIDE DEF e, r, h
  <2>3. \A x \in Ref : objects[x] = IF x = r \/ x = entries[h] THEN e ELSE heap[x]
    BY <1>1, <1>2, <2>2
  <2> HIDE DEF objects
  <2>4. \A x \in InUse' \cap Ref : heap'[x] = objects[x]
    BY <2>1 DEF Collect
  <2>5. heap'[entries'[h]] = e
    BY <2>1, <2>2, <2>3, <2>4
  <2>6. \A x \in InUse' \cap InUse \cap Ref : heap'[x] = heap[x] \/ (x = entries[h] /\ heap'[x] = e)
    BY <1>1, <2>3, <2>4
  <2>7. QED BY <1>3, <1>4, <2>1, <2>5, <2>6 DEF h
<1>5. CASE h \notin DOMAIN entries
  <2> DEFINE objects == [heap EXCEPT ![r] = e]
  <2>1. entries' = [g \in (DOMAIN entries \ victim) \cup {h} |->
                      IF g = h THEN r ELSE entries[g]] /\ Collect(objects)
    BY <1>5 DEF StoreEntry
  <2> HIDE DEF e, r, h, victim
  <2>2. h \in DOMAIN entries' /\ entries'[h] = r /\ r \in InUse'
        /\ \A g \in DOMAIN entries' \ {h} : g \in DOMAIN entries /\ entries'[g] = entries[g]
    BY <2>1 DEF InUse, Range
  <2>3. \A x \in Ref : objects[x] = IF x = r THEN e ELSE heap[x]
    BY <1>1, <1>2
  <2> HIDE DEF objects
  <2>4. \A x \in InUse' \cap Ref : heap'[x] = objects[x]
    BY <2>1 DEF Collect
  <2>5. heap'[entries'[h]] = e
    BY <1>1, <2>2, <2>3, <2>4
  <2>6. \A x \in InUse' \cap InUse \cap Ref : heap'[x] = heap[x]
    BY <1>1, <2>3, <2>4
  <2>7. QED BY <1>3, <2>2, <2>5, <2>6 DEF h
<1>6. QED BY <1>4, <1>5

LEMMA UpKeepsOwned ==
  ASSUME Sound, Owned, Up PROVE Owned'
<1>1. entries \in [DOMAIN entries -> Ref] /\ Range(entries) \subseteq InUse
  BY DEF Sound, TypeOK, InUse
<1>2. CASE ~ \E c \in Client : StoreEntry(c)
  <2>1. \A h \in DOMAIN entries' : entries'[h] \in InUse' \cap Ref
    BY <1>1, <1>2, OthersKeepObjects DEF InUse, Range
  <2>2. QED BY <1>2, <2>1, OthersKeepObjects DEF Owned
<1>3. ASSUME NEW c \in Client, StoreEntry(c) PROVE Owned'
  <2> DEFINE h == req[c].hash
  <2>1. \A g \in DOMAIN entries' \ {h} :
          g \in DOMAIN entries /\ entries'[g] = entries[g]
          /\ entries[g] \in InUse' \cap InUse \cap Ref
    BY <1>1, <1>3, StoreWrites DEF InUse, Range
  <2>2. \A g \in DOMAIN entries' \ {h} : heap'[entries'[g]] = heap[entries[g]]
    BY <1>3, <2>1, StoreWrites DEF Owned
  <2>3. QED BY <1>3, <2>1, <2>2, StoreWrites DEF Owned
<1>4. QED BY <1>2, <1>3

LEMMA RestartMakesOwned ==
  ASSUME Shape, Sound, Restart PROVE Owned'
<1>1. PICK rows \in WarmRows :
        LET at == CHOOSE f \in Injection(Range(rows), Ref) : TRUE IN
          /\ entries' = at
          /\ Collect([r \in Ref |-> IF \E h \in Range(rows) : at[h] = r
                        THEN LET h == CHOOSE h \in Range(rows) : at[h] = r
                             IN [hash |-> h, resp |-> db[h].resp, exp |-> db[h].exp,
                                 used |-> db[h].acc, epoch |-> db[h].epoch]
                        ELSE Blank])
  BY DEF Restart
<1>2. entries' \in Injection(Range(rows), Ref)
  BY <1>1, RestartAllocates DEF Shape, Sound, TypeOK
<1>3. ASSUME NEW h \in DOMAIN entries' PROVE heap'[entries'[h]].hash = h
  <2>1. h \in Range(rows) /\ entries'[h] \in InUse' \cap Ref
    BY <1>2, <1>3 DEF Injection, InUse, Range
  <2>2. (CHOOSE g \in Range(rows) : entries'[g] = entries'[h]) = h
    BY <1>2, <2>1 DEF Injection, IsInjective
  <2> DEFINE Obj(g) == [hash |-> g, resp |-> db[g].resp, exp |-> db[g].exp,
                        used |-> db[g].acc, epoch |-> db[g].epoch]
             objects == [r \in Ref |-> IF \E g \in Range(rows) : entries'[g] = r
                           THEN Obj(CHOOSE g \in Range(rows) : entries'[g] = r) ELSE Blank]
  <2>3. Collect(objects)
    BY <1>1
  <2>4. Obj(h).hash = h
    OBVIOUS
  <2> HIDE DEF Obj
  <2>5. objects[entries'[h]] = Obj(h)
    BY <2>1, <2>2
  <2> HIDE DEF objects
  <2>6. heap'[entries'[h]] = objects[entries'[h]]
    BY <2>1, <2>3 DEF Collect
  <2>7. QED BY <2>4, <2>5, <2>6
<1>4. QED BY <1>3 DEF Owned

\* The list, the map and the objects are one structure for every number of
\* hashes, requests and restarts: the invariant eviction and expiry rely on.
THEOREM CacheListMatchesMap == Spec => []ListMatchesMap
<1>1. Init => Owned
  BY DEF Init, Owned
<1>2. Shape /\ Sound /\ Owned /\ [Next]_vars => Owned'
  <2>1. ASSUME Owned, UNCHANGED vars PROVE Owned'
    BY <2>1 DEF Owned, vars, memory
  <2>2. QED BY <2>1, UpKeepsOwned, RestartMakesOwned DEF Next
<1>3. Shape /\ Sound /\ Owned => ListMatchesMap
  <2>1. SUFFICES ASSUME Shape, Sound, Owned PROVE ListMatchesMap
    OBVIOUS
  <2>2. \A h \in DOMAIN entries : h # Nil
    BY <2>1, CacheConstants DEF Sound, TypeOK
  <2>3. IsInjective(entries)
    BY <2>1 DEF Owned, IsInjective
  <2>4. \A h \in DOMAIN entries : heap[entries[h]] # Blank /\ heap[entries[h]].hash = h
    BY <2>1, <2>2 DEF Owned, Blank
  <2>5. QED BY <2>1, <2>3, <2>4 DEF Shape, ListMatchesMap
<1>4. QED BY <1>1, <1>2, <1>3, Invariants, PTL DEF Spec

-----------------------------------------------------------------------------
(* Flush: within one incarnation nothing from before it is served after it *)

HasRef(q) == q.pc \in {"found", "expired", "live", "head", "body"}

\* Whatever the map holds was stored since the last Flush cleared it; a request
\* holds an object at least as new as the last Flush it saw return.
Fresh ==
    /\ flushed <= epoch
    /\ \A h \in DOMAIN entries : heap[entries[h]].epoch = epoch
    /\ \A c \in Client : /\ req[c].since <= flushed
                         /\ HasRef(req[c]) => heap[req[c].ref].epoch >= req[c].since

\* Requests step by step: what their `since` and their object are afterwards.
LEMMA RequestsMove ==
  ASSUME Sound, Up, NEW c \in Client
  PROVE  \/ req'[c] = Idle
         \/ /\ req'[c].since = req[c].since
            /\ HasRef(req'[c]) => HasRef(req[c]) /\ req'[c].ref = req[c].ref
         \/ /\ req'[c].since = flushed
            /\ HasRef(req'[c]) => \E h \in DOMAIN entries : req'[c].ref = entries[h]
            /\ UNCHANGED <<memory, flushed, epoch>>
<1>1. req \in [Client -> Request]
  BY DEF Sound, TypeOK
<1>2. CASE WriterStep \/ Background
  BY <1>2 DEF WriterStep, Background, PersistRow, BumpRow, FlushMemory, FlushRows, CleanMemory,
     CleanRows, Tick, memory
<1>3. ASSUME NEW d \in Client, NEW h \in Hash, LookupRead(d, h)
      PROVE  \/ req'[c] = req[c]
             \/ /\ req'[c].since = flushed
                /\ HasRef(req'[c]) => \E g \in DOMAIN entries : req'[c].ref = entries[g]
                /\ UNCHANGED <<memory, flushed, epoch>>
  BY <1>1, <1>3 DEF LookupRead, HasRef, history
<1>4. ASSUME NEW d \in Client,
             LookupCheck(d) \/ LookupDrop(d) \/ LookupPromote(d) \/ ServeHead(d)
             \/ ServeBody(d) \/ (\E r \in Resp : UpstreamOK(d, r)) \/ UpstreamFails(d)
             \/ StoreEntry(d)
      PROVE  \/ req'[c] = Idle
             \/ /\ req'[c].since = req[c].since
                /\ HasRef(req'[c]) => HasRef(req[c]) /\ req'[c].ref = req[c].ref
  <2>1. CASE c # d
    BY <1>1, <1>4, <2>1 DEF LookupCheck, LookupDrop, LookupPromote, ServeHead, ServeBody,
       UpstreamOK, UpstreamFails, StoreEntry
  <2>2. CASE c = d
    <3>1. CASE ServeBody(d) \/ UpstreamFails(d) \/ StoreEntry(d)
      BY <1>1, <2>2, <3>1 DEF ServeBody, UpstreamFails, StoreEntry
    <3>2. CASE LookupCheck(d) \/ LookupPromote(d) \/ ServeHead(d)
      <4>1. req[c] \in Request
        BY <1>1
      <4>2. HasRef(req[c]) /\ req'[c].since = req[c].since /\ req'[c].ref = req[c].ref
        BY <1>1, <2>2, <3>2, <4>1 DEF LookupCheck, LookupPromote, ServeHead, HasRef, Request
      <4>3. QED BY <4>2
    <3>3. ASSUME NEW r \in Resp, LookupDrop(d) \/ UpstreamOK(d, r)
          PROVE  req'[c].since = req[c].since /\ ~HasRef(req'[c])
      BY <1>1, <2>2, <3>3 DEF LookupDrop, UpstreamOK, HasRef, Request
    <3>4. CASE LookupDrop(d)
      BY <1>1, <2>2, <3>4 DEF LookupDrop, HasRef, Request
    <3>5. QED BY <1>4, <3>1, <3>2, <3>3, <3>4
  <2>3. QED BY <2>1, <2>2
<1>5. QED BY <1>2, <1>3, <1>4 DEF Up, RequestStep

LEMMA InitFresh == Init => Fresh
  BY DEF Init, Fresh, Idle, HasRef

\* The epochs of a step: Flush raises them with an empty map, or in the order
\* epoch, then flushed.
LEMMA EpochsMove ==
  ASSUME Sound, Fresh, Up
  PROVE  /\ flushed <= flushed' /\ flushed' <= epoch'
         /\ (epoch' = epoch) \/ (epoch' = epoch + 1 /\ DOMAIN entries' = {})
<1>1. epoch \in Nat /\ flushed \in Nat /\ flushed <= epoch
  BY CacheConstants DEF Sound, TypeOK, Fresh
<1>2. CASE FlushMemory
  BY <1>1, <1>2 DEF FlushMemory, Retain, Restrict
<1>3. CASE FlushRows
  BY <1>1, <1>3 DEF FlushRows
<1>4. CASE RequestStep \/ WriterStep \/ CleanMemory \/ CleanRows \/ Tick
  <2>1. epoch' = epoch /\ flushed' = flushed
    BY <1>4 DEF RequestStep, WriterStep, LookupRead, LookupCheck, LookupDrop, LookupPromote,
       ServeHead, ServeBody, UpstreamOK, UpstreamFails, StoreEntry, PersistRow, BumpRow,
       CleanMemory, CleanRows, Tick, history
  <2>2. QED BY <1>1, <2>1
<1>5. QED BY <1>2, <1>3, <1>4 DEF Up, Background

\* Objects in the map carry the present epoch.
LEMMA UpKeepsMapFresh ==
  ASSUME Sound, Owned, Fresh, Up, NEW h \in DOMAIN entries'
  PROVE  heap'[entries'[h]].epoch = epoch'
<1>1. epoch' = epoch
  BY EpochsMove
<1>2. entries \in [DOMAIN entries -> Ref] /\ Range(entries) \subseteq InUse
      /\ Range(entries') \subseteq InUse'
  BY DEF Sound, TypeOK, InUse
<1>3. CASE ~ \E c \in Client : StoreEntry(c)
  <2>1. h \in DOMAIN entries /\ entries'[h] = entries[h]
    BY <1>3, OthersKeepObjects
  <2>2. entries'[h] \in InUse' \cap Ref
    BY <1>2, <2>1 DEF Range
  <2>3. heap'[entries'[h]].epoch = heap[entries'[h]].epoch
    BY <1>3, <2>2, OthersKeepObjects
  <2>4. QED BY <1>1, <2>1, <2>3 DEF Fresh
<1>4. ASSUME NEW c \in Client, StoreEntry(c) PROVE heap'[entries'[h]].epoch = epoch
  <2>1. CASE h = req[c].hash
    BY <1>4, <2>1, StoreWrites
  <2>2. CASE h # req[c].hash
    <3>1. h \in DOMAIN entries /\ entries'[h] = entries[h]
      BY <1>4, <2>2, StoreWrites
    <3>2. entries[h] \in InUse' \cap InUse \cap Ref
      BY <1>2, <3>1 DEF Range
    <3>3. heap'[entries[h]] = heap[entries[h]] \/ heap'[entries[h]].epoch = epoch
      BY <1>4, <3>2, StoreWrites
    <3>4. QED BY <3>1, <3>3 DEF Fresh
  <2>3. QED BY <2>1, <2>2
<1>5. QED BY <1>1, <1>3, <1>4

\* An object some request still holds never gets older.
LEMMA ObjectsNeverAge ==
  ASSUME Sound, Fresh, Up, NEW r \in InUse' \cap InUse \cap Ref
  PROVE  heap[r].epoch <= heap'[r].epoch
<1>1. heap[r].epoch \in Nat /\ epoch \in Nat
  BY CacheConstants DEF Sound, TypeOK, Object
<1>2. CASE ~ \E c \in Client : StoreEntry(c)
  BY <1>1, <1>2, OthersKeepObjects
<1>3. ASSUME NEW c \in Client, StoreEntry(c) PROVE heap[r].epoch <= heap'[r].epoch
  <2>1. \/ heap'[r] = heap[r]
        \/ \E h \in DOMAIN entries : r = entries[h] /\ heap'[r].epoch = epoch
    BY <1>3, StoreWrites
  <2>2. QED BY <1>1, <2>1 DEF Fresh
<1>4. QED BY <1>2, <1>3

LEMMA UpKeepsFresh ==
  ASSUME Sound, Sound', Owned, Fresh, Up PROVE Fresh'
<1>1. flushed \in Nat /\ flushed' \in Nat /\ epoch \in Nat
  BY CacheConstants DEF Sound, TypeOK
<1>2. ASSUME NEW c \in Client
      PROVE  /\ req'[c].since <= flushed'
             /\ HasRef(req'[c]) => heap'[req'[c].ref].epoch >= req'[c].since
  <2>1. req'[c].since \in Nat /\ req[c].since \in Nat
    BY CacheConstants DEF Sound, TypeOK, Request
  <2>2. req[c].since <= flushed
    BY DEF Fresh
  <2>3. flushed <= flushed'
    BY EpochsMove
  <2>4. CASE req'[c] = Idle
    BY <1>1, <2>4 DEF Idle, HasRef
  <2>5. CASE req'[c].since = req[c].since
             /\ (HasRef(req'[c]) => HasRef(req[c]) /\ req'[c].ref = req[c].ref)
    <3>1. req'[c].since <= flushed'
      BY <1>1, <2>1, <2>2, <2>3, <2>5
    <3>2. ASSUME HasRef(req'[c]) PROVE heap'[req'[c].ref].epoch >= req'[c].since
      <4> DEFINE r == req[c].ref
      <4>1. HasRef(req[c]) /\ req'[c].ref = r /\ heap[r].epoch >= req[c].since
        BY <2>5, <3>2 DEF Fresh
      <4>2. r \in InUse' \cap InUse \cap Ref
        BY <4>1 DEF InUse, Sound, HasRef
      <4>3. heap[r].epoch \in Nat /\ heap'[r].epoch \in Nat
        BY <4>2, CacheConstants DEF Sound, Object
      <4>4. heap[r].epoch <= heap'[r].epoch
        BY <4>2, ObjectsNeverAge
      <4> HIDE DEF r
      <4>5. QED BY <2>1, <2>5, <4>1, <4>3, <4>4
    <3>3. QED BY <3>1, <3>2
  <2>6. CASE req'[c].since = flushed
             /\ (HasRef(req'[c]) => \E h \in DOMAIN entries : req'[c].ref = entries[h])
             /\ UNCHANGED <<memory, flushed, epoch>>
    BY <1>1, <2>6 DEF Fresh, memory
  <2>7. QED BY <2>4, <2>5, <2>6, RequestsMove
<1>3. QED BY <1>2, EpochsMove, UpKeepsMapFresh DEF Fresh

\* Within one incarnation, a request that starts after a Flush has returned is
\* never answered with what was stored before it, for any number of requests
\* and flushes, whatever a slow lookup, store or sweep interleaves with them.
THEOREM CacheFlushIsComplete == SpecUp => []NoHitFromBeforeFlush
<1> DEFINE I == Shape /\ Sound /\ Owned /\ Fresh
<1>1. Init => I
  BY InitShape, InitSound, InitFresh DEF Init, Owned
<1>2. I /\ [Up]_vars => I'
  <2>1. ASSUME I, UNCHANGED vars PROVE I'
    <3>1. Owned' /\ Fresh'
      BY <2>1 DEF Owned, Fresh, HasRef, vars, memory, history
    <3>2. QED BY <2>1, <3>1, StutterKeepsBoth
  <2>2. ASSUME I, Up PROVE I'
    <3>1. Shape' /\ Sound'
      BY <2>2, NextKeepsShape, NextKeepsSound DEF Next
    <3>2. QED BY <2>2, <3>1, UpKeepsOwned, UpKeepsFresh
  <2>3. QED BY <2>1, <2>2
<1>3. I => NoHitFromBeforeFlush
  BY DEF Fresh, HasRef, NoHitFromBeforeFlush
<1> HIDE DEF I
<1>4. QED BY <1>1, <1>2, <1>3, PTL DEF SpecUp

-----------------------------------------------------------------------------
(* Eviction: within one incarnation the list is in the order of last use *)

\* No key stands before one that was used later, and nothing was used in the future.
InOrder ==
    /\ \A i, j \in DOMAIN lru : i < j => heap[entries[lru[i]]].used >= heap[entries[lru[j]]].used
    /\ \A h \in DOMAIN entries : heap[entries[h]].used <= now

\* Taking keys out keeps the order of the others, whatever it is by.
LEMMA KeepingKeepsOrder ==
  ASSUME NEW s, NEW keep, NEW l \in Keeping(s, keep), NEW u,
         \A i, j \in DOMAIN s : i < j => u[s[i]] >= u[s[j]]
  PROVE  \A i, j \in DOMAIN l : i < j => u[l[i]] >= u[l[j]]
<1> SUFFICES ASSUME NEW i \in DOMAIN l, NEW j \in DOMAIN l, i < j PROVE u[l[i]] >= u[l[j]]
  OBVIOUS
<1>1. PICK m, n \in DOMAIN s : m < n /\ s[m] = l[i] /\ s[n] = l[j]
  BY DEF Keeping
<1>2. u[s[m]] >= u[s[n]]
  BY <1>1
<1>3. QED BY <1>1, <1>2

\* A key in front of the others, used no earlier than any of them.
LEMMA FrontKeepsOrder ==
  ASSUME NEW s, NEW keep, IsFiniteSet(keep), NEW l \in Keeping(s, keep), NEW h, NEW u,
         \A i, j \in DOMAIN s : i < j => u[s[i]] >= u[s[j]],
         \A k \in keep : u[h] >= u[k]
  PROVE  \A i, j \in DOMAIN (<<h>> \o l) : i < j => u[(<<h>> \o l)[i]] >= u[(<<h>> \o l)[j]]
<1>1. l \in Seq(keep)
  BY KeepingIsOrder
<1>2. \A i, j \in DOMAIN l : i < j => u[l[i]] >= u[l[j]]
  BY KeepingKeepsOrder
<1>3. /\ DOMAIN (<<h>> \o l) = 1 .. Len(l) + 1
      /\ \A i \in 1 .. Len(l) + 1 : (<<h>> \o l)[i] = IF i = 1 THEN h ELSE l[i - 1]
  BY <1>1
<1> DEFINE q == <<h>> \o l
<1> HIDE DEF q
<1> SUFFICES ASSUME NEW i \in DOMAIN q, NEW j \in DOMAIN q, i < j PROVE u[q[i]] >= u[q[j]]
  BY DEF q
<1>4. i \in 1 .. Len(l) + 1 /\ j \in 2 .. Len(l) + 1 /\ j - 1 \in DOMAIN l /\ q[j] = l[j - 1]
  BY <1>1, <1>3 DEF q
<1>5. CASE i = 1
  BY <1>1, <1>3, <1>4, <1>5 DEF q
<1>6. CASE i # 1
  <2>1. i - 1 \in DOMAIN l /\ i - 1 < j - 1 /\ q[i] = l[i - 1]
    BY <1>1, <1>3, <1>4, <1>6 DEF q
  <2>2. QED BY <1>2, <1>4, <2>1
<1>7. QED BY <1>5, <1>6

\* When each key was last used, as the list sees it.
Used == [h \in DOMAIN entries |-> heap[entries[h]].used]

LEMMA UsedIsTime ==
  ASSUME Sound, Owned
  PROVE  now \in Nat /\ \A h \in DOMAIN entries : entries[h] \in Ref /\ Used[h] \in Nat
<1>1. now \in Nat
  BY CacheConstants DEF Sound, TypeOK
<1>2. ASSUME NEW h \in DOMAIN entries PROVE entries[h] \in Ref /\ heap[entries[h]] \in Object
  BY DEF Sound, TypeOK, InUse, Range
<1>3. \A o \in Object : o.used \in Nat
  BY CacheConstants DEF Object, Time
<1>4. QED BY <1>1, <1>2, <1>3 DEF Used

LEMMA OrderOfUse == Shape => (InOrder <=> /\ \A i, j \in DOMAIN lru : i < j => Used[lru[i]] >= Used[lru[j]]
                                          /\ \A h \in DOMAIN entries : Used[h] <= now)
<1>1. SUFFICES ASSUME Shape PROVE \A i \in DOMAIN lru : lru[i] \in DOMAIN entries
  BY DEF InOrder, Used
<1>2. QED BY <1>1 DEF Shape, Range

\* A step that neither promotes nor stores leaves the times of use of the keys
\* that stay, and their order.
LEMMA OthersKeepOrder ==
  ASSUME Shape, Shape', Sound, Owned, InOrder, Up,
         ~ \E c \in Client : LookupPromote(c) \/ StoreEntry(c)
  PROVE  InOrder'
<1>1. heap' = heap \/ Collect(heap)
  BY DEF Up, RequestStep, WriterStep, Background, LookupRead, LookupCheck, LookupDrop,
     ServeHead, ServeBody, UpstreamOK, UpstreamFails, PersistRow, BumpRow, FlushMemory,
     FlushRows, CleanMemory, CleanRows, Tick, memory
<1>2. (entries' = entries /\ lru' = lru) \/ \E keep \in SUBSET DOMAIN entries : Retain(keep)
  <2>1. /\ {} \in SUBSET DOMAIN entries
        /\ {h \in DOMAIN entries : ~Expired(entries[h])} \in SUBSET DOMAIN entries
        /\ \A c : DOMAIN entries \ {req[c].hash} \in SUBSET DOMAIN entries
    OBVIOUS
  <2>2. QED BY <2>1 DEF Up, RequestStep, WriterStep, Background, LookupRead, LookupCheck, LookupDrop,
          ServeHead, ServeBody, UpstreamOK, UpstreamFails, PersistRow, BumpRow,
          FlushMemory, FlushRows, CleanMemory, CleanRows, Tick, memory
<1>3. \A h \in DOMAIN entries' : h \in DOMAIN entries /\ entries'[h] = entries[h]
  BY <1>2 DEF Retain, Restrict
<1>4. ASSUME NEW h \in DOMAIN entries' PROVE Used'[h] = Used[h]
  <2>1. h \in DOMAIN entries /\ entries'[h] = entries[h] /\ entries[h] \in Ref
    BY <1>3, UsedIsTime
  <2>2. entries'[h] \in InUse'
    BY DEF InUse, Range
  <2>3. heap'[entries[h]] = heap[entries[h]]
    BY <1>1, <2>1, <2>2 DEF Collect
  <2>4. QED BY <2>1, <2>3 DEF Used
<1>5. now \in Nat /\ now' \in Nat /\ now' >= now
  <2>1. now' = now \/ now' = now + 1
    BY DEF Up, RequestStep, WriterStep, Background, LookupRead, LookupCheck, LookupDrop,
       LookupPromote, StoreEntry, ServeHead, ServeBody, UpstreamOK, UpstreamFails, PersistRow, BumpRow,
       FlushMemory, FlushRows, CleanMemory, CleanRows, Tick
  <2>2. QED BY <2>1, UsedIsTime
<1>6. \A i, j \in DOMAIN lru' : i < j => Used[lru'[i]] >= Used[lru'[j]]
  BY <1>2, OrderOfUse, KeepingKeepsOrder DEF Retain
<1>7. \A i \in DOMAIN lru' : lru'[i] \in DOMAIN entries'
  BY DEF Shape, Range
<1>8. \A i, j \in DOMAIN lru' : i < j => Used'[lru'[i]] >= Used'[lru'[j]]
  BY <1>4, <1>6, <1>7
<1>9. \A h \in DOMAIN entries' : Used'[h] <= now'
  BY <1>3, <1>4, <1>5, UsedIsTime, OrderOfUse
<1>10. QED BY <1>7, <1>8, <1>9 DEF InOrder, Used

\* A step that puts a key in front, used now, and leaves the others.
LEMMA FrontMostRecent ==
  ASSUME Shape, Shape', Sound, Owned, InOrder, NEW h, NEW keys \in SUBSET DOMAIN entries, now' = now,
         NEW l \in Keeping(lru, keys), lru' = <<h>> \o l,
         DOMAIN entries' = keys \cup {h}, h \notin keys, Used'[h] = now,
         \A k \in keys : Used'[k] = Used[k]
  PROVE  InOrder'
<1> DEFINE u == [k \in DOMAIN entries \cup {h} |-> IF k = h THEN now ELSE Used[k]]
<1>1. IsFiniteSet(keys) /\ now \in Nat
  BY FS_Subset, UsedIsTime DEF Shape
<1>2. \A k \in keys : Used[k] \in Nat /\ Used[k] <= now
  BY UsedIsTime, OrderOfUse
<1>3. \A k \in DOMAIN entries' : Used'[k] = u[k]
  OBVIOUS
<1>4. \A i \in DOMAIN lru' : lru'[i] \in DOMAIN entries'
  BY DEF Shape, Range
<1>5. \A k \in keys : u[h] >= u[k]
  BY <1>1, <1>2
<1>6. \A i, j \in DOMAIN l : i < j => u[l[i]] >= u[l[j]]
  <2>1. \A i, j \in DOMAIN lru : i < j => Used[lru[i]] >= Used[lru[j]]
    BY OrderOfUse
  <2>2. \A i, j \in DOMAIN l : i < j => Used[l[i]] >= Used[l[j]]
    BY <2>1, KeepingKeepsOrder
  <2>3. l \in Seq(keys)
    BY <1>1, KeepingIsOrder
  <2>4. \A i \in DOMAIN l : l[i] \in keys /\ u[l[i]] = Used[l[i]]
    BY <2>3
  <2>5. QED BY <2>2, <2>4
<1>7. l \in Keeping(l, keys)
  BY DEF Keeping
<1> HIDE DEF u
<1>8. \A i, j \in DOMAIN lru' : i < j => u[lru'[i]] >= u[lru'[j]]
  BY <1>1, <1>5, <1>6, <1>7, FrontKeepsOrder
<1>9. \A i, j \in DOMAIN lru' : i < j => Used'[lru'[i]] >= Used'[lru'[j]]
  BY <1>3, <1>4, <1>8
<1>10. \A k \in DOMAIN entries' : Used'[k] <= now'
  BY <1>1, <1>2
<1>11. QED BY <1>4, <1>9, <1>10 DEF InOrder, Used

LEMMA PromoteKeepsOrder ==
  ASSUME Shape, Shape', Sound, Owned, InOrder, NEW c \in Client, LookupPromote(c)
  PROVE  InOrder'
<1> DEFINE h == req[c].hash
           keys == DOMAIN entries \ {h}
<1>1. CASE h \notin DOMAIN entries
  BY <1>1 DEF LookupPromote, InOrder
<1>2. CASE h \in DOMAIN entries
  <2>1. entries' = entries /\ now' = now /\ heap' = [heap EXCEPT ![entries[h]].used = now] /\ MoveToFront(h)
    BY <1>2 DEF LookupPromote
  <2>2. PICK l \in Keeping(lru, keys) : lru' = <<h>> \o l
    BY <2>1 DEF MoveToFront
  <2>3. /\ heap \in [Ref -> Object \cup {Blank}] /\ entries[h] \in Ref
        /\ \A k \in keys : entries[k] \in Ref /\ entries[k] # entries[h]
    BY <1>2, UsedIsTime DEF Sound, TypeOK, Owned
  <2>4. \A r \in Ref : heap'[r] = IF r = entries[h] THEN [heap[r] EXCEPT !.used = now] ELSE heap[r]
    BY <2>1, <2>3
  <2>5. heap'[entries[h]].used = now
    <3>1. heap[entries[h]] \in Object
      BY <1>2, <2>3 DEF Sound, InUse, Range
    <3>2. \A o \in Object : [o EXCEPT !.used = now].used = now
      BY DEF Object
    <3>3. QED BY <2>3, <2>4, <3>1, <3>2
  <2>6. Used'[h] = now
    BY <1>2, <2>1, <2>5 DEF Used
  <2>7. \A k \in keys : Used'[k] = Used[k]
    BY <2>1, <2>3, <2>4 DEF Used
  <2>8. DOMAIN entries' = keys \cup {h} /\ h \notin keys /\ keys \in SUBSET DOMAIN entries
    BY <1>2, <2>1
  <2> HIDE DEF keys, h
  <2>9. QED BY <2>1, <2>2, <2>6, <2>7, <2>8, FrontMostRecent
<1>3. QED BY <1>1, <1>2

LEMMA StoreKeepsOrder ==
  ASSUME Shape, Shape', Sound, Owned, InOrder, NEW c \in Client, StoreEntry(c)
  PROVE  InOrder'
<1> DEFINE h == req[c].hash
           keys == IF h \in DOMAIN entries THEN DOMAIN entries \ {h} ELSE DOMAIN entries \ evictLRU
<1>1. now' = now /\ DOMAIN entries' = keys \cup {h} /\ \E l \in Keeping(lru, keys) : lru' = <<h>> \o l
  BY DEF StoreEntry, MoveToFront
<1>2. PICK l \in Keeping(lru, keys) : lru' = <<h>> \o l
  BY <1>1
<1>3. h \notin keys /\ keys \in SUBSET DOMAIN entries
  OBVIOUS
<1>4. Used'[h] = now
  BY StoreWrites DEF Used
<1>5. ASSUME NEW k \in keys PROVE Used'[k] = Used[k]
  <2>1. k \in DOMAIN entries' \ {h} /\ k \in DOMAIN entries /\ entries'[k] = entries[k] /\ entries[k] \in Ref
    BY <1>1, <1>3, StoreWrites, UsedIsTime
  <2>2. entries[k] \in InUse' \cap InUse \cap Ref
    BY <2>1 DEF InUse, Range
  <2>3. h \in DOMAIN entries => entries[h] # entries[k]
    BY <2>1 DEF Owned
  <2>4. heap'[entries[k]] = heap[entries[k]]
    BY <2>2, <2>3, StoreWrites
  <2>5. QED BY <2>1, <2>4 DEF Used
<1> HIDE DEF keys, h
<1>6. QED BY <1>1, <1>2, <1>3, <1>4, <1>5, FrontMostRecent

\* A key a store pushes out stood last.
LEMMA EvictedStoodLast ==
  ASSUME Shape, NEW c \in Client, StoreEntry(c), NEW h \in Evicted
  PROVE  lru \in Seq(DOMAIN entries) /\ lru # <<>> /\ h = lru[Len(lru)]
  BY DEF StoreEntry, Evicted, evictLRU, Shape

\* Within one incarnation the entry a store evicts is one that no entry that stays
\* was used before, for any number of entries and any interleaving of lookups that
\* promote, stores that replace, sweeps, expiries and flushes.
THEOREM CacheEvictsLRU == SpecUp => EvictsLRU
<1> DEFINE I == Shape /\ Sound /\ Owned /\ InOrder
<1>1. Init => I
  BY InitShape, InitSound DEF Init, Owned, InOrder
<1>2. I /\ [Up]_vars => I'
  <2>1. ASSUME I, UNCHANGED vars PROVE I'
    <3>1. Owned' /\ InOrder'
      BY <2>1 DEF Owned, InOrder, vars, memory
    <3>2. QED BY <2>1, <3>1, StutterKeepsBoth
  <2>2. ASSUME I, Up PROVE I'
    <3>1. Shape' /\ Sound'
      BY <2>2, NextKeepsShape, NextKeepsSound DEF Next
    <3>2. QED BY <2>2, <3>1, UpKeepsOwned, OthersKeepOrder, PromoteKeepsOrder, StoreKeepsOrder
  <2>3. QED BY <2>1, <2>2
<1>3. ASSUME I, NEW c \in Client, StoreEntry(c), NEW h \in Evicted, NEW g \in DOMAIN entries
      PROVE  heap[entries[h]].used <= heap[entries[g]].used
  <2>1. lru \in Seq(DOMAIN entries) /\ lru # <<>> /\ h = lru[Len(lru)] /\ h \in DOMAIN entries
    BY <1>3, EvictedStoodLast DEF Evicted
  <2>2. PICK i \in DOMAIN lru : lru[i] = g
    BY <1>3 DEF Shape, Range
  <2>3. heap[entries[g]].used \in Nat /\ heap[entries[h]].used \in Nat
    BY <1>3, <2>1, UsedIsTime DEF Used
  <2>4. Len(lru) \in DOMAIN lru /\ (i = Len(lru) \/ i < Len(lru))
    BY <2>1, <2>2
  <2>5. QED BY <1>3, <2>1, <2>2, <2>3, <2>4 DEF InOrder
<1>4. I => [(\E c \in Client : StoreEntry(c)) =>
              \A h \in Evicted : \A g \in DOMAIN entries \cap DOMAIN entries' :
                  heap[entries[h]].used <= heap[entries[g]].used]_vars
  BY <1>3
<1> HIDE DEF I
<1>5. QED BY <1>1, <1>2, <1>4, PTL DEF SpecUp, EvictsLRU

=============================================================================
