------------------------------- MODULE ApiKeys -------------------------------
(***************************************************************************)
(* API keys: the middleware that validates the key of every request        *)
(* (auth/auth.go), with its cache of validated keys, the table it asks     *)
(* (store/db.go) and the handlers that issue, revoke and toggle keys       *)
(* (auth/api.go).  Authentication is switched on; when it is off, Wrap     *)
(* lets everything pass.                                                   *)
(***************************************************************************)
EXTENDS Integers

CONSTANTS
  Key,      \* the keys that will ever be generated; each is issued once
  Caller,   \* goroutines of authenticated requests
  Worker,   \* goroutines of the key management API
  TTL,      \* cacheTTL
  MaxNow,   \* bound: the clock stops here
  None

VARIABLES
  now,
  keys,     \* the api_keys table
  cached,   \* Middleware.cache: key -> expires
  call,     \* where each caller is in Wrap, and with which key
  admin,    \* whether each admin's handler has yet to clear the cache
  late       \* ghost: keys remembered although they were no longer valid

vars == <<now, keys, cached, call, admin, late>>

Unissued == [state |-> "unissued", expires |-> 0]
Idle == [at |-> "idle", key |-> None]

Init ==
  /\ now = 1
  /\ keys = [k \in Key |-> Unissued]
  /\ cached = [k \in Key |-> None]
  /\ call = [c \in Caller |-> Idle]
  /\ admin = [a \in Worker |-> "idle"]
  /\ late = {}

(* ValidateAPIKeyHash: the row is there, enabled and not expired (0: never) *)
Valid(k) ==
  /\ keys[k].state = "on"
  /\ keys[k].expires = 0 \/ now <= keys[k].expires

(* A cached key that has not expired is let in without a look at the table *)
Admitted(k) == cached[k] # None /\ now <= cached[k]

-----------------------------------------------------------------------------
(* Wrap *)

Move(c, at, k) == call' = [call EXCEPT ![c] = [at |-> at, key |-> k]]
Leave(c) == call' = [call EXCEPT ![c] = Idle]

Ask(c, k) ==
  /\ call[c].at = "idle"
  /\ ~Admitted(k)
  /\ Move(c, IF cached[k] = None THEN "query" ELSE "drop", k)
  /\ UNCHANGED <<now, keys, cached, admin, late>>

(* checkCache removes the expired entry, or the fresh one another caller   *)
(* has put in its place                                                    *)
DropExpired(c) ==
  /\ call[c].at = "drop"
  /\ cached' = [cached EXCEPT ![call[c].key] = None]
  /\ Move(c, "query", call[c].key)
  /\ UNCHANGED <<now, keys, admin, late>>

(* the answer is no, or an error, or the key is to be remembered *)
Query(c) ==
  /\ call[c].at = "query"
  /\ \/ Leave(c)
     \/ Valid(call[c].key) /\ Move(c, "remember", call[c].key)
  /\ UNCHANGED <<now, keys, cached, admin, late>>

Remember(c) ==
  /\ call[c].at = "remember"
  /\ cached' = [cached EXCEPT ![call[c].key] = now + TTL]
  /\ late' = IF Valid(call[c].key) THEN late \ {call[c].key} ELSE late \cup {call[c].key}
  /\ Leave(c)
  /\ UNCHANGED <<now, keys, admin>>

Sweep ==
  /\ cached' = [k \in Key |-> IF Admitted(k) THEN cached[k] ELSE None]
  /\ cached' # cached
  /\ UNCHANGED <<now, keys, call, admin, late>>

-----------------------------------------------------------------------------
(* HandleCreate, HandleDelete, HandleToggle: a statement, then the cache   *)

Statement(a, k, row) ==
  /\ admin[a] = "idle"
  /\ keys' = [keys EXCEPT ![k] = row]
  /\ admin' = [admin EXCEPT ![a] = "clear"]
  /\ UNCHANGED <<now, cached, call, late>>

Create(a, k) ==
  /\ keys[k].state = "unissued"
  /\ \E e \in {0, now + 1} : Statement(a, k, [state |-> "on", expires |-> e])

Delete(a, k) ==
  /\ keys[k].state \in {"on", "off"}
  /\ Statement(a, k, [state |-> "deleted", expires |-> 0])

\* mutant: the cache is cleared only when a key is switched on
Toggle_Kept(a, k, state) ==
  /\ keys[k].state \in {"on", "off"}
  /\ admin[a] = "idle"
  /\ keys' = [keys EXCEPT ![k].state = state]
  /\ admin' = [admin EXCEPT ![a] = IF state = "on" THEN "clear" ELSE "idle"]
  /\ UNCHANGED <<now, cached, call, late>>
Toggle(a, k, state) ==
  /\ keys[k].state \in {"on", "off"}
  /\ Statement(a, k, [keys[k] EXCEPT !.state = state])

InvalidateCache(a) ==
  /\ admin[a] = "clear"
  /\ cached' = [k \in Key |-> None]
  /\ admin' = [admin EXCEPT ![a] = "idle"]
  /\ late' = {}
  /\ UNCHANGED <<now, keys, call>>

Tick == now < MaxNow /\ now' = now + 1
        /\ UNCHANGED <<keys, cached, call, admin, late>>

Wrap(c) == (\E k \in Key : Ask(c, k)) \/ DropExpired(c) \/ Query(c) \/ Remember(c)
Manage(a) ==
  \/ \E k \in Key : Create(a, k) \/ Delete(a, k)
                    \/ \E state \in {"on", "off"} : Toggle(a, k, state)
  \/ InvalidateCache(a)

Next == (\E c \in Caller : Wrap(c)) \/ (\E a \in Worker : Manage(a)) \/ Sweep \/ Tick

Spec == Init /\ [][Next]_vars

-----------------------------------------------------------------------------
(* "Invalidate cache so revoked key is rejected immediately"               *)
(* (auth/api.go:151), as far as the code keeps it: a key that is not valid *)
(* is admitted by the cache only while the handler that revoked it has yet *)
(* to clear it, or when it was remembered too late, by a validation begun  *)
(* before; and one that has expired no longer than the cache's TTL.        *)
RevokedStaysOut ==
  \A k \in Key : Admitted(k) /\ ~Valid(k) =>
    \/ \E a \in Worker : admin[a] = "clear"
    \/ k \in late
    \/ keys[k].state = "on" /\ now <= keys[k].expires + TTL
=============================================================================
