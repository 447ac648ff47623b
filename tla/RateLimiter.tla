----------------------------- MODULE RateLimiter -----------------------------
(***************************************************************************)
(* The rate limits of one rule: rateLimitAction and requestCountCondition   *)
(* (rules/actions.go, rules/conditions.go) over the buckets of              *)
(* rules/ratelimiter.go.                                                    *)
(*                                                                          *)
(* A request passes up to three counters in turn, a token bucket for the    *)
(* request rate and two fixed-period quotas.  Each is found under the map's  *)
(* lock and used under its own, so the sweep can drop a bucket in between.   *)
(* Clocks are kept relative (time since a refill, time to a reset) and stop  *)
(* where the code no longer tells values apart.                              *)
(***************************************************************************)
EXTENDS Integers, FiniteSets, Functions

CONSTANTS
    Agent,        \* agents the rule applies to
    Client,       \* request goroutines
    Ref,          \* addresses of buckets
    Nil,          \* no bucket
    Limit,        \* kind -> rate_limit_requests, _cost_usd, _tokens_day; 0: no check
    Window,       \* rate_limit_window_sec, in ticks
    Period,       \* one day, in ticks
    Amounts       \* what a request costs, and its tokens

Kind == {"req", "cost", "tok"}

\* The rule has a limit: without one none of its counters is ever touched.
LimiterConstants ==
    /\ Limit \in [Kind -> Nat] /\ \E k \in Kind : Limit[k] > 0
    /\ Window \in Nat \ {0} /\ Period \in Nat \ {0}
    /\ Amounts \subseteq Nat
    /\ Nil \notin Ref

VARIABLES
    buckets,  \* rl.buckets
    heap,     \* the tokenBucket objects
    req,      \* request goroutines
    conditioned,  \* the rule has a request_count condition with its own limit
    watched,  \* the counter an observer looks at (history)
    since,    \* time since it started to look (history)
    taken,    \* what the counter let through since then (history)
    stray,    \* the part of it that dropped buckets let through (history)
    bypassed  \* requests let by since then because the rule did not match (history)

seen == <<taken, stray, bypassed>>
vars == <<buckets, heap, req, conditioned, watched, since, seen>>

\* The scope ("agent" or "global") only prefixes the key: the agent is always
\* part of it.
Key == Kind \X Agent
Span(k) == IF k = "req" THEN Window ELSE Period
Idled   == 2 * Window + 1     \* no refill for more than 2x the window

\* tokens and age (since lastRefill) of a rate bucket; used and left (to
\* resetAt) of a quota bucket.
Bucket == [kind : Kind, tokens : 0 .. Limit["req"], age : 0 .. Idled,
           used : Nat, left : -(Period + 1) .. Period]
NewBucket(k) == [kind |-> k, tokens |-> Limit["req"], age |-> 0, used |-> 0, left |-> Period]
Blank == NewBucket("req")

RequestState == [pc : {"idle", "get", "take", "allowed", "limited"},
                 agent : Agent \cup {Nil}, kind : Kind, ref : Ref \cup {Nil},
                 amount : [Kind -> Amounts \cup {1}]]
Idle == [pc |-> "idle", agent |-> Nil, kind |-> "req", ref |-> Nil,
         amount |-> [k \in Kind |-> 1]]

Init ==
    /\ buckets = [k \in {} |-> Nil] /\ heap = [r \in Ref |-> Blank]
    /\ req = [c \in Client |-> Idle]
    /\ conditioned \in BOOLEAN
    /\ watched \in {key \in Key : Limit[key[1]] > 0}
    /\ since = 0 /\ taken = 0 /\ stray = 0 /\ bypassed = 0

InUse == Range(buckets) \cup { req[c].ref : c \in Client }
Collect(objects) ==
    heap' = [r \in Ref |-> IF r \in InUse' THEN objects[r] ELSE Blank]

-----------------------------------------------------------------------------
(* The counters *)

\* int(elapsed * maxTokens / windowSec), capped.
Refilled(b) ==
    LET level == b.tokens + (b.age * Limit["req"]) \div Window
    IN IF level > Limit["req"] THEN Limit["req"] ELSE level

ConsumeOne_Lossy(b) ==   \* mutant: the clock restarts at every call
    LET level == Refilled(b)
    IN [ok |-> level > 0,
        bucket |-> [b EXCEPT !.tokens = IF level > 0 THEN level - 1 ELSE level, !.age = 0]]

\* consumeOne: the clock restarts only when whole tokens came in.
ConsumeOne(b) ==
    LET level == Refilled(b)
        age == IF (b.age * Limit["req"]) \div Window > 0 THEN 0 ELSE b.age
    IN [ok |-> level > 0,
        bucket |-> [b EXCEPT !.tokens = IF level > 0 THEN level - 1 ELSE level, !.age = age]]

\* consumeQuota: a period that is over starts anew with this request.
ConsumeQuota(b, kind, amount) ==
    LET fresh == IF b.left < 0 THEN [b EXCEPT !.used = 0, !.left = Period] ELSE b
        ok == fresh.used + amount <= Limit[kind]
    IN [ok |-> ok, bucket |-> IF ok THEN [fresh EXCEPT !.used = @ + amount] ELSE fresh]

Consume(b, kind, amount) ==
    IF kind = "req" THEN ConsumeOne(b) ELSE ConsumeQuota(b, kind, amount)

\* Whether PeekRequest would let the next request through.
Peek(a) ==
    <<"req", a>> \in DOMAIN buckets => Refilled(heap[buckets[<<"req", a>>]]) > 0

Counting == since <= Span(watched[1])
Count(total, key, n) == IF Counting /\ key = watched THEN total + n ELSE total

-----------------------------------------------------------------------------
(* One request *)

\* What Apply checks after kind k: the limits that are set, in this order.
After(k) == CASE k = "start" /\ Limit["req"] > 0 -> "req"
              [] k \in {"start", "req"} /\ Limit["cost"] > 0 -> "cost"
              [] k # "tok" /\ Limit["tok"] > 0 -> "tok"
              [] OTHER -> "none"

\* A rule with a request_count condition matches once the limit is hit; only
\* then does its action run.
Unmatched(a) == conditioned /\ Peek(a)

\* More than any window should let by: counted no further.
Excess == 2 * Limit["req"] + 1
Bypass(a) ==
    LET n == Count(bypassed, <<"req", a>>, 1) IN
    bypassed' = IF Unmatched(a) /\ n <= Excess THEN n ELSE bypassed

Arrive(c, a, cost, tok) ==
    /\ req[c].pc \in {"idle", "allowed", "limited"}
    /\ req' = [req EXCEPT ![c] =
         IF Unmatched(a) THEN [Idle EXCEPT !.pc = "allowed", !.agent = a]
         ELSE [pc |-> "get", agent |-> a, kind |-> After("start"), ref |-> Nil,
               amount |-> [k \in Kind |-> CASE k = "cost" /\ Limit[k] > 0 -> cost
                                            [] k = "tok" /\ Limit[k] > 0 -> tok
                                            [] OTHER -> 1]]]
    /\ Bypass(a)
    /\ UNCHANGED <<buckets, heap, conditioned, watched, since, taken, stray>>

\* getOrCreate.
Get(c) ==
    /\ req[c].pc = "get"
    /\ LET key == <<req[c].kind, req[c].agent>> IN
         \/ /\ key \in DOMAIN buckets
            /\ req' = [req EXCEPT ![c].pc = "take", ![c].ref = buckets[key]]
            /\ UNCHANGED <<buckets, heap>>
         \/ /\ key \notin DOMAIN buckets /\ Ref \ InUse # {}
            /\ LET r == CHOOSE r \in Ref : r \notin InUse IN
                 /\ req' = [req EXCEPT ![c].pc = "take", ![c].ref = r]
                 /\ buckets' = [k \in DOMAIN buckets \cup {key} |->
                                  IF k = key THEN r ELSE buckets[k]]
                 /\ heap' = [heap EXCEPT ![r] = NewBucket(key[1])]
    /\ UNCHANGED <<conditioned, watched, since, seen>>

\* consumeOne or consumeQuota; a refusal ends the request, but what it took
\* from the counters before stays taken.
Take(c) ==
    /\ req[c].pc = "take"
    /\ LET q == req[c]
           key == <<q.kind, q.agent>>
           n == q.amount[q.kind]
           use == Consume(heap[q.ref], q.kind, n)
           next == After(q.kind)
           at == IF ~use.ok THEN "limited" ELSE IF next = "none" THEN "allowed" ELSE "get"
       IN /\ req' = [req EXCEPT ![c] =
               IF at = "get" THEN [q EXCEPT !.pc = at, !.ref = Nil, !.kind = next]
               ELSE [Idle EXCEPT !.pc = at, !.agent = q.agent]]
          /\ UNCHANGED buckets
          /\ Collect([heap EXCEPT ![q.ref] = use.bucket])
          /\ taken' = IF use.ok THEN Count(taken, key, n) ELSE taken
          /\ stray' = IF use.ok /\ q.ref \notin Range(buckets)
                      THEN Count(stray, key, n) ELSE stray
    /\ UNCHANGED <<conditioned, watched, since, bypassed>>

-----------------------------------------------------------------------------
(* The sweep, and time *)

Stale_Early(key) ==   \* mutant: half the window for twice the window
    LET b == heap[buckets[key]] IN
    IF key[1] = "req" THEN 2 * b.age >= Window ELSE b.left < 0 /\ b.used = 0

Stale(key) ==
    LET b == heap[buckets[key]] IN
    IF key[1] = "req" THEN b.age >= Idled ELSE b.left < 0 /\ b.used = 0

Cleanup ==
    /\ \E key \in DOMAIN buckets : Stale(key)
    /\ buckets' = Restrict(buckets, {key \in DOMAIN buckets : ~Stale(key)})
    /\ UNCHANGED req
    /\ Collect(heap)
    /\ UNCHANGED <<conditioned, watched, since, seen>>

Tick ==
    /\ heap' = [r \in Ref |-> IF r \notin InUse THEN heap[r] ELSE
         IF heap[r].kind = "req"
         THEN [heap[r] EXCEPT !.age = IF @ < Idled THEN @ + 1 ELSE @]
         ELSE [heap[r] EXCEPT !.left = IF @ >= -Period THEN @ - 1 ELSE @]]
    /\ since' = IF Counting THEN since + 1 ELSE since
    /\ UNCHANGED <<buckets, req, conditioned, watched>>
    /\ taken' = IF Counting' THEN taken ELSE 0
    /\ stray' = IF Counting' THEN stray ELSE 0
    /\ bypassed' = IF Counting' THEN bypassed ELSE 0

\* The observer may start to count anew at any moment.
Mark ==
    /\ since > 0
    /\ since' = 0 /\ taken' = 0 /\ stray' = 0 /\ bypassed' = 0
    /\ UNCHANGED <<buckets, heap, req, conditioned, watched>>

Step(c) ==
    \/ \E a \in Agent, cost, tok \in Amounts : Arrive(c, a, cost, tok)
    \/ Get(c) \/ Take(c)
Next == (\E c \in Client : Step(c)) \/ Cleanup \/ Tick \/ Mark

Spec == Init /\ [][Next]_vars

\* Callers keep asking, the clock runs; the sweep need not.
FairSpec == Spec /\ (\A c \in Client : WF_vars(Step(c))) /\ WF_vars(Tick)

-----------------------------------------------------------------------------
(* Properties *)

\* However requests, refills and sweeps interleave, no span as long as the
\* window (the period) lets through more than twice the limit: a full bucket,
\* then what refilled.  Only requests that were already holding a bucket when
\* the sweep dropped it come on top.
BurstBound ==
    Counting => taken <= 2 * Limit[watched[1]] + stray

\* A caller that keeps asking keeps being let through: refills are not lost to
\* refused attempts, and exhausted quotas come back.
Admitted(a) == \E c \in Client : req[c].pc = "allowed" /\ req[c].agent = a
KeepsAdmitting ==
    \A a \in Agent : []<>Admitted(a)

\* The "Rate limit per agent" of RULES_ENGINE.md:126-143 repeats its limit as a
\* request_count condition: it too lets no span as long as the window have more
\* than twice the limit.  It does not hold: see ConditionNeverMet.
LimitsWhenConditioned ==
    conditioned /\ Counting /\ watched[1] = "req" =>
        taken + bypassed <= 2 * Limit["req"] + stray

\* Why: the condition looks at the bucket that only the rule's own action creates,
\* and the action runs only if the condition is met, so such a rule never limits
\* anyone, however many requests come (conditions.go:237-243).
ConditionNeverMet == conditioned => \A c \in Client : req[c].pc \in {"idle", "allowed"}
=============================================================================
