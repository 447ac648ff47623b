------------------------------- MODULE Traffic -------------------------------
(***************************************************************************)
(* What a request meets on its way, side by side: the providers it is sent *)
(* to (Upstream), its session (Sessions) and the rate limits of a rule     *)
(* (RateLimiter).  They share no state (proxy/handler.go calls one after   *)
(* the other), so a step of one leaves the other two alone.                *)
(***************************************************************************)
EXTENDS Integers, Sequences, FiniteSets

CONSTANTS
  Moving,        \* sets of those of the three that may take steps together
  Provider, Original, Resolvable, MaxAttempts, InitialDelay, MaxDelay,
  MaxChain, Chains, Tiers,                                \* of Upstream
  Request, Sid, Topic, MaxSessions, MaxLoopSessions, MaxAge, LoopWindow,
  PersistSlots, MaxNow, MaxRestarts, None,                \* of Sessions
  Agent, Client, Ref, Nil, Limit, Window, Period, Amounts \* of RateLimiter

VARIABLES
  moving,        \* those that take steps; the others stand still
  retrying, falling, rule, options, tier, pc, calls, attempt, delay, waits,
  lastFailed, open, answer,
  now, restarts, stage, sid, topic, held, outcome, fate, sessions, totals,
  stale, recent, table, added, dropped, forgotten,
  buckets, heap, req, conditioned, watched, since, taken, stray, bypassed

U == INSTANCE Upstream
S == INSTANCE Sessions WITH pc <- stage, heap <- totals, Window <- LoopWindow
L == INSTANCE RateLimiter

ASSUME UpstreamAssumption == U!UpstreamConstants
ASSUME SessionsAssumption == S!SessionsConstants
ASSUME LimiterAssumption == L!LimiterConstants

upstreamVars == <<retrying, falling, rule, options, tier, pc, calls, attempt, delay, waits,
                  lastFailed, open, answer>>
sessionVars == <<now, restarts, stage, sid, topic, held, outcome, fate, sessions, totals,
                 stale, recent, table, added, dropped, forgotten>>
limiterVars == <<buckets, heap, req, conditioned, watched, since, taken, stray, bypassed>>
vars == <<moving, upstreamVars, sessionVars, limiterVars>>

\* Which way the choices fall for one that stands still does not matter.
Init ==
  /\ moving \in Moving
  /\ U!Init /\ S!Init /\ L!Init
  /\ \/ "upstream" \in moving
     \/ /\ ~retrying /\ ~falling /\ rule = 0
        /\ options = CHOOSE o \in Chains : TRUE
        /\ tier = CHOOSE t \in Tiers : TRUE
  /\ \/ "limiter" \in moving
     \/ ~conditioned /\ watched = CHOOSE key \in L!Key : Limit[key[1]] > 0

Next ==
  /\ UNCHANGED moving
  /\ \/ "upstream" \in moving /\ U!Next /\ UNCHANGED <<sessionVars, limiterVars>>
     \/ "sessions" \in moving /\ S!Next /\ UNCHANGED <<upstreamVars, limiterVars>>
     \/ "limiter" \in moving /\ L!Next /\ UNCHANGED <<upstreamVars, sessionVars>>

Spec == Init /\ [][Next]_vars

\* The fairness of Upstream and of RateLimiter; Sessions states none.
FairSpec ==
  /\ Spec
  /\ WF_upstreamVars("upstream" \in moving /\ U!Step)
  /\ \A c \in Client : WF_limiterVars("limiter" \in moving /\ L!Step(c))
  /\ WF_limiterVars("limiter" \in moving /\ L!Tick)

-----------------------------------------------------------------------------
(* The properties, of whichever of the three are moving *)

\* The client gets the first success, or else the newest failure kept, and nobody
\* is asked again once one succeeded.
AnswerIsVerdict == U!AnswerIsVerdict

\* At most one response body is open in a cascade, none after the reply.
OneOpenBody == U!OneOpenBody

\* The waits of the retry loop are those CalculateBackoffDelay computes.
WaitsFollowFormula == U!WaitsFollowFormula

\* A request is always answered, whatever the providers do.
AlwaysAnswered == <>[]("upstream" \in moving => U!Replied)

\* The totals of a session are those of its row, but for what is under way.
SpendMatchesTable == S!SpendMatchesTable

\* The loop detector counts exactly the similar prompts of its window.
LoopCountExact == S!LoopCountExact

\* The sweep removes no session that was used within MaxAge.
SweptWereIdle == S!SweptWereIdle

\* A stop that waited for the handlers loses at most PersistSlots records.
StopLosesFew == S!StopLosesFew

\* No window lets through more than twice the limit.
BurstBound == L!BurstBound

\* A rule that repeats its limit as a condition limits like one that does not.
LimitsWhenConditioned == L!LimitsWhenConditioned

\* It never limits anyone.
ConditionNeverMet == L!ConditionNeverMet

\* A caller that keeps asking keeps being let through.
KeepsAdmitting == \A a \in Agent : []<>("limiter" \in moving => L!Admitted(a))
=============================================================================
