------------------------------- MODULE Upstream -------------------------------
(***************************************************************************)
(* One request's way to an answer: executeUpstreamRequest and the steps of   *)
(* handleRequest around it (proxy/handler.go), RetryWithBackoff              *)
(* (reliability/retry.go) and SelectFallback (reliability/fallback.go).      *)
(*                                                                          *)
(* The primary is retried with backoff, then the providers of a failover     *)
(* rule are tried, then one fallback.  Any call may succeed, be refused, be  *)
(* answered with a status that asks for a retry, or be lost.                 *)
(***************************************************************************)
EXTENDS Naturals, Sequences, FiniteSets

CONSTANTS
    Provider,      \* providers
    Original,      \* the one the request is for
    Resolvable,    \* those whose URL SelectFallback's caller can resolve
    MaxAttempts,   \* cfg.RetryMaxAttempts
    InitialDelay,  \* cfg.RetryInitialDelay
    MaxDelay,      \* cfg.RetryMaxDelay
    MaxChain,      \* bound: providers after the first of a failover rule
    Chains,        \* fallback_configs.fallback_chain: the values tried
    Tiers          \* getTierFallbacks: the values tried

\* What the settings and the tables hold.
UpstreamConstants ==
    /\ Original \in Provider /\ Resolvable \subseteq Provider
    /\ MaxAttempts \in Nat \ {0}       \* validateSettings
    /\ InitialDelay \in Nat \ {0} /\ MaxDelay \in Nat /\ InitialDelay <= MaxDelay
    /\ MaxChain \in Nat
    /\ Chains \subseteq Seq(Provider) /\ Tiers \subseteq Seq(Provider)

VARIABLES
    retrying,    \* cfg.RetryEnabled when the request started
    falling,     \* cfg.FallbackEnabled, which the settings API may change
    rule,        \* providers in the rule's chain after the first
    options,     \* the enabled fallback_configs chain for the model, or <<>>
    tier,        \* the tier's candidates
    pc,          \* where the request stands
    calls,       \* every call made: its stage, provider and outcome
    attempt,     \* RetryResult.Attempts
    delay,       \* the next wait
    waits,       \* the waits so far
    lastFailed,  \* the call whose response is kept for want of a better, or 0
    open,        \* calls whose response body is open
    answer       \* what the client gets: a call, or 0 for 502

settings == <<retrying, rule, options, tier>>
backoff  == <<attempt, delay, waits>>
vars == <<settings, falling, pc, calls, backoff, lastFailed, open, answer>>

Outcome == {"ok", "refused", "busy", "lost"}  \* 2xx; other; 429/5xx/529; no response
Call == [stage : {"primary", "chain", "fallback"}, to : Provider \cup {"rule"}, out : Outcome]
Answered(n) == calls[n].out # "lost"

Init ==
    /\ retrying \in BOOLEAN /\ falling \in BOOLEAN
    /\ rule \in 0 .. MaxChain /\ options \in Chains /\ tier \in Tiers
    /\ pc = "call" /\ calls = <<>>
    /\ attempt = 0 /\ delay = InitialDelay /\ waits = <<>>
    /\ lastFailed = 0 /\ open = {} /\ answer = 0

\* doRequest.
Made(stage, to, out) == calls' = Append(calls, [stage |-> stage, to |-> to, out |-> out])
This == Len(calls) + 1

-----------------------------------------------------------------------------
(* RetryWithBackoff over the primary *)

\* IsRetryableError: a retryable status closes its body and is an error, and
\* so is no response at all.
Attempt(out) ==
    /\ pc = "call"
    /\ Made("primary", Original, out)
    /\ attempt' = attempt + 1
    /\ LET failed == out \in {"busy", "lost"}
           last == ~retrying \/ attempt + 1 = MaxAttempts
       IN /\ open' = IF failed THEN open ELSE open \cup {This}
          /\ \/ failed /\ ~last /\ pc' = "wait" /\ UNCHANGED <<lastFailed, answer>>
             \/ failed /\ last /\ pc' = "chain" /\ UNCHANGED <<lastFailed, answer>>
             \/ /\ ~failed /\ (rule = 0 \/ out = "ok")
                /\ pc' = "reply" /\ answer' = This /\ UNCHANGED lastFailed
             \/ /\ ~failed /\ rule > 0 /\ out # "ok"
                /\ pc' = "chain" /\ lastFailed' = This /\ UNCHANGED answer
    /\ UNCHANGED <<settings, falling, delay, waits>>

Wait_Late ==       \* mutant: doubles before it sleeps
    /\ pc = "wait"
    /\ delay' = IF 2 * delay > MaxDelay THEN MaxDelay ELSE 2 * delay
    /\ waits' = Append(waits, delay')
    /\ pc' = "call"
    /\ UNCHANGED <<settings, falling, calls, attempt, lastFailed, open, answer>>

\* time.Sleep(delay), then the delay doubles up to the maximum.
Wait ==
    /\ pc = "wait"
    /\ waits' = Append(waits, delay)
    /\ delay' = IF 2 * delay > MaxDelay THEN MaxDelay ELSE 2 * delay
    /\ pc' = "call"
    /\ UNCHANGED <<settings, falling, calls, attempt, lastFailed, open, answer>>

-----------------------------------------------------------------------------
(* The failover rule's chain *)

Tried == Cardinality({n \in DOMAIN calls : calls[n].stage = "chain"})

ChainCall_Leak(out) ==   \* mutant: the response kept so far is not closed
    /\ pc = "chain" /\ Tried < rule
    /\ Made("chain", "rule", out)
    /\ open' = IF out = "lost" THEN open ELSE open \cup {This}
    /\ lastFailed' = IF out \in {"refused", "busy"} THEN This ELSE lastFailed
    /\ IF out = "ok" THEN pc' = "reply" /\ answer' = This ELSE UNCHANGED <<pc, answer>>
    /\ UNCHANGED <<settings, falling, backoff>>

\* The first 2xx wins; any other response replaces the one kept so far.
ChainCall(out) ==
    /\ pc = "chain" /\ Tried < rule
    /\ Made("chain", "rule", out)
    /\ \/ /\ out = "ok"
          /\ pc' = "reply" /\ answer' = This
          /\ open' = (open \ {lastFailed}) \cup {This}
          /\ UNCHANGED lastFailed
       \/ /\ out \in {"refused", "busy"}
          /\ lastFailed' = This
          /\ open' = (open \ {lastFailed}) \cup {This}
          /\ UNCHANGED <<pc, answer>>
       \/ /\ out = "lost"
          /\ UNCHANGED <<pc, answer, lastFailed, open>>
    /\ UNCHANGED <<settings, falling, backoff>>

ChainExhausted_Forget ==   \* mutant: the kept response is not returned
    /\ pc = "chain" /\ Tried = rule
    /\ pc' = IF falling THEN "fallback" ELSE "reply"
    /\ UNCHANGED <<settings, falling, calls, backoff, lastFailed, open, answer>>

\* The kept response is the answer; without one, and with retries exhausted,
\* the fallback is next.
ChainExhausted ==
    /\ pc = "chain" /\ Tried = rule
    /\ pc' = IF lastFailed = 0 /\ falling THEN "fallback" ELSE "reply"
    /\ answer' = lastFailed
    /\ UNCHANGED <<settings, falling, calls, backoff, lastFailed, open>>

-----------------------------------------------------------------------------
(* The fallback *)

Others(s) == SelectSeq(s, LAMBDA p : p # Original)

\* The first candidate of another provider: the configured chain's, else the
\* tier's, else none.
SelectFallback ==
    IF Others(options) # <<>> THEN {Head(Others(options))}
    ELSE IF Others(tier) # <<>> THEN {Head(Others(tier))} ELSE {}

FallbackCall(out) ==
    /\ pc = "fallback"
    /\ \E p \in SelectFallback \cap Resolvable :
         /\ Made("fallback", p, out)
         /\ answer' = IF out = "lost" THEN 0 ELSE This
         /\ open' = IF out = "lost" THEN open ELSE open \cup {This}
    /\ pc' = "reply"
    /\ UNCHANGED <<settings, falling, backoff, lastFailed>>

NoFallback_Unresolved ==   \* mutant: an unknown provider is not skipped
    /\ pc = "fallback" /\ SelectFallback = {}
    /\ pc' = "reply"
    /\ UNCHANGED <<settings, falling, calls, backoff, lastFailed, open, answer>>

NoFallback ==
    /\ pc = "fallback" /\ SelectFallback \cap Resolvable = {}
    /\ pc' = "reply"
    /\ UNCHANGED <<settings, falling, calls, backoff, lastFailed, open, answer>>

-----------------------------------------------------------------------------

\* handleRequest: 502 if there is an error, else the response, whose body it
\* closes on return.
Reply ==
    /\ pc = "reply"
    /\ pc' = "done"
    /\ open' = IF answer = 0 THEN open ELSE open \ {answer}
    /\ UNCHANGED <<settings, falling, calls, backoff, lastFailed, answer>>

\* A settings change while the request runs (the retry settings were copied).
PutSettings ==
    /\ pc \in {"call", "wait", "chain"}
    /\ falling' = ~falling
    /\ UNCHANGED <<settings, pc, calls, backoff, lastFailed, open, answer>>

Step ==
    \/ \E out \in Outcome : Attempt(out) \/ ChainCall(out) \/ FallbackCall(out)
    \/ Wait \/ ChainExhausted \/ NoFallback \/ Reply
Next == Step \/ PutSettings

Spec == Init /\ [][Next]_vars

\* Every call returns, at the latest with the client's timeout.
FairSpec == Spec /\ WF_vars(Step)

-----------------------------------------------------------------------------
(* Properties *)

Stage(s) == { n \in DOMAIN calls : calls[n].stage = s }
Newest(S) == CHOOSE n \in S : \A m \in S : m <= n

\* What the client should get, said of the calls alone: the first success; or
\* else, of the responses of a refused primary and of the chain, the newest;
\* or else whatever the fallback answered; or else nothing.
Verdict ==
    LET wins == {n \in DOMAIN calls : calls[n].out = "ok"}
        kept == {n \in Stage("primary") : calls[n].out = "refused"}
                    \cup {n \in Stage("chain") : Answered(n)}
        late == {n \in Stage("fallback") : Answered(n)}
    IN CASE wins # {} -> Newest(wins)
         [] wins = {} /\ kept # {} -> Newest(kept)
         [] wins = {} /\ kept = {} /\ late # {} -> Newest(late)
         [] OTHER -> 0

\* The client gets that answer, and nobody is asked again once one succeeded
\* (failover_test.go:46-62: a cascade ends in the first 2xx, else in the last
\* failed status, never in no response).
AnswerIsVerdict ==
    /\ pc \in {"reply", "done"} => answer = Verdict
    /\ \A n \in DOMAIN calls : calls[n].out = "ok" => n = Len(calls)

\* Of all the responses a cascade goes through at most one body is ever open,
\* and none after the reply: a leaked body pins a connection.
OneOpenBody ==
    /\ Cardinality(open) <= 1
    /\ pc = "done" => open = {}

\* math.Pow with the multiplier 2 of retry.go:120.
PowerOfTwo[n \in Nat] == IF n = 0 THEN 1 ELSE 2 * PowerOfTwo[n - 1]
CalculateBackoffDelay(n) ==
    LET d == InitialDelay * PowerOfTwo[n - 1] IN IF d > MaxDelay THEN MaxDelay ELSE d

\* The waits are those of CalculateBackoffDelay, the closed form: the k-th is
\* InitialDelay * 2^(k-1), capped.
WaitsFollowFormula ==
    \A k \in DOMAIN waits : waits[k] = CalculateBackoffDelay(k)

\* A request is always answered, whatever the providers do.
Replied == pc = "done"
AlwaysAnswered == <>[]Replied
=============================================================================
