---------------------------- MODULE TrafficProofs ----------------------------
(* Theorems about what a request meets on its way: the providers it is sent   *)
(* to (Upstream), its session (Sessions) and its rate limits (RateLimiter),   *)
(* for every number of requests, every limit and every outcome of the calls,  *)
(* whichever of the three take steps and however these interleave.            *)
EXTENDS Traffic, FiniteSetTheorems, WellFoundedInduction, TLAPS

(* A behaviour of the three side by side is one of each. *)
LEMMA EachOfThree == Spec => U!Spec /\ S!Spec /\ L!Spec
<1>1. Init => U!Init /\ S!Init /\ L!Init
  BY DEF Init
<1>2. ASSUME [Next]_vars PROVE [U!Next]_U!vars /\ [S!Next]_S!vars /\ [L!Next]_L!vars
  <2>1. /\ UNCHANGED upstreamVars => UNCHANGED U!vars
        /\ UNCHANGED sessionVars => UNCHANGED S!vars
        /\ UNCHANGED limiterVars => UNCHANGED L!vars
    BY DEF upstreamVars, U!vars, U!settings, U!backoff, sessionVars, S!vars, limiterVars, L!vars, L!seen
  <2>2. UNCHANGED vars => UNCHANGED <<upstreamVars, sessionVars, limiterVars>>
    BY DEF vars
  <2>3. QED BY <1>2, <2>1, <2>2 DEF Next
<1>3. QED BY <1>1, <1>2, PTL DEF Spec, U!Spec, S!Spec, L!Spec

-----------------------------------------------------------------------------
(* Upstream: the calls decide the answer *)

Won  == {n \in DOMAIN calls : calls[n].out = "ok"}
Kept == {n \in DOMAIN calls : \/ calls[n].stage = "primary" /\ calls[n].out = "refused"
                              \/ calls[n].stage = "chain" /\ calls[n].out # "lost"}
Late == {n \in DOMAIN calls : calls[n].stage = "fallback" /\ calls[n].out # "lost"}
IsNewest(n, T) == n \in T /\ \A m \in T : m <= n

Decided ==
  \/ IsNewest(answer, Won)
  \/ Won = {} /\ IsNewest(answer, Kept)
  \/ Won = {} /\ Kept = {} /\ IsNewest(answer, Late)
  \/ Won = {} /\ Kept = {} /\ Late = {} /\ answer = 0

\* No body is open before an answer is kept, then only that of the answer kept.
UpstreamInv ==
  /\ calls \in Seq(U!Call)
  /\ \A n \in Won : n = Len(calls)
  /\ pc \in {"call", "wait", "chain", "fallback", "reply", "done"}
  /\ pc \in {"call", "wait", "chain", "fallback"} => Won = {} /\ Late = {}
  /\ pc \in {"call", "wait", "fallback"} => Kept = {} /\ open = {}
  /\ pc \in {"call", "wait", "fallback"} => lastFailed = 0
  /\ pc \in {"call", "wait", "chain", "fallback"} => answer = 0
  /\ pc = "chain" => \/ Kept = {} /\ lastFailed = 0 /\ open = {}
                     \/ IsNewest(lastFailed, Kept) /\ lastFailed # 0 /\ open = {lastFailed}
  /\ pc \in {"reply", "done"} => Decided
  /\ pc = "reply" => open = IF answer = 0 THEN {} ELSE {answer}
  /\ pc = "done" => open = {}

\* What one more call does to the calls that count.
OneMore(st, out) ==
  LET k == Len(calls) + 1 IN
  /\ U!This = k /\ k \in Nat \ {0} /\ calls' \in Seq(U!Call) /\ Len(calls') = k
  /\ Won' = IF out = "ok" THEN Won \cup {k} ELSE Won
  /\ Kept' = IF (st = "primary" /\ out = "refused") \/ (st = "chain" /\ out # "lost")
             THEN Kept \cup {k} ELSE Kept
  /\ Late' = IF st = "fallback" /\ out # "lost" THEN Late \cup {k} ELSE Late
  /\ \A n \in Won \cup Kept \cup Late : n \in 1 .. Len(calls) /\ n < k

LEMMA OneMoreCall ==
  ASSUME U!UpstreamConstants, calls \in Seq(U!Call), NEW st \in {"primary", "chain", "fallback"},
         NEW to \in Provider \cup {"rule"}, NEW out \in U!Outcome, U!Made(st, to, out)
  PROVE  OneMore(st, out)
<1> DEFINE k == Len(calls) + 1
<1>1. PICK c : c = [stage |-> st, to |-> to, out |-> out]
  OBVIOUS
<1>2. c \in U!Call /\ c.stage = st /\ c.out = out
  BY <1>1 DEF U!Call
<1>3. calls' = Append(calls, c)
  BY <1>1 DEF U!Made
<1>4. Len(calls) \in Nat /\ DOMAIN calls = 1 .. Len(calls)
  OBVIOUS
<1>5. calls' \in Seq(U!Call) /\ Len(calls') = k /\ DOMAIN calls' = 1 .. k
      /\ calls'[k] = c /\ \A n \in 1 .. Len(calls) : calls'[n] = calls[n]
  BY <1>2, <1>3, <1>4
<1>6. U!This = k
  BY DEF U!This
<1>7. k \in Nat \ {0} /\ 1 .. k = (1 .. Len(calls)) \cup {k} /\ k \notin 1 .. Len(calls)
      /\ \A n \in 1 .. Len(calls) : n < k
  BY <1>4
<1> HIDE DEF k
<1>8. Won' = IF out = "ok" THEN Won \cup {k} ELSE Won
  BY <1>2, <1>4, <1>5, <1>7 DEF Won
<1>9. Kept' = IF (st = "primary" /\ out = "refused") \/ (st = "chain" /\ out # "lost")
              THEN Kept \cup {k} ELSE Kept
  BY <1>2, <1>4, <1>5, <1>7 DEF Kept
<1>10. Late' = IF st = "fallback" /\ out # "lost" THEN Late \cup {k} ELSE Late
  BY <1>2, <1>4, <1>5, <1>7 DEF Late
<1>11. \A n \in Won \cup Kept \cup Late : n \in 1 .. Len(calls) /\ n < k
  BY <1>4, <1>7 DEF Won, Kept, Late
<1>12. QED BY <1>5, <1>6, <1>7, <1>8, <1>9, <1>10, <1>11 DEF k, OneMore

LEMMA NewestIsLast ==
  ASSUME NEW T, NEW k \in Nat, \A n \in T : n \in Nat /\ n < k
  PROVE  IsNewest(k, T \cup {k})
  BY DEF IsNewest

LEMMA UpstreamStart == U!Init => UpstreamInv
<1> SUFFICES ASSUME U!Init PROVE UpstreamInv
  OBVIOUS
<1>1. calls = <<>> /\ pc = "call" /\ open = {} /\ answer = 0 /\ lastFailed = 0
  BY DEF U!Init
<1>2. Won = {} /\ Kept = {} /\ Late = {}
  BY <1>1 DEF Won, Kept, Late
<1>3. QED BY <1>1, <1>2 DEF UpstreamInv

LEMMA AttemptKeeps ==
  ASSUME U!UpstreamConstants, UpstreamInv, NEW out \in U!Outcome, U!Attempt(out) PROVE UpstreamInv'
<1> DEFINE k == Len(calls) + 1
<1>1. /\ calls \in Seq(U!Call) /\ pc = "call" /\ Won = {} /\ Kept = {} /\ Late = {}
      /\ open = {} /\ lastFailed = 0 /\ answer = 0
  BY DEF UpstreamInv, U!Attempt
<1>2. U!Made("primary", Original, out) /\ Original \in Provider
  BY DEF U!Attempt, U!UpstreamConstants
<1>3. /\ U!This = k /\ k \in Nat \ {0} /\ calls' \in Seq(U!Call) /\ Len(calls') = k
      /\ Won' = IF out = "ok" THEN {k} ELSE {}
      /\ Kept' = IF out = "refused" THEN {k} ELSE {}
      /\ Late' = {}
  <2>1. calls \in Seq(U!Call) /\ Won = {} /\ Late = {} /\ Kept = {}
    BY <1>1
  <2>2. OneMore("primary", out)
    BY <1>2, <2>1, OneMoreCall
  <2>3. QED BY <2>1, <2>2 DEF OneMore
<1> HIDE DEF k
<1>4. open' = IF out \in {"busy", "lost"} THEN {} ELSE {k}
  BY <1>1, <1>3 DEF U!Attempt
<1>5. CASE out \in {"busy", "lost"} /\ pc' \in {"wait", "chain"} /\ UNCHANGED <<lastFailed, answer>>
  BY <1>1, <1>3, <1>4, <1>5 DEF UpstreamInv
<1>6. CASE out \notin {"busy", "lost"} /\ pc' = "reply" /\ answer' = k
  <2>1. out \in {"ok", "refused"}
    BY <1>6 DEF U!Outcome
  <2>2. Decided'
    BY <1>3, <1>6, <2>1 DEF Decided, IsNewest
  <2>3. QED BY <1>1, <1>3, <1>4, <1>6, <2>2 DEF UpstreamInv
<1>7. CASE out \notin {"busy", "lost", "ok"} /\ pc' = "chain" /\ lastFailed' = k /\ answer' = answer
  <2>1. out = "refused"
    BY <1>7 DEF U!Outcome
  <2>2. QED BY <1>1, <1>3, <1>4, <1>7, <2>1 DEF UpstreamInv, IsNewest
<1>8. QED BY <1>3, <1>5, <1>6, <1>7 DEF U!Attempt

LEMMA ChainCallKeeps ==
  ASSUME U!UpstreamConstants, UpstreamInv, NEW out \in U!Outcome, U!ChainCall(out) PROVE UpstreamInv'
<1> DEFINE k == Len(calls) + 1
<1>1. /\ calls \in Seq(U!Call) /\ pc = "chain" /\ Won = {} /\ Late = {} /\ answer = 0
      /\ \/ Kept = {} /\ lastFailed = 0 /\ open = {}
         \/ IsNewest(lastFailed, Kept) /\ lastFailed # 0 /\ open = {lastFailed}
  BY DEF UpstreamInv, U!ChainCall
<1>2. U!Made("chain", "rule", out)
  BY DEF U!ChainCall
<1>3. /\ U!This = k /\ k \in Nat \ {0} /\ calls' \in Seq(U!Call) /\ Len(calls') = k
      /\ Won' = IF out = "ok" THEN {k} ELSE {}
      /\ Kept' = IF out # "lost" THEN Kept \cup {k} ELSE Kept
      /\ Late' = {}
      /\ \A n \in Kept : n \in Nat /\ n < k
  <2>1. calls \in Seq(U!Call) /\ Won = {} /\ Late = {}
    BY <1>1
  <2>2. OneMore("chain", out)
    BY <1>2, <2>1, OneMoreCall
  <2>3. QED BY <2>1, <2>2 DEF OneMore
<1> HIDE DEF k
<1>4. IsNewest(k, Kept \cup {k})
  BY <1>3, NewestIsLast
<1>5. (open \ {lastFailed}) \cup {k} = {k}
  BY <1>1
<1>6. CASE out = "ok"
  <2>1. pc' = "reply" /\ answer' = k /\ open' = {k}
    BY <1>3, <1>5, <1>6 DEF U!ChainCall
  <2>2. Decided'
    BY <1>3, <1>6, <2>1 DEF Decided, IsNewest
  <2>3. QED BY <1>3, <1>6, <2>1, <2>2 DEF UpstreamInv
<1>7. CASE out \in {"refused", "busy"}
  <2>1. pc' = "chain" /\ answer' = 0 /\ lastFailed' = k /\ open' = {k}
    BY <1>1, <1>3, <1>5, <1>7 DEF U!ChainCall
  <2>2. IsNewest(lastFailed', Kept')
    BY <1>3, <1>4, <1>7, <2>1
  <2>3. QED BY <1>3, <1>7, <2>1, <2>2 DEF UpstreamInv
<1>8. CASE out = "lost"
  <2>1. pc' = "chain" /\ answer' = 0 /\ lastFailed' = lastFailed /\ open' = open
    BY <1>1, <1>8 DEF U!ChainCall
  <2>2. Kept' = Kept /\ Won' = {}
    BY <1>3, <1>8
  <2>3. IsNewest(lastFailed, Kept) => IsNewest(lastFailed, Kept)'
    BY <2>1, <2>2 DEF IsNewest
  <2>4. QED BY <1>1, <1>3, <2>1, <2>2, <2>3 DEF UpstreamInv
<1>9. QED BY <1>6, <1>7, <1>8 DEF U!Outcome

LEMMA FallbackCallKeeps ==
  ASSUME U!UpstreamConstants, UpstreamInv, NEW out \in U!Outcome, U!FallbackCall(out) PROVE UpstreamInv'
<1> DEFINE k == Len(calls) + 1
<1>1. /\ calls \in Seq(U!Call) /\ pc = "fallback" /\ Won = {} /\ Late = {} /\ Kept = {} /\ answer = 0 /\ open = {}
  BY DEF UpstreamInv, U!FallbackCall
<1>2. PICK p \in Provider : U!Made("fallback", p, out)
  BY DEF U!FallbackCall, U!UpstreamConstants
<1>3. /\ U!This = k /\ k \in Nat \ {0} /\ calls' \in Seq(U!Call) /\ Len(calls') = k
      /\ Won' = IF out = "ok" THEN {k} ELSE {}
      /\ Kept' = {}
      /\ Late' = IF out # "lost" THEN {k} ELSE {}
  <2>1. calls \in Seq(U!Call) /\ Won = {} /\ Late = {} /\ Kept = {}
    BY <1>1
  <2>2. OneMore("fallback", out)
    <3>1. calls \in Seq(U!Call) /\ p \in Provider \cup {"rule"}
      BY <2>1
    <3>2. QED BY <1>2, <3>1, OneMoreCall
  <2>3. QED BY <2>1, <2>2 DEF OneMore
<1> HIDE DEF k
<1>4. pc' = "reply" /\ answer' = (IF out = "lost" THEN 0 ELSE k) /\ open' = IF out = "lost" THEN {} ELSE {k}
  BY <1>1, <1>3 DEF U!FallbackCall
<1>5. Decided'
  <2>1. CASE out = "ok"
    BY <1>3, <1>4, <2>1 DEF Decided, IsNewest
  <2>2. CASE out = "lost"
    BY <1>3, <1>4, <2>2 DEF Decided, IsNewest
  <2>3. CASE out \notin {"ok", "lost"}
    BY <1>3, <1>4, <2>3 DEF Decided, IsNewest
  <2>4. QED BY <2>1, <2>2, <2>3
<1>6. QED BY <1>3, <1>4, <1>5 DEF UpstreamInv

\* The steps that call nobody.
LEMMA QuietKeeps ==
  ASSUME UpstreamInv, U!Wait \/ U!ChainExhausted \/ U!NoFallback \/ U!Reply \/ U!PutSettings \/ UNCHANGED U!vars
  PROVE  UpstreamInv'
<1>1. CASE U!Wait
  <2>1. UNCHANGED <<calls, lastFailed, open, answer>> /\ pc = "wait" /\ pc' = "call"
    BY <1>1 DEF U!Wait
  <2>2. QED BY <2>1 DEF UpstreamInv, Won, Kept, Late, Decided, IsNewest
<1>2. CASE U!ChainExhausted
  <2>1. /\ UNCHANGED <<calls, lastFailed, open>> /\ pc = "chain" /\ answer' = lastFailed
        /\ (pc' = "fallback" /\ lastFailed = 0) \/ pc' = "reply"
    BY <1>2 DEF U!ChainExhausted
  <2>2. Won' = Won /\ Kept' = Kept /\ Late' = Late /\ Won = {} /\ Late = {}
    BY <2>1 DEF UpstreamInv, Won, Kept, Late
  <2>3. CASE Kept = {} /\ lastFailed = 0 /\ open = {}
    <3>1. Decided'
      BY <2>1, <2>2, <2>3 DEF Decided
    <3>2. QED BY <2>1, <2>2, <2>3, <3>1 DEF UpstreamInv
  <2>4. CASE IsNewest(lastFailed, Kept) /\ lastFailed # 0 /\ open = {lastFailed}
    <3>1. Decided'
      BY <2>1, <2>2, <2>4 DEF Decided, IsNewest
    <3>2. pc' = "reply"
      BY <2>1, <2>4
    <3>3. QED BY <2>1, <2>2, <2>4, <3>1, <3>2 DEF UpstreamInv
  <2>5. QED BY <2>1, <2>3, <2>4 DEF UpstreamInv
<1>3. CASE U!NoFallback
  <2>1. UNCHANGED <<calls, lastFailed, open, answer>> /\ pc = "fallback" /\ pc' = "reply"
    BY <1>3 DEF U!NoFallback
  <2>2. Won' = Won /\ Kept' = Kept /\ Late' = Late
    BY <2>1 DEF Won, Kept, Late
  <2>3. QED BY <2>1, <2>2 DEF UpstreamInv, Decided
<1>4. CASE U!Reply
  <2>1. UNCHANGED <<calls, lastFailed, answer>> /\ pc = "reply" /\ pc' = "done"
        /\ open' = IF answer = 0 THEN open ELSE open \ {answer}
    BY <1>4 DEF U!Reply
  <2>2. Won' = Won /\ Kept' = Kept /\ Late' = Late
    BY <2>1 DEF Won, Kept, Late
  <2>3. open' = {}
    BY <2>1 DEF UpstreamInv
  <2>4. QED BY <2>1, <2>2, <2>3 DEF UpstreamInv, Decided, IsNewest
<1>5. CASE U!PutSettings \/ UNCHANGED U!vars
  <2>1. UNCHANGED <<calls, pc, lastFailed, open, answer>>
    BY <1>5 DEF U!PutSettings, U!vars
  <2>2. Won' = Won /\ Kept' = Kept /\ Late' = Late
    BY <2>1 DEF Won, Kept, Late
  <2>3. QED BY <2>1, <2>2 DEF UpstreamInv, Decided, IsNewest
<1>6. QED BY <1>1, <1>2, <1>3, <1>4, <1>5

LEMMA UpstreamHolds == U!Spec => []UpstreamInv
<1> USE UpstreamAssumption
<1>1. UpstreamInv /\ [U!Next]_U!vars => UpstreamInv'
  BY AttemptKeeps, ChainCallKeeps, FallbackCallKeeps, QuietKeeps DEF U!Next, U!Step
<1>2. QED BY UpstreamStart, <1>1, PTL DEF U!Spec

(* Whatever the providers answer, however many retries, rules and fallback *)
(* candidates there are: the client gets the newest success, else the      *)
(* newest response kept, else the fallback's, and no provider is asked     *)
(* after one succeeded (handler.go: executeUpstreamRequest, handleRequest). *)
THEOREM AnswersFollowCalls == Spec => []AnswerIsVerdict
<1> USE UpstreamAssumption
<1>1. ASSUME UpstreamInv PROVE U!AnswerIsVerdict
  <2>1. /\ Won = {n \in DOMAIN calls : calls[n].out = "ok"}
        /\ Kept = {n \in U!Stage("primary") : calls[n].out = "refused"} \cup {n \in U!Stage("chain") : U!Answered(n)}
        /\ Late = {n \in U!Stage("fallback") : U!Answered(n)}
    BY DEF Won, Kept, Late, U!Stage, U!Answered
  <2>2. ASSUME NEW T, NEW n, T \subseteq DOMAIN calls, IsNewest(n, T) PROVE U!Newest(T) = n
    <3>1. DOMAIN calls = 1 .. Len(calls)
      BY <1>1 DEF UpstreamInv
    <3>2. \A m \in T : (\A q \in T : q <= m) => m = n
      BY <2>2, <3>1 DEF IsNewest
    <3>3. QED BY <2>2, <3>2 DEF U!Newest, IsNewest
  <2>3. Won \subseteq DOMAIN calls /\ Kept \subseteq DOMAIN calls /\ Late \subseteq DOMAIN calls
    BY DEF Won, Kept, Late
  <2>4. U!Verdict = CASE Won # {} -> U!Newest(Won)
                      [] Won = {} /\ Kept # {} -> U!Newest(Kept)
                      [] Won = {} /\ Kept = {} /\ Late # {} -> U!Newest(Late)
                      [] OTHER -> 0
    BY <2>1 DEF U!Verdict
  <2>5. Decided => answer = U!Verdict
    BY <2>2, <2>3, <2>4 DEF Decided, IsNewest
  <2>6. QED BY <1>1, <2>5 DEF UpstreamInv, U!AnswerIsVerdict, Won
<1>2. QED BY UpstreamHolds, <1>1, EachOfThree, PTL DEF AnswerIsVerdict

(* At most one response body is open at a time, and none is left open once *)
(* the request is answered, for any number of calls and any outcomes       *)
(* (handler.go: the bodies that executeUpstreamRequest drops are closed).  *)
THEOREM BodiesAreClosed == Spec => []OneOpenBody
<1> USE UpstreamAssumption
<1>1. ASSUME UpstreamInv PROVE U!OneOpenBody
  <2>1. open = {} \/ open = {lastFailed} \/ open = {answer}
    BY <1>1 DEF UpstreamInv
  <2>2. Cardinality({}) = 0 /\ \A x : Cardinality({x}) = 1
    BY FS_EmptySet, FS_Singleton
  <2>3. Cardinality(open) <= 1
    <3>1. Cardinality(open) = 0 \/ Cardinality(open) = 1
      BY <2>1, <2>2, Zenon
    <3>2. QED BY <3>1
  <2>4. U!Cardinality(open) = Cardinality(open)
    BY DEF U!Cardinality, Cardinality
  <2>5. QED BY <1>1, <2>3, <2>4 DEF UpstreamInv, U!OneOpenBody
<1>2. QED BY UpstreamHolds, <1>1, EachOfThree, PTL DEF OneOpenBody

-----------------------------------------------------------------------------
(* RateLimiter: what a window lets through *)

Rate == Limit["req"]

\* A bucket as the limits allow it.
Fit(b) == b \in L!Bucket /\ (b.kind # "req" => b.used <= Limit[b.kind])

\* What a rate bucket can still give, in parts of a token: its tokens and what
\* has come in since the refill, which the cap cuts off once it is a token.
Credit(b) ==
  LET all == b.tokens * Window + b.age * Rate
  IN IF b.age * Rate < Window \/ all <= Rate * Window THEN all ELSE Rate * Window

\* d went through bucket b in the last n ticks: at most what a full bucket and
\* n ticks of refill give, or one period's quota and what this period has used.
Within(b, d, n) ==
  IF b.kind = "req" THEN d * Window + Credit(b) <= Rate * Window + Window - 1 + n * Rate
  ELSE \/ d <= b.used
       \/ d <= Limit[b.kind] + b.used /\ b.left >= Period - n

LEMMA Division ==
  ASSUME NEW x \in Nat, NEW w \in Nat \ {0}
  PROVE  x \div w \in Nat /\ (x \div w) * w <= x /\ (x \div w = 0 <=> x < w)
  OBVIOUS

LEMMA Products ==
  ASSUME NEW x \in Nat, NEW y \in Nat, NEW w \in Nat
  PROVE  /\ x * w \in Nat /\ (x + 1) * w = x * w + w /\ (x + y) * w = x * w + y * w
         /\ (x <= y => x * w <= y * w) /\ 0 * w = 0
         /\ (x > 0 => (x - 1) * w = x * w - w)
  OBVIOUS

\* Bucket fields and the numbers the constants fix, in one fact.
LEMMA Fields ==
  ASSUME L!LimiterConstants, NEW b, Fit(b)
  PROVE  /\ Rate \in Nat /\ Window \in Nat \ {0} /\ Period \in Nat \ {0}
         /\ b.kind \in L!Kind /\ b.tokens \in Nat /\ b.tokens <= Rate /\ b.age \in Nat
         /\ b.used \in Nat /\ b.left \in Int
         /\ b.kind # "req" => b.used <= Limit[b.kind]
         /\ Limit[b.kind] \in Nat
         /\ b = [kind |-> b.kind, tokens |-> b.tokens, age |-> b.age, used |-> b.used, left |-> b.left]
<1>1. Rate \in Nat /\ Window \in Nat \ {0} /\ Period \in Nat \ {0} /\ Limit \in [L!Kind -> Nat]
  BY DEF L!LimiterConstants, Rate, L!Kind
<1>2. b \in L!Bucket /\ (b.kind # "req" => b.used <= Limit[b.kind])
  BY DEF Fit
<1>3. b.tokens \in 0 .. Rate /\ b.age \in 0 .. L!Idled /\ b.left \in -(Period + 1) .. Period
      /\ b.kind \in L!Kind /\ b.used \in Nat
      /\ b = [kind |-> b.kind, tokens |-> b.tokens, age |-> b.age, used |-> b.used, left |-> b.left]
  BY <1>2 DEF L!Bucket, Rate
<1>4. QED BY <1>1, <1>2, <1>3 DEF L!Idled

LEMMA CreditBounds ==
  ASSUME L!LimiterConstants, NEW b, Fit(b)
  PROVE  /\ Credit(b) \in Nat /\ Rate * Window \in Nat /\ Credit(b) <= Rate * Window + Window - 1
         /\ b.tokens * Window \in Nat /\ b.age * Rate \in Nat /\ b.tokens * Window <= Rate * Window
<1>1. /\ Rate \in Nat /\ Window \in Nat \ {0} /\ b.tokens \in Nat /\ b.tokens <= Rate /\ b.age \in Nat
  BY Fields
<1>2. b.tokens * Window \in Nat /\ Rate * Window \in Nat /\ b.tokens * Window <= Rate * Window
  BY <1>1, Products
<1>3. b.age * Rate \in Nat
  BY <1>1, Products
<1>4. QED BY <1>1, <1>2, <1>3 DEF Credit

\* An observer that starts to look finds any bucket within its bounds.
LEMMA StartsWithin == ASSUME L!LimiterConstants, NEW b, Fit(b) PROVE Within(b, 0, 0)
<1>1. CASE b.kind = "req"
  <2>1. 0 * Window = 0 /\ 0 * Rate = 0
    BY Fields, Products
  <2>2. Credit(b) \in Int /\ Rate * Window \in Int /\ Credit(b) <= Rate * Window + Window - 1 /\ Window \in Int
    BY Fields, CreditBounds
  <2>3. 0 * Window + Credit(b) <= Rate * Window + Window - 1 + 0 * Rate
    BY <2>1, <2>2
  <2>4. QED BY <1>1, <2>3 DEF Within
<1>2. CASE b.kind # "req"
  BY <1>2, Fields DEF Within
<1>3. QED BY <1>1, <1>2

\* A bucket within its bounds let through at most twice its limit.
LEMMA WithinBounds ==
  ASSUME L!LimiterConstants, NEW b, Fit(b), NEW d \in Int, NEW n \in Nat, n <= L!Span(b.kind),
         Limit[b.kind] > 0, Within(b, d, n)
  PROVE  d <= 2 * Limit[b.kind]
<1>1. CASE b.kind = "req"
  <2>1. /\ Rate \in Nat /\ Window \in Nat \ {0} /\ n <= Window /\ Limit[b.kind] = Rate
    BY <1>1, Fields DEF L!Span, Rate
  <2>2. n * Rate <= Window * Rate
    BY <2>1, Products
  <2>3. d * Window + Credit(b) <= Rate * Window + Window - 1 + n * Rate
    BY <1>1 DEF Within
  <2>4. d * Window < 2 * (Rate * Window) + Window
    BY <2>1, <2>2, <2>3, CreditBounds
  <2>5. d < 2 * Rate + 1
    <3>1. SUFFICES ASSUME d >= 2 * Rate + 1 PROVE FALSE
      BY <2>1
    <3>2. d * Window >= (2 * Rate + 1) * Window
      BY <2>1, <3>1, Products
    <3>3. QED BY <2>1, <2>4, <3>2
  <2>6. QED BY <2>1, <2>5
<1>2. CASE b.kind # "req"
  BY <1>2, Fields DEF Within
<1>3. QED BY <1>1, <1>2

\* What a tick makes of a bucket.
Aged(b) ==
  IF b.kind = "req" THEN [b EXCEPT !.age = IF @ < L!Idled THEN @ + 1 ELSE @]
                    ELSE [b EXCEPT !.left = IF @ >= -Period THEN @ - 1 ELSE @]

LEMMA TickFits == ASSUME L!LimiterConstants, NEW b, Fit(b) PROVE Fit(Aged(b)) /\ Aged(b).kind = b.kind
<1>1. b \in L!Bucket /\ Period \in Nat /\ Window \in Nat
  BY DEF Fit, L!LimiterConstants
<1>2. Aged(b) \in L!Bucket /\ Aged(b).kind = b.kind /\ Aged(b).used = b.used
  BY <1>1 DEF L!Bucket, L!Idled, Aged
<1>3. QED BY <1>2 DEF Fit

\* A tick lets at most a tick's refill in.
LEMMA TickWithin ==
  ASSUME L!LimiterConstants, NEW b, Fit(b), NEW d \in Int, NEW n \in Nat, Within(b, d, n), n + 1 <= L!Span(b.kind)
  PROVE  Within(Aged(b), d, n + 1)
<1> DEFINE c == Aged(b)
<1>0. b \in L!Bucket
  BY DEF Fit
<1>9. c = Aged(b)
  OBVIOUS
<1> HIDE DEF c
<1>1. CASE b.kind = "req"
  <2>1. PICK a : a = IF b.age < L!Idled THEN b.age + 1 ELSE b.age
    OBVIOUS
  <2>2. /\ c.kind = "req" /\ c.tokens = b.tokens /\ c.age = a /\ c \in L!Bucket
    BY <1>0, <1>9, <1>1, <2>1 DEF L!Bucket, L!Idled, L!LimiterConstants, Aged
  <2>3. Fit(c)
    BY <1>9, TickFits
  <2>4. Rate \in Nat /\ Window \in Nat \ {0} /\ b.age \in Nat /\ a \in Nat /\ (a = b.age \/ a = b.age + 1)
    BY <2>1, Fields
  <2>5. /\ a * Rate = b.age * Rate \/ a * Rate = b.age * Rate + Rate
        /\ (n + 1) * Rate = n * Rate + Rate /\ n * Rate \in Nat
    <3>1. (b.age + 1) * Rate = b.age * Rate + Rate /\ (n + 1) * Rate = n * Rate + Rate /\ n * Rate \in Nat
      BY <2>4, Products
    <3>2. QED BY <2>4, <3>1
  <2>6. Credit(c) <= Credit(b) + Rate
    <3>1. /\ c.tokens * Window = b.tokens * Window /\ b.tokens * Window \in Nat /\ b.age * Rate \in Nat
          /\ Rate * Window \in Nat /\ b.tokens * Window <= Rate * Window
      BY <2>2, CreditBounds
    <3>2. PICK tw, al, al2, lw : tw = b.tokens * Window /\ al = b.age * Rate /\ al2 = a * Rate /\ lw = Rate * Window
      OBVIOUS
    <3>3. Credit(b) = IF al < Window \/ tw + al <= lw THEN tw + al ELSE lw
      BY <3>2 DEF Credit
    <3>4. Credit(c) = IF al2 < Window \/ tw + al2 <= lw THEN tw + al2 ELSE lw
      BY <2>2, <3>1, <3>2 DEF Credit
    <3>5. tw \in Nat /\ al \in Nat /\ lw \in Nat /\ tw <= lw /\ (al2 = al \/ al2 = al + Rate)
      BY <2>5, <3>1, <3>2
    <3>6. QED BY <2>4, <3>3, <3>4, <3>5
  <2>7. QED BY <1>1, <1>9, <2>2, <2>3, <2>4, <2>5, <2>6, CreditBounds DEF Within
<1>2. CASE b.kind # "req"
  <2>1. /\ c.kind = b.kind /\ c.used = b.used /\ c \in L!Bucket
        /\ c.left = IF b.left >= -Period THEN b.left - 1 ELSE b.left
    BY <1>0, <1>9, <1>2 DEF L!Bucket, L!LimiterConstants, Aged
  <2>2. Fit(c)
    BY <1>9, TickFits
  <2>3. L!Span(b.kind) = Period /\ Period \in Nat /\ b.left \in Int
    BY <1>2, Fields DEF L!Span
  <2>4. QED BY <1>2, <1>9, <2>1, <2>2, <2>3 DEF Within
<1>3. QED BY <1>1, <1>2

\* What a call makes of a quota bucket.
LEMMA QuotaTake ==
  ASSUME L!LimiterConstants, NEW b, Fit(b), b.kind # "req", NEW n \in Nat,
         NEW u, u = IF b.left < 0 THEN 0 ELSE b.used, NEW l, l = IF b.left < 0 THEN Period ELSE b.left
  PROVE  LET use == L!Consume(b, b.kind, n) IN
         /\ use.ok = (u + n <= Limit[b.kind])
         /\ use.bucket \in L!Bucket /\ use.bucket.kind = b.kind /\ use.bucket.left = l
         /\ use.bucket.used = IF use.ok THEN u + n ELSE u
<1>1. b \in L!Bucket /\ Period \in Nat /\ u \in Nat /\ l \in -(Period + 1) .. Period
  BY Fields DEF Fit, L!Bucket
<1>2. PICK f : f = IF b.left < 0 THEN [b EXCEPT !.used = 0, !.left = Period] ELSE b
  OBVIOUS
<1>3. f \in L!Bucket /\ f.kind = b.kind /\ f.used = u /\ f.left = l
  <2>1. CASE b.left < 0
    <3>1. f = [b EXCEPT !.used = u, !.left = l]
      BY <1>2, <2>1
    <3>2. QED BY <1>1, <3>1 DEF L!Bucket
  <2>2. CASE ~(b.left < 0)
    BY <1>1, <1>2, <2>2
  <2>3. QED BY <2>1, <2>2
<1>4. PICK g : g = [f EXCEPT !.used = @ + n]
  OBVIOUS
<1>5. g \in L!Bucket /\ g.kind = b.kind /\ g.used = u + n /\ g.left = l
  <2>1. u + n \in Nat
    BY <1>1
  <2>2. g = [f EXCEPT !.used = u + n]
    BY <1>3, <1>4
  <2>3. QED BY <1>3, <2>1, <2>2 DEF L!Bucket
<1>6. /\ L!Consume(b, b.kind, n).ok = (f.used + n <= Limit[b.kind])
      /\ L!Consume(b, b.kind, n).bucket = IF f.used + n <= Limit[b.kind] THEN g ELSE f
  BY <1>2, <1>4 DEF L!Consume, L!ConsumeQuota
<1>7. QED BY <1>3, <1>5, <1>6

\* What a call makes of a rate bucket.
LEMMA RateTake ==
  ASSUME L!LimiterConstants, NEW b, Fit(b), b.kind = "req", NEW n,
         NEW q, q = (b.age * Rate) \div Window, NEW v, v = IF b.tokens + q > Rate THEN Rate ELSE b.tokens + q
  PROVE  LET use == L!Consume(b, b.kind, n) IN
         /\ q \in Nat /\ v \in Nat /\ use.ok = (v > 0)
         /\ use.bucket \in L!Bucket /\ use.bucket.kind = b.kind
         /\ use.bucket.tokens = (IF v > 0 THEN v - 1 ELSE v)
         /\ use.bucket.age = IF q > 0 THEN 0 ELSE b.age
<1>1. b \in L!Bucket /\ Window \in Nat \ {0} /\ Rate \in Nat /\ b.tokens \in Nat /\ b.age \in 0 .. L!Idled
  BY Fields DEF Fit, L!Bucket
<1>2. q \in Nat
  <2>1. b.age * Rate \in Nat
    BY CreditBounds
  <2>2. QED BY <1>1, <2>1, Division
<1>3. v \in 0 .. Rate
  BY <1>1, <1>2
<1>4. v = L!Refilled(b)
  BY DEF L!Refilled, Rate
<1>5. PICK t, a : t = (IF v > 0 THEN v - 1 ELSE v) /\ a = (IF q > 0 THEN 0 ELSE b.age)
  OBVIOUS
<1>6. t \in 0 .. Rate /\ a \in 0 .. L!Idled
  BY <1>1, <1>3, <1>5 DEF L!Idled
<1>7. PICK g : g = [b EXCEPT !.tokens = t, !.age = a]
  OBVIOUS
<1>8. g \in L!Bucket /\ g.kind = b.kind /\ g.tokens = t /\ g.age = a
  BY <1>1, <1>6, <1>7 DEF L!Bucket, Rate
<1>9. L!Consume(b, b.kind, n).ok = (v > 0) /\ L!Consume(b, b.kind, n).bucket = g
  BY <1>4, <1>5, <1>7 DEF L!Consume, L!ConsumeOne, Rate
<1>10. QED BY <1>2, <1>3, <1>5, <1>8, <1>9

LEMMA TakeFits ==
  ASSUME L!LimiterConstants, NEW b, Fit(b), NEW n \in Nat
  PROVE  Fit(L!Consume(b, b.kind, n).bucket) /\ L!Consume(b, b.kind, n).bucket.kind = b.kind
<1> DEFINE use == L!Consume(b, b.kind, n)
<1>1. CASE b.kind = "req"
  <2>1. use.bucket \in L!Bucket /\ use.bucket.kind = b.kind
    BY <1>1, RateTake
  <2>2. QED BY <1>1, <2>1 DEF Fit
<1>2. CASE b.kind # "req"
  <2>1. PICK u, l : u = (IF b.left < 0 THEN 0 ELSE b.used) /\ l = IF b.left < 0 THEN Period ELSE b.left
    OBVIOUS
  <2>2. /\ use.bucket \in L!Bucket /\ use.bucket.kind = b.kind /\ use.ok = (u + n <= Limit[b.kind])
        /\ use.bucket.used = IF use.ok THEN u + n ELSE u
    BY <1>2, <2>1, QuotaTake
  <2>3. u <= Limit[b.kind]
    BY <1>2, <2>1, Fields
  <2> HIDE DEF use
  <2>4. use.bucket.used <= Limit[b.kind]
    BY <2>2, <2>3
  <2>5. Fit(use.bucket)
    BY <2>2, <2>4 DEF Fit
  <2>6. QED BY <2>2, <2>5 DEF use
<1>3. QED BY <1>1, <1>2

\* The credit a call leaves.
LEMMA CreditTaken ==
  ASSUME L!LimiterConstants, NEW b, Fit(b), b.kind = "req", NEW n
  PROVE  LET use == L!Consume(b, b.kind, n)
         IN  Credit(use.bucket) <= IF use.ok THEN Credit(b) - Window ELSE Credit(b)
<1> DEFINE use == L!Consume(b, b.kind, n)
<1>1. PICK q, v : q = (b.age * Rate) \div Window /\ v = IF b.tokens + q > Rate THEN Rate ELSE b.tokens + q
  OBVIOUS
<1>2. /\ q \in Nat /\ v \in Nat /\ use.ok = (v > 0)
      /\ use.bucket.tokens = (IF v > 0 THEN v - 1 ELSE v) /\ use.bucket.age = IF q > 0 THEN 0 ELSE b.age
  BY <1>1, RateTake
<1>13. SUFFICES Credit(use.bucket) <= IF use.ok THEN Credit(b) - Window ELSE Credit(b)
  OBVIOUS
<1> HIDE DEF use
<1>3. PICK al, tw, lw, qw, vw :
        al = b.age * Rate /\ tw = b.tokens * Window /\ lw = Rate * Window /\ qw = q * Window /\ vw = v * Window
  OBVIOUS
<1>4. al \in Nat /\ tw \in Nat /\ lw \in Nat /\ tw <= lw /\ Credit(b) \in Nat
  BY <1>3, CreditBounds
<1>5. Window \in Nat \ {0} /\ Rate \in Nat /\ b.tokens \in Nat /\ b.tokens <= Rate /\ b.age \in Nat
  BY Fields
<1>6. qw \in Nat /\ vw \in Nat /\ 0 * Window = 0 /\ 0 * Rate = 0 /\ (b.tokens + q) * Window = tw + qw
      /\ (v > 0 => (v - 1) * Window = vw - Window)
  BY <1>2, <1>3, <1>5, Products
<1>7. qw <= al /\ (q = 0 <=> al < Window)
  BY <1>1, <1>3, <1>4, <1>5, Division
<1>8. vw <= tw + qw /\ vw <= lw
  <2>1. v <= b.tokens + q /\ v <= Rate /\ b.tokens + q \in Nat
    BY <1>1, <1>2, <1>5
  <2>2. v * Window <= (b.tokens + q) * Window /\ v * Window <= Rate * Window
    BY <1>2, <1>5, <2>1, Products
  <2>3. QED BY <1>3, <1>6, <2>2
<1>9. Credit(b) = IF al < Window \/ tw + al <= lw THEN tw + al ELSE lw
  BY <1>3 DEF Credit
<1>10. CASE v > 0
  <2>1. use.ok /\ use.bucket.tokens * Window = vw - Window
    BY <1>2, <1>6, <1>10
  <2>2. CASE q > 0
    <3>1. use.bucket.age * Rate = 0
      BY <1>2, <1>6, <2>2
    <3>2. Credit(use.bucket) = vw - Window
      <4>1. PICK x, y : x = use.bucket.tokens * Window /\ y = use.bucket.age * Rate
        OBVIOUS
      <4>2. Credit(use.bucket) = IF y < Window \/ x + y <= lw THEN x + y ELSE lw
        BY <1>3, <4>1 DEF Credit
      <4>3. QED BY <1>5, <1>6, <2>1, <3>1, <4>1, <4>2
    <3>3. ~(al < Window)
      BY <1>7, <2>2
    <3>4. vw <= Credit(b)
      BY <1>4, <1>6, <1>7, <1>8, <1>9, <3>3
    <3>5. QED BY <1>4, <1>5, <1>6, <2>1, <3>2, <3>4
  <2>3. CASE q = 0
    <3>1. v = b.tokens
      BY <1>1, <1>5, <2>3
    <3>2. vw = tw /\ al < Window
      BY <1>3, <1>7, <2>3, <3>1
    <3>3. use.bucket.age * Rate = al
      BY <1>2, <1>3, <2>3
    <3>4. Credit(use.bucket) = tw - Window + al
      <4>1. PICK x, y : x = use.bucket.tokens * Window /\ y = use.bucket.age * Rate
        OBVIOUS
      <4>2. Credit(use.bucket) = IF y < Window \/ x + y <= lw THEN x + y ELSE lw
        BY <1>3, <4>1 DEF Credit
      <4>3. QED BY <1>4, <1>5, <2>1, <3>2, <3>3, <4>1, <4>2
    <3>5. QED BY <1>4, <1>5, <1>9, <2>1, <3>2, <3>4
  <2>4. QED BY <1>2, <2>2, <2>3
<1>11. CASE v = 0
  <2>1. q = 0 /\ b.tokens = 0
    <3>1. CASE Rate = 0
      <4>1. al = 0
        BY <1>3, <1>5, <3>1
      <4>2. QED BY <1>5, <1>7, <3>1, <4>1
    <3>2. CASE Rate # 0
      BY <1>1, <1>2, <1>5, <1>11, <3>2
    <3>3. QED BY <3>1, <3>2
  <2>3. use.bucket.age = b.age /\ use.bucket.tokens = b.tokens
    BY <1>2, <1>11, <2>1
  <2>4. ~use.ok
    <3>1. ~(v > 0)
      BY <1>11
    <3>2. QED BY <1>2, <3>1
  <2>5. Credit(use.bucket) = Credit(b)
    BY <2>3 DEF Credit
  <2>6. QED BY <1>4, <2>4, <2>5
<1>12. QED BY <1>2, <1>10, <1>11

\* What is let through is taken from the bucket.
LEMMA TakeWithin ==
  ASSUME L!LimiterConstants, NEW b, Fit(b), NEW n \in Nat, b.kind = "req" => n = 1,
         NEW d \in Int, NEW s \in Nat, Within(b, d, s), s <= L!Span(b.kind)
  PROVE  LET use == L!Consume(b, b.kind, n)
         IN  Within(use.bucket, IF use.ok THEN d + n ELSE d, s)
<1> DEFINE use == L!Consume(b, b.kind, n)
<1>1. Fit(use.bucket) /\ use.bucket.kind = b.kind
  BY TakeFits
<1>2. CASE b.kind = "req"
  <2>1. Credit(use.bucket) <= IF use.ok THEN Credit(b) - Window ELSE Credit(b)
    BY <1>2, CreditTaken
  <2> HIDE DEF use
  <2>2. Credit(use.bucket) \in Int /\ Credit(b) \in Int /\ Rate * Window \in Int
    BY <1>1, CreditBounds
  <2>3. Window \in Int /\ s * Rate \in Int /\ d * Window \in Int /\ (d + 1) * Window = d * Window + Window
    BY Fields
  <2>4. d * Window + Credit(b) <= Rate * Window + Window - 1 + s * Rate
    BY <1>2 DEF Within
  <2>5. CASE use.ok
    <3>1. (d + 1) * Window + Credit(use.bucket) <= Rate * Window + Window - 1 + s * Rate
      BY <2>1, <2>2, <2>3, <2>4, <2>5
    <3>2. QED BY <1>1, <1>2, <2>5, <3>1 DEF Within, use
  <2>6. CASE ~use.ok
    <3>1. d * Window + Credit(use.bucket) <= Rate * Window + Window - 1 + s * Rate
      BY <2>1, <2>2, <2>3, <2>4, <2>6
    <3>2. QED BY <1>1, <1>2, <2>6, <3>1 DEF Within, use
  <2>7. QED BY <2>5, <2>6
<1>3. CASE b.kind # "req"
  <2>1. PICK u, l : u = (IF b.left < 0 THEN 0 ELSE b.used) /\ l = IF b.left < 0 THEN Period ELSE b.left
    OBVIOUS
  <2>2. /\ use.ok = (u + n <= Limit[b.kind]) /\ use.bucket.left = l
        /\ use.bucket.used = IF use.ok THEN u + n ELSE u
    BY <1>3, <2>1, QuotaTake
  <2> HIDE DEF use
  <2>3. /\ b.used \in Nat /\ b.left \in Int /\ Limit[b.kind] \in Nat /\ b.used <= Limit[b.kind]
        /\ Period \in Nat /\ s <= Period
    BY <1>3, Fields DEF L!Span
  <2>4. d <= b.used \/ (d <= Limit[b.kind] + b.used /\ b.left >= Period - s)
    BY <1>3 DEF Within
  <2>5. PICK e : e = IF use.ok THEN d + n ELSE d
    OBVIOUS
  <2>6. e <= use.bucket.used \/ (e <= Limit[b.kind] + use.bucket.used /\ use.bucket.left >= Period - s)
    <3>1. CASE b.left < 0
      BY <2>1, <2>2, <2>3, <2>4, <2>5, <3>1
    <3>2. CASE ~(b.left < 0)
      BY <2>1, <2>2, <2>3, <2>4, <2>5, <3>2
    <3>3. QED BY <3>1, <3>2
  <2>7. QED BY <1>1, <1>3, <2>5, <2>6 DEF Within, use
<1>4. QED BY <1>2, <1>3

\* What the sweep drops is worth no more than a new bucket.
LEMMA DropWithin ==
  ASSUME L!LimiterConstants, NEW b, Fit(b), NEW d \in Int, NEW n \in Nat, Within(b, d, n),
         IF b.kind = "req" THEN b.age >= L!Idled ELSE b.left < 0 /\ b.used = 0,
         n <= L!Span(b.kind)
  PROVE  Within(L!NewBucket(b.kind), d, n)
<1> DEFINE c == L!NewBucket(b.kind)
<1>1. c.kind = b.kind /\ c.tokens = Rate /\ c.age = 0 /\ c.used = 0 /\ c.left = Period
  BY DEF L!NewBucket, Rate
<1>2. Rate \in Nat /\ Window \in Nat \ {0} /\ Period \in Nat
  BY Fields
<1> HIDE DEF c
<1>3. CASE b.kind = "req"
  <2>1. Credit(c) = Rate * Window
    BY <1>1, <1>2, Products DEF Credit
  <2>2. Rate * Window <= b.age * Rate /\ b.age * Rate \in Nat
    <3>1. Window <= b.age /\ b.age \in Nat
      BY <1>2, <1>3, Fields DEF L!Idled
    <3>2. Window * Rate <= b.age * Rate
      BY <1>2, <3>1, Products
    <3>3. QED BY <1>2, <3>2, CreditBounds
  <2>3. Credit(c) <= Credit(b)
    <3>1. CASE Rate = 0
      BY <1>2, <2>1, <3>1, CreditBounds, Products
    <3>2. CASE Rate > 0
      BY <1>2, <2>1, <2>2, <3>2, CreditBounds DEF Credit
    <3>3. QED BY <1>2, <3>1, <3>2
  <2>4. Credit(c) \in Int /\ Credit(b) \in Int /\ Rate * Window \in Int /\ d * Window \in Int /\ n * Rate \in Int
    BY <1>2, <2>1, CreditBounds
  <2>5. d * Window + Credit(c) <= Rate * Window + Window - 1 + n * Rate
    BY <1>2, <1>3, <2>3, <2>4 DEF Within
  <2>6. QED BY <1>1, <1>3, <2>5 DEF Within, c
<1>4. CASE b.kind # "req"
  BY <1>1, <1>2, <1>4, Fields DEF Within, L!Span, c
<1>5. QED BY <1>3, <1>4

\* A bucket nobody created yet stays within its bounds.
LEMMA WaitWithin ==
  ASSUME L!LimiterConstants, NEW k \in L!Kind, NEW d \in Int, NEW n \in Nat, Within(L!NewBucket(k), d, n)
  PROVE  Within(L!NewBucket(k), d, n + 1)
<1> DEFINE b == L!NewBucket(k)
<1>1. b.kind = k /\ b.left = Period /\ b.used = 0 /\ Period \in Nat /\ Window \in Nat /\ Rate \in Nat
  BY DEF L!NewBucket, L!LimiterConstants, Rate, L!Kind
<1>2. b.tokens = Rate /\ b.age = 0
  BY DEF L!NewBucket, Rate
<1>3. Within(b, d, n)
  OBVIOUS
<1>4. SUFFICES Within(b, d, n + 1)
  OBVIOUS
<1> HIDE DEF b
<1>5. CASE k = "req"
  <2>1. Credit(b) \in Int /\ Rate * Window \in Int /\ d * Window \in Int /\ n * Rate \in Int
        /\ (n + 1) * Rate = n * Rate + Rate
    BY <1>1, <1>2 DEF Credit
  <2>2. d * Window + Credit(b) <= Rate * Window + Window - 1 + n * Rate
    BY <1>1, <1>3, <1>5 DEF Within
  <2>3. d * Window + Credit(b) <= Rate * Window + Window - 1 + (n + 1) * Rate
    BY <1>1, <2>1, <2>2
  <2>4. QED BY <1>1, <1>5, <2>3 DEF Within
<1>6. CASE k # "req"
  <2>1. Limit[k] \in Nat
    BY DEF L!LimiterConstants
  <2>2. QED BY <1>1, <1>3, <1>6, <2>1 DEF Within
<1>7. QED BY <1>5, <1>6

LEMMA NewFits == ASSUME L!LimiterConstants, NEW k \in L!Kind PROVE Fit(L!NewBucket(k)) /\ L!NewBucket(k).kind = k
<1>1. Limit \in [L!Kind -> Nat] /\ Window \in Nat \ {0} /\ Period \in Nat \ {0} /\ "req" \in L!Kind
  BY DEF L!LimiterConstants, L!Kind
<1>2. L!NewBucket(k) \in L!Bucket /\ L!NewBucket(k).kind = k /\ L!NewBucket(k).used = 0
  BY <1>1 DEF L!NewBucket, L!Bucket, L!Idled
<1>3. QED BY <1>1, <1>2 DEF Fit

\* A bucket stands for the key it was created for, and its address is not
\* given away while the map or a request still refers to it.
Store ==
  /\ DOMAIN heap = Ref /\ \A r \in Ref : Fit(heap[r])
  /\ DOMAIN buckets \subseteq L!Key
  /\ \A k \in DOMAIN buckets : buckets[k] \in Ref /\ heap[buckets[k]].kind = k[1]
  /\ \A j, k \in DOMAIN buckets : buckets[j] = buckets[k] => j = k

Holds(q, h, map) ==
  /\ q \in L!RequestState /\ q.amount["req"] = 1
  /\ q.pc \in {"get", "take"} => q.agent \in Agent
  /\ q.pc = "take" => q.ref \in Ref /\ h[q.ref].kind = q.kind
  /\ q.pc = "take" => \A k \in DOMAIN map : map[k] = q.ref => k = <<q.kind, q.agent>>

Holding == DOMAIN req = Client /\ \A c \in Client : Holds(req[c], heap, buckets)

Unlimited == conditioned => DOMAIN buckets = {} /\ \A c \in Client : req[c].pc \in {"idle", "allowed"}

\* The watched counter; the one that would be created while there is none.
Watched == IF watched \in DOMAIN buckets THEN heap[buckets[watched]] ELSE L!NewBucket(watched[1])

Observing == watched \in L!Key /\ Limit[watched[1]] > 0 /\ since \in Nat /\ taken \in Int /\ stray \in Int
Bounded == L!Counting => Within(Watched, taken - stray, since)

LimiterInv == Store /\ Holding /\ Unlimited /\ Observing /\ Bounded

LEMMA WatchedFits ==
  ASSUME L!LimiterConstants, Store, Observing
  PROVE  Fit(Watched) /\ Watched.kind = watched[1] /\ watched[1] \in L!Kind
<1>1. watched[1] \in L!Kind
  BY DEF Observing, L!Key
<1>2. QED BY <1>1, NewFits DEF Store, Watched

LEMMA IdleHolds == ASSUME L!LimiterConstants 
  PROVE  \A h, map : Holds(L!Idle, h, map) /\ \A a \in Agent : Holds([L!Idle EXCEPT !.pc = "allowed", !.agent = a], h, map)
<1>1. L!Idle.pc = "idle" /\ L!Idle \in L!RequestState /\ L!Idle.amount["req"] = 1
  BY DEF L!Idle, L!Kind, L!RequestState
<1>2. \A a \in Agent : /\ [L!Idle EXCEPT !.pc = "allowed", !.agent = a].pc = "allowed"
             /\ [L!Idle EXCEPT !.pc = "allowed", !.agent = a] \in L!RequestState
             /\ [L!Idle EXCEPT !.pc = "allowed", !.agent = a].amount["req"] = 1
  BY <1>1 DEF L!RequestState
<1>3. QED BY <1>1, <1>2 DEF Holds

LEMMA LimiterStart == ASSUME L!LimiterConstants, L!Init PROVE LimiterInv
<1>1. /\ DOMAIN buckets = {} /\ heap = [r \in Ref |-> L!Blank] /\ req = [c \in Client |-> L!Idle]
      /\ watched \in L!Key /\ Limit[watched[1]] > 0 /\ since = 0 /\ taken = 0 /\ stray = 0
  BY DEF L!Init
<1>2. Fit(L!Blank)
  BY NewFits DEF L!Blank, L!Kind
<1>3. Store
  BY <1>1, <1>2 DEF Store
<1>4. Holding
  BY <1>1, IdleHolds DEF Holding
<1>5. Unlimited
  BY <1>1 DEF Unlimited, L!Idle
<1>6. Observing
  BY <1>1 DEF Observing
<1>7. Within(Watched, 0, 0)
  BY <1>3, <1>6, WatchedFits, StartsWithin
<1>8. Bounded
  BY <1>1, <1>7 DEF Bounded
<1>9. QED BY <1>3, <1>4, <1>5, <1>6, <1>8 DEF LimiterInv

\* The observer's side, when a step changes neither its counts nor its bucket.
LEMMA SameWatched ==
  ASSUME Observing, Bounded, Watched' = Watched, UNCHANGED <<watched, since, taken, stray>>
  PROVE  Observing' /\ Bounded'
<1>1. L!Counting' <=> L!Counting
  BY DEF L!Counting, L!Span
<1>2. QED BY <1>1 DEF Observing, Bounded

LEMMA ArriveKeeps ==
  ASSUME L!LimiterConstants, LimiterInv, NEW c \in Client, NEW a \in Agent, NEW cost \in Amounts, NEW tok \in Amounts,
         L!Arrive(c, a, cost, tok)
  PROVE  LimiterInv'
<1>1. UNCHANGED <<buckets, heap, conditioned, watched, since, taken, stray>>
  BY DEF L!Arrive, L!seen
<1>2. Store' /\ Watched' = Watched
  BY <1>1 DEF LimiterInv, Store, Watched
<1>3. PICK q : req' = [req EXCEPT ![c] = q] /\
        q = IF L!Unmatched(a) THEN [L!Idle EXCEPT !.pc = "allowed", !.agent = a]
            ELSE [pc |-> "get", agent |-> a, kind |-> L!After("start"), ref |-> Nil,
                  amount |-> [k \in L!Kind |-> CASE k = "cost" /\ Limit[k] > 0 -> cost
                                                [] k = "tok" /\ Limit[k] > 0 -> tok
                                                [] OTHER -> 1]]
  BY DEF L!Arrive
<1>4. Holds(q, heap, buckets)
  <2>1. CASE L!Unmatched(a)
    BY <1>3, <2>1, IdleHolds
  <2>2. CASE ~L!Unmatched(a)
    <3>1. /\ q.pc = "get" /\ q.agent = a /\ q.kind = L!After("start")
          /\ q.amount = [k \in L!Kind |-> CASE k = "cost" /\ Limit[k] > 0 -> cost
                                            [] k = "tok" /\ Limit[k] > 0 -> tok
                                            [] OTHER -> 1]
      BY <1>3, <2>2
    <3>2. L!After("start") \in L!Kind
      BY DEF L!After, L!LimiterConstants, L!Kind
    <3>3. q.amount \in [L!Kind -> Amounts \cup {1}] /\ q.amount["req"] = 1
      BY <3>1 DEF L!Kind
    <3>4. q \in L!RequestState
      BY <1>3, <2>2, <3>1, <3>2, <3>3 DEF L!RequestState
    <3>5. QED BY <3>1, <3>3, <3>4 DEF Holds
  <2>3. QED BY <2>1, <2>2
<1>5. DOMAIN req' = Client /\ \A d \in Client : req'[d] = IF d = c THEN q ELSE req[d]
  BY <1>3 DEF LimiterInv, Holding
<1>6. Holding'
  <2>1. \A d \in Client : Holds(req'[d], heap, buckets)
    BY <1>4, <1>5 DEF LimiterInv, Holding
  <2>2. QED BY <1>1, <1>5, <2>1 DEF Holding
<1>7. Unlimited'
  <2>1. SUFFICES ASSUME conditioned PROVE DOMAIN buckets = {} /\ \A d \in Client : req'[d].pc \in {"idle", "allowed"}
    BY <1>1 DEF Unlimited
  <2>2. DOMAIN buckets = {} /\ \A d \in Client : req[d].pc \in {"idle", "allowed"}
    BY <2>1 DEF LimiterInv, Unlimited
  <2>3. L!Unmatched(a)
    BY <2>1, <2>2 DEF L!Unmatched, L!Peek
  <2>4. q.pc = "allowed"
    BY <1>3, <2>3 DEF L!Idle
  <2>5. QED BY <1>5, <2>2, <2>4
<1>8. QED BY <1>1, <1>2, <1>6, <1>7, SameWatched DEF LimiterInv

\* A request's hold survives a step that gives its bucket to no other key.
LEMMA StillHolds ==
  ASSUME NEW q, NEW h, NEW map, NEW g, NEW new, Holds(q, h, map),
         q.pc = "take" => g[q.ref].kind = h[q.ref].kind,
         q.pc = "take" => \A k \in DOMAIN new : new[k] = q.ref => k \in DOMAIN map /\ map[k] = q.ref
  PROVE  Holds(q, g, new)
  BY DEF Holds

LEMMA GetKeeps == ASSUME L!LimiterConstants, LimiterInv, NEW c \in Client, L!Get(c) PROVE LimiterInv'
<1> DEFINE key == <<req[c].kind, req[c].agent>>
<1>1. /\ req[c].pc = "get" /\ Holds(req[c], heap, buckets) /\ ~conditioned /\ DOMAIN req = Client
  BY DEF L!Get, LimiterInv, Holding, Unlimited
<1>2. key \in L!Key /\ key[1] = req[c].kind /\ key[1] \in L!Kind
  BY <1>1 DEF Holds, L!Key, L!RequestState
<1>3. UNCHANGED <<conditioned, watched, since, taken, stray>>
  BY DEF L!Get, L!seen
<1>4. Unlimited'
  BY <1>1, <1>3 DEF Unlimited
<1>5. CASE key \in DOMAIN buckets
  <2>1. req' = [req EXCEPT ![c].pc = "take", ![c].ref = buckets[key]] /\ UNCHANGED <<buckets, heap>>
    BY <1>5 DEF L!Get
  <2>2. PICK q : q = [req[c] EXCEPT !.pc = "take", !.ref = buckets[key]]
    OBVIOUS
  <2>3. q.kind = req[c].kind /\ q.agent = req[c].agent /\ q.amount = req[c].amount /\ q.pc = "take" /\ q.ref = buckets[key]
        /\ buckets[key] \in Ref /\ q \in L!RequestState
    BY <1>1, <1>5, <2>2 DEF Holds, L!RequestState, LimiterInv, Store
  <2>4. Holds(q, heap, buckets)
    BY <1>1, <1>2, <1>5, <2>3 DEF Holds, LimiterInv, Store
  <2>5. DOMAIN req' = Client /\ \A d \in Client : req'[d] = IF d = c THEN q ELSE req[d]
    BY <1>1, <2>1, <2>2
  <2>6. Holding'
    BY <2>1, <2>4, <2>5 DEF Holding, LimiterInv
  <2>7. Store' /\ Watched' = Watched
    BY <1>3, <2>1 DEF Store, Watched, LimiterInv
  <2>8. QED BY <1>3, <1>4, <2>6, <2>7, SameWatched DEF LimiterInv
<1>6. CASE key \notin DOMAIN buckets
  <2>1. PICK r : /\ r = CHOOSE x \in Ref : x \notin L!InUse
                 /\ \E x \in Ref : x \notin L!InUse
                 /\ req' = [req EXCEPT ![c].pc = "take", ![c].ref = r]
                 /\ buckets' = [k \in DOMAIN buckets \cup {key} |-> IF k = key THEN r ELSE buckets[k]]
                 /\ heap' = [heap EXCEPT ![r] = L!NewBucket(key[1])]
    BY <1>6 DEF L!Get
  <2>2. r \in Ref /\ r \notin L!InUse
    BY <2>1
  <2>3. /\ \A k \in DOMAIN buckets : buckets[k] # r
        /\ \A d \in Client : req[d].ref # r
    BY <2>2 DEF L!InUse, L!Range
  <2>4. /\ DOMAIN buckets' = DOMAIN buckets \cup {key} /\ buckets'[key] = r
        /\ \A k \in DOMAIN buckets : buckets'[k] = buckets[k]
    BY <1>6, <2>1
  <2>5. /\ DOMAIN heap' = Ref /\ heap'[r] = L!NewBucket(key[1])
        /\ \A x \in Ref : x # r => heap'[x] = heap[x]
    BY <2>1, <2>2 DEF LimiterInv, Store
  <2>6. Fit(heap'[r]) /\ heap'[r].kind = key[1]
    BY <1>2, <2>5, NewFits
  <2>7. Store'
    <3>1. \A x \in Ref : Fit(heap'[x])
      BY <2>5, <2>6 DEF LimiterInv, Store
    <3>2. \A k \in DOMAIN buckets' : buckets'[k] \in Ref /\ heap'[buckets'[k]].kind = k[1]
      BY <2>2, <2>3, <2>4, <2>5, <2>6 DEF LimiterInv, Store
    <3>3. \A j, k \in DOMAIN buckets' : buckets'[j] = buckets'[k] => j = k
      BY <2>3, <2>4 DEF LimiterInv, Store
    <3>4. QED BY <1>2, <2>4, <2>5, <3>1, <3>2, <3>3 DEF LimiterInv, Store
  <2>8. PICK q : q = [req[c] EXCEPT !.pc = "take", !.ref = r]
    OBVIOUS
  <2>9. q.kind = req[c].kind /\ q.agent = req[c].agent /\ q.amount = req[c].amount /\ q.pc = "take" /\ q.ref = r
        /\ q \in L!RequestState
    BY <1>1, <2>2, <2>8 DEF Holds, L!RequestState
  <2>10. Holds(q, heap', buckets')
    BY <1>1, <1>2, <2>2, <2>3, <2>4, <2>6, <2>9 DEF Holds
  <2>11. DOMAIN req' = Client /\ \A d \in Client : req'[d] = IF d = c THEN q ELSE req[d]
    BY <1>1, <2>1, <2>8
  <2>12. ASSUME NEW d \in Client PROVE Holds(req[d], heap', buckets')
    <3>1. Holds(req[d], heap, buckets) /\ req[d].ref # r
      BY <2>3 DEF LimiterInv, Holding
    <3>2. req[d].pc = "take" => heap'[req[d].ref].kind = heap[req[d].ref].kind
      BY <2>5, <3>1 DEF Holds
    <3>3. \A k \in DOMAIN buckets' : buckets'[k] = req[d].ref => k \in DOMAIN buckets /\ buckets[k] = req[d].ref
      BY <2>4, <3>1
    <3>4. QED BY <3>1, <3>2, <3>3, StillHolds
  <2>13. Holding'
    BY <2>10, <2>11, <2>12 DEF Holding
  <2>14. Watched' = Watched
    <3>1. CASE watched = key
      BY <1>3, <1>6, <2>4, <2>5, <3>1 DEF Watched
    <3>2. CASE watched # key /\ watched \in DOMAIN buckets
      BY <1>3, <2>3, <2>4, <2>5, <3>2 DEF Watched, LimiterInv, Store
    <3>3. CASE watched # key /\ watched \notin DOMAIN buckets
      BY <1>3, <2>4, <3>3 DEF Watched
    <3>4. QED BY <3>1, <3>2, <3>3
  <2>15. QED BY <1>3, <1>4, <2>7, <2>13, <2>14, SameWatched DEF LimiterInv
<1>7. QED BY <1>5, <1>6

LEMMA TakeKeeps == ASSUME L!LimiterConstants, LimiterInv, NEW c \in Client, L!Take(c) PROVE LimiterInv'
<1>1. PICK q, n, b, use, e :
        /\ q = req[c] /\ n = q.amount[q.kind] /\ b = heap[q.ref] /\ use = L!Consume(b, q.kind, n)
        /\ e = IF use.ok /\ L!After(q.kind) # "none"
               THEN [q EXCEPT !.pc = "get", !.ref = Nil, !.kind = L!After(q.kind)]
               ELSE [L!Idle EXCEPT !.pc = IF use.ok THEN "allowed" ELSE "limited", !.agent = q.agent]
  OBVIOUS
<1>2. /\ q.pc = "take" /\ UNCHANGED <<buckets, conditioned, watched, since>>
      /\ heap' = [r \in Ref |-> IF r \in L!InUse' THEN [heap EXCEPT ![q.ref] = use.bucket][r] ELSE L!Blank]
      /\ taken' = IF use.ok THEN L!Count(taken, <<q.kind, q.agent>>, n) ELSE taken
      /\ stray' = IF use.ok /\ q.ref \notin L!Range(buckets)
                  THEN L!Count(stray, <<q.kind, q.agent>>, n) ELSE stray
  BY <1>1 DEF L!Take, L!Collect
<1>3. req' = [req EXCEPT ![c] = e]
  <2>1. CASE ~use.ok
    BY <1>1, <2>1 DEF L!Take
  <2>2. CASE use.ok /\ L!After(q.kind) = "none"
    BY <1>1, <2>2 DEF L!Take
  <2>3. CASE use.ok /\ L!After(q.kind) # "none"
    BY <1>1, <2>3 DEF L!Take
  <2>4. QED BY <2>1, <2>2, <2>3
<1>4. Store /\ Holding /\ Unlimited /\ Observing /\ Bounded /\ Holds(q, heap, buckets)
  BY <1>1 DEF LimiterInv, Holding
<1>5. /\ q \in L!RequestState /\ q.ref \in Ref /\ q.kind \in L!Kind /\ q.agent \in Agent /\ q.amount["req"] = 1
      /\ b.kind = q.kind /\ \A k \in DOMAIN buckets : buckets[k] = q.ref => k = <<q.kind, q.agent>>
  BY <1>1, <1>2, <1>4 DEF Holds, L!RequestState
<1>6. n \in Nat /\ (b.kind = "req" => n = 1) /\ Fit(b)
  BY <1>1, <1>4, <1>5 DEF L!RequestState, L!LimiterConstants, Store
<1>7. Fit(use.bucket) /\ use.bucket.kind = b.kind
  BY <1>1, <1>5, <1>6, TakeFits
<1>8. /\ DOMAIN heap' = Ref
      /\ \A x \in Ref : x \in L!InUse' => heap'[x] = IF x = q.ref THEN use.bucket ELSE heap[x]
      /\ \A x \in Ref : x \notin L!InUse' => heap'[x] = L!Blank
  BY <1>2, <1>4 DEF Store
<1>9. \A x \in Ref : x \in L!InUse' => heap'[x].kind = heap[x].kind
  BY <1>1, <1>7, <1>8
<1>10. \A k \in DOMAIN buckets : buckets[k] \in L!InUse'
  BY <1>2 DEF L!InUse, L!Range
<1>11. Store'
  <2>1. Fit(L!Blank)
    BY NewFits DEF L!Blank, L!Kind
  <2>2. \A x \in Ref : Fit(heap'[x])
    BY <1>4, <1>7, <1>8, <2>1 DEF Store
  <2>3. \A k \in DOMAIN buckets : buckets[k] \in Ref /\ heap'[buckets[k]].kind = k[1]
    BY <1>4, <1>9, <1>10 DEF Store
  <2>4. QED BY <1>2, <1>4, <1>8, <2>2, <2>3 DEF Store
<1>12. DOMAIN req' = Client /\ \A d \in Client : req'[d] = IF d = c THEN e ELSE req[d]
  BY <1>3, <1>4 DEF Holding
<1>13. Holds(e, heap', buckets')
  <2>1. CASE use.ok /\ L!After(q.kind) # "none"
    <3>1. L!After(q.kind) \in L!Kind
      BY <2>1 DEF L!After, L!Kind
    <3>2. e = [q EXCEPT !.pc = "get", !.ref = Nil, !.kind = L!After(q.kind)]
      BY <1>1, <2>1
    <3>3. e \in L!RequestState /\ e.pc = "get" /\ e.agent = q.agent /\ e.amount = q.amount
      BY <1>5, <3>1, <3>2 DEF L!RequestState
    <3>4. QED BY <1>5, <3>3 DEF Holds
  <2>2. CASE ~(use.ok /\ L!After(q.kind) # "none")
    <3>1. PICK s : s = IF use.ok THEN "allowed" ELSE "limited"
      OBVIOUS
    <3>2. e = [L!Idle EXCEPT !.pc = s, !.agent = q.agent]
      BY <1>1, <2>2, <3>1
    <3>3. L!Idle \in L!RequestState /\ L!Idle.amount["req"] = 1
      BY IdleHolds DEF Holds
    <3>4. e \in L!RequestState /\ e.pc \in {"allowed", "limited"} /\ e.amount["req"] = 1
      BY <1>5, <3>1, <3>2, <3>3 DEF L!RequestState
    <3>5. QED BY <3>4 DEF Holds
  <2>3. QED BY <2>1, <2>2
<1>14. ASSUME NEW d \in Client, d # c PROVE Holds(req[d], heap', buckets')
  <2>1. Holds(req[d], heap, buckets)
    BY <1>4 DEF Holding
  <2>2. req[d].ref \in L!InUse'
    BY <1>12, <1>14 DEF L!InUse
  <2>3. req[d].pc = "take" => heap'[req[d].ref].kind = heap[req[d].ref].kind
    BY <1>9, <2>1, <2>2 DEF Holds
  <2>4. QED BY <1>2, <2>1, <2>3, StillHolds
<1>15. Holding'
  BY <1>12, <1>13, <1>14 DEF Holding
<1>16. Unlimited'
  BY <1>1, <1>2, <1>4 DEF Unlimited
<1>17. Observing' /\ (L!Counting' <=> L!Counting)
  BY <1>2, <1>4, <1>6 DEF Observing, L!Count, L!Counting, L!Span
<1>18. Bounded'
  <2>1. SUFFICES ASSUME L!Counting PROVE Within(Watched', taken' - stray', since)
    BY <1>2, <1>17 DEF Bounded
  <2>2. Within(Watched, taken - stray, since) /\ taken \in Int /\ stray \in Int /\ since \in Nat
    BY <1>4, <2>1 DEF Bounded, Observing
  <2>3. CASE q.ref \notin L!Range(buckets)
    <3>1. taken' - stray' = taken - stray
      BY <1>2, <1>6, <2>2, <2>3 DEF L!Count
    <3>2. Watched' = Watched
      BY <1>2, <1>4, <1>8, <1>10, <2>3 DEF Watched, Store, L!Range
    <3>3. QED BY <2>2, <3>1, <3>2
  <2>4. CASE q.ref \in L!Range(buckets)
    <3>1. PICK k \in DOMAIN buckets : buckets[k] = q.ref
      BY <2>4 DEF L!Range
    <3>2. k = <<q.kind, q.agent>> /\ stray' = stray
      BY <1>2, <1>5, <2>4, <3>1
    <3>3. CASE k = watched
      <4>1. Watched = b /\ Watched' = use.bucket
        BY <1>1, <1>2, <1>4, <1>8, <1>10, <3>1, <3>3 DEF Watched, Store
      <4>2. taken' = IF use.ok THEN taken + n ELSE taken
        BY <1>2, <2>1, <3>2, <3>3 DEF L!Count
      <4>3. since <= L!Span(b.kind)
        BY <1>5, <2>1, <3>2, <3>3 DEF L!Counting
      <4>4. taken' - stray' = IF use.ok THEN (taken - stray) + n ELSE taken - stray
        BY <1>6, <2>2, <3>2, <4>2
      <4>5. taken - stray \in Int
        BY <2>2
      <4>6. Within(use.bucket, IF use.ok THEN (taken - stray) + n ELSE taken - stray, since)
        BY <1>1, <1>5, <1>6, <2>2, <4>1, <4>3, <4>5, TakeWithin
      <4>7. QED BY <4>1, <4>4, <4>6
    <3>4. CASE k # watched
      <4>1. taken' = taken
        BY <1>2, <3>2, <3>4 DEF L!Count
      <4>2. Watched' = Watched
        BY <1>2, <1>4, <1>8, <1>10, <3>1, <3>4 DEF Watched, Store
      <4>3. QED BY <2>2, <3>2, <4>1, <4>2
    <3>5. QED BY <3>3, <3>4
  <2>5. QED BY <2>3, <2>4
<1>19. QED BY <1>11, <1>15, <1>16, <1>17, <1>18 DEF LimiterInv

LEMMA SweepKeeps == ASSUME L!LimiterConstants, LimiterInv, L!Cleanup PROVE LimiterInv'
<1>1. /\ UNCHANGED <<req, conditioned, watched, since, taken, stray>>
      /\ buckets' = [k \in {j \in DOMAIN buckets : ~L!Stale(j)} |-> buckets[k]]
      /\ heap' = [r \in Ref |-> IF r \in L!InUse' THEN heap[r] ELSE L!Blank]
  BY DEF L!Cleanup, L!Collect, L!Restrict, L!seen
<1>2. Store /\ Holding /\ Unlimited /\ Observing /\ Bounded
  BY DEF LimiterInv
<1>3. /\ DOMAIN buckets' \subseteq DOMAIN buckets
      /\ \A k \in DOMAIN buckets' : buckets'[k] = buckets[k] /\ buckets[k] \in L!InUse'
      /\ \A k \in DOMAIN buckets : k \notin DOMAIN buckets' => L!Stale(k)
  BY <1>1 DEF L!InUse, L!Range
<1>4. \A c \in Client : req[c].ref \in L!InUse'
  BY <1>1 DEF L!InUse
<1>5. Store'
  <2>1. Fit(L!Blank)
    BY NewFits DEF L!Blank, L!Kind
  <2>2. \A x \in Ref : Fit(heap'[x])
    BY <1>1, <1>2, <2>1 DEF Store
  <2>3. \A k \in DOMAIN buckets' : buckets'[k] \in Ref /\ heap'[buckets'[k]].kind = k[1]
    BY <1>1, <1>2, <1>3 DEF Store
  <2>4. \A j, k \in DOMAIN buckets' : buckets'[j] = buckets'[k] => j = k
    BY <1>2, <1>3 DEF Store
  <2>5. QED BY <1>1, <1>2, <1>3, <2>2, <2>3, <2>4 DEF Store
<1>6. ASSUME NEW c \in Client PROVE Holds(req[c], heap', buckets')
  <2>1. Holds(req[c], heap, buckets)
    BY <1>2 DEF Holding
  <2>2. req[c].pc = "take" => heap'[req[c].ref].kind = heap[req[c].ref].kind
    BY <1>1, <1>4, <2>1 DEF Holds
  <2>3. QED BY <1>3, <2>1, <2>2, StillHolds
<1>7. Holding'
  BY <1>1, <1>2, <1>6 DEF Holding
<1>8. Unlimited'
  BY <1>1, <1>2, <1>3 DEF Unlimited
<1>9. Observing' /\ (L!Counting' <=> L!Counting)
  BY <1>1, <1>2 DEF Observing, L!Counting, L!Span
<1>10. Bounded'
  <2>1. SUFFICES ASSUME L!Counting PROVE Within(Watched', taken - stray, since)
    BY <1>1, <1>9 DEF Bounded
  <2>2. Within(Watched, taken - stray, since) /\ taken \in Int /\ stray \in Int /\ since \in Nat
        /\ since <= L!Span(watched[1])
    BY <1>2, <2>1 DEF Bounded, Observing, L!Counting
  <2>3. CASE watched \in DOMAIN buckets'
    <3>1. Watched' = Watched
      BY <1>1, <1>2, <1>3, <2>3 DEF Watched, Store
    <3>2. QED BY <2>2, <3>1
  <2>4. CASE watched \notin DOMAIN buckets
    <3>1. Watched' = Watched
      BY <1>1, <1>3, <2>4 DEF Watched
    <3>2. QED BY <2>2, <3>1
  <2>5. CASE watched \in DOMAIN buckets /\ watched \notin DOMAIN buckets'
    <3>1. PICK b : b = heap[buckets[watched]]
      OBVIOUS
    <3>2. Watched = b /\ Watched' = L!NewBucket(b.kind) /\ Fit(b) /\ b.kind = watched[1]
      BY <1>1, <1>2, <2>5, <3>1 DEF Watched, Store
    <3>3. IF b.kind = "req" THEN b.age >= L!Idled ELSE b.left < 0 /\ b.used = 0
      BY <1>3, <2>5, <3>1, <3>2 DEF L!Stale
    <3>4. taken - stray \in Int
      BY <2>2
    <3>5. QED BY <2>2, <3>2, <3>3, <3>4, DropWithin
  <2>6. QED BY <2>3, <2>4, <2>5
<1>11. QED BY <1>5, <1>7, <1>8, <1>9, <1>10 DEF LimiterInv

LEMMA TickKeeps == ASSUME L!LimiterConstants, LimiterInv, L!Tick PROVE LimiterInv'
<1>1. /\ UNCHANGED <<buckets, req, conditioned, watched>>
      /\ heap' = [r \in Ref |-> IF r \notin L!InUse THEN heap[r] ELSE Aged(heap[r])]
      /\ since' = (IF L!Counting THEN since + 1 ELSE since)
      /\ taken' = (IF L!Counting' THEN taken ELSE 0) /\ stray' = (IF L!Counting' THEN stray ELSE 0)
  <2>1. heap' = [r \in Ref |-> IF r \notin L!InUse THEN heap[r] ELSE Aged(heap[r])]
    BY DEF L!Tick, Aged
  <2>2. QED BY <2>1 DEF L!Tick
<1>2. Store /\ Holding /\ Unlimited /\ Observing /\ Bounded
  BY DEF LimiterInv
<1>3. \A k \in DOMAIN buckets : buckets[k] \in L!InUse
  BY DEF L!InUse, L!Range
<1>4. \A x \in Ref : Fit(heap'[x]) /\ heap'[x].kind = heap[x].kind
  BY <1>1, <1>2, TickFits DEF Store
<1>5. Store'
  BY <1>1, <1>2, <1>4 DEF Store
<1>6. ASSUME NEW c \in Client PROVE Holds(req[c], heap', buckets')
  <2>1. Holds(req[c], heap, buckets)
    BY <1>2 DEF Holding
  <2>2. req[c].pc = "take" => heap'[req[c].ref].kind = heap[req[c].ref].kind
    BY <1>4, <2>1 DEF Holds
  <2>3. QED BY <1>1, <2>1, <2>2, StillHolds
<1>7. Holding'
  BY <1>1, <1>2, <1>6 DEF Holding
<1>8. Unlimited'
  BY <1>1, <1>2 DEF Unlimited
<1>9. Observing'
  BY <1>1, <1>2 DEF Observing
<1>10. Bounded'
  <2>1. SUFFICES ASSUME L!Counting' PROVE Within(Watched', taken - stray, since')
    BY <1>1 DEF Bounded
  <2>2. since \in Nat /\ taken \in Int /\ stray \in Int /\ since' <= L!Span(watched[1])
    BY <1>1, <1>2, <2>1 DEF Observing, L!Counting
  <2>3. L!Counting
    <3>1. SUFFICES ASSUME ~L!Counting PROVE FALSE
      OBVIOUS
    <3>2. since' = since
      BY <1>1, <3>1
    <3>3. QED BY <2>2, <3>1, <3>2 DEF L!Counting
  <2>4. since' = since + 1 /\ Within(Watched, taken - stray, since) /\ taken - stray \in Int
    BY <1>1, <1>2, <2>2, <2>3 DEF Bounded
  <2>5. CASE watched \in DOMAIN buckets
    <3>1. PICK b : b = heap[buckets[watched]]
      OBVIOUS
    <3>2. Watched = b /\ Fit(b) /\ b.kind = watched[1] /\ Watched' = Aged(b)
      BY <1>1, <1>2, <1>3, <2>5, <3>1 DEF Watched, Store
    <3>3. QED BY <2>2, <2>4, <3>2, TickWithin
  <2>6. CASE watched \notin DOMAIN buckets
    <3>1. Watched = L!NewBucket(watched[1]) /\ Watched' = L!NewBucket(watched[1]) /\ watched[1] \in L!Kind
      BY <1>1, <1>2, <2>6 DEF Watched, Observing, L!Key
    <3>2. QED BY <2>2, <2>4, <3>1, WaitWithin
  <2>7. QED BY <2>5, <2>6
<1>11. QED BY <1>5, <1>7, <1>8, <1>9, <1>10 DEF LimiterInv

LEMMA MarkKeeps == ASSUME L!LimiterConstants, LimiterInv, L!Mark \/ UNCHANGED L!vars PROVE LimiterInv'
<1>1. UNCHANGED <<buckets, heap, req, conditioned, watched>>
  BY DEF L!Mark, L!vars
<1>2. Store' /\ Holding' /\ Unlimited' /\ Watched' = Watched
  BY <1>1 DEF LimiterInv, Store, Holding, Unlimited, Watched
<1>3. CASE L!Mark
  <2>1. since' = 0 /\ taken' = 0 /\ stray' = 0
    BY <1>3 DEF L!Mark
  <2>2. Observing'
    BY <1>1, <2>1 DEF LimiterInv, Observing
  <2>3. Within(Watched, 0, 0)
    BY WatchedFits, StartsWithin DEF LimiterInv
  <2>4. Bounded'
    BY <1>2, <2>1, <2>3 DEF Bounded
  <2>5. QED BY <1>2, <2>2, <2>4 DEF LimiterInv
<1>4. CASE UNCHANGED L!vars
  <2>1. UNCHANGED <<watched, since, taken, stray>>
    BY <1>4 DEF L!vars, L!seen
  <2>2. QED BY <1>2, <2>1, SameWatched DEF LimiterInv
<1>5. QED BY <1>3, <1>4

LEMMA LimiterHolds == L!Spec => []LimiterInv
<1> USE LimiterAssumption
<1>1. L!Init => LimiterInv
  BY LimiterStart
<1>2. LimiterInv /\ [L!Next]_L!vars => LimiterInv'
  BY ArriveKeeps, GetKeeps, TakeKeeps, SweepKeeps, TickKeeps, MarkKeeps DEF L!Next, L!Step
<1>3. QED BY <1>1, <1>2, PTL DEF L!Spec

(* However many agents, requests and buckets there are, whatever the limits *)
(* and the window: no span of a window lets more than twice the limit       *)
(* through a counter, apart from what requests take from buckets the sweep  *)
(* has dropped (ratelimiter.go: consumeOne, consumeQuota, cleanup).         *)
THEOREM NoBurstPastTwice == Spec => []BurstBound
<1> USE LimiterAssumption
<1>1. ASSUME LimiterInv PROVE L!BurstBound
  <2>1. SUFFICES ASSUME L!Counting PROVE taken <= 2 * Limit[watched[1]] + stray
    BY DEF L!BurstBound
  <2>2. Within(Watched, taken - stray, since) /\ Fit(Watched) /\ Watched.kind = watched[1]
    BY <1>1, <2>1, WatchedFits DEF LimiterInv, Bounded
  <2>3. /\ taken \in Int /\ stray \in Int /\ taken - stray \in Int /\ since \in Nat
        /\ Limit[watched[1]] > 0 /\ since <= L!Span(watched[1])
    BY <1>1, <2>1 DEF LimiterInv, Observing, L!Counting
  <2>4. taken - stray <= 2 * Limit[watched[1]] /\ Limit[watched[1]] \in Nat
    BY <2>2, <2>3, WithinBounds, Fields
  <2>5. QED BY <2>3, <2>4
<1>2. QED BY LimiterHolds, <1>1, EachOfThree, PTL DEF BurstBound

(* A rule whose condition repeats its own limit never limits a request,     *)
(* however many come: the bucket the condition looks at is made by the      *)
(* action the condition guards (conditions.go: requestCountCondition).      *)
THEOREM ConditionStaysUnmet == Spec => []ConditionNeverMet
<1> USE LimiterAssumption
<1>1. LimiterInv => L!ConditionNeverMet
  BY DEF LimiterInv, Unlimited, L!ConditionNeverMet
<1>2. QED BY LimiterHolds, <1>1, EachOfThree, PTL DEF ConditionNeverMet

-----------------------------------------------------------------------------
(* Sessions: the books of totals and table *)


Stages == {"idle", "touch", "create", "prompt", "compare", "answer", "record", "write", "done"}
Charge == [cost : Nat, seen : Nat]

SessionsTyped ==
  /\ now \in Nat
  /\ stage \in [Request -> Stages] /\ sid \in [Request -> Sid \cup {None}]
  /\ held \in [Request -> S!Object \cup {None}]
  /\ outcome \in [Request -> {"none", "charged", "unspent", "free"}]
  /\ fate \in [Request -> {"none", "background", "recorded", "failed"}]
  /\ sessions \in [Sid -> S!Object \cup {None}]
  /\ totals \in [S!Object -> Charge]
  /\ table \in [Sid -> Nat \cup {None}]

\* A session object belongs to one id: it was restored for it, or created by
\* one of its requests.
Own(o, s, ids) == o = s \/ (o \in Request /\ ids[o] = s)

\* Where a request is in the handler, and what that says of it.
Progress ==
  \A r \in Request :
    /\ stage[r] = "idle" <=> sid[r] = None
    /\ stage[r] \in {"idle", "touch", "create", "prompt", "compare", "answer"} => outcome[r] = "none"
    /\ stage[r] \in {"record", "write", "done"} => outcome[r] # "none"
    /\ stage[r] # "done" <=> fate[r] = "none"

\* The sessions in memory, and the ids whose totals this process has not
\* dropped: a request at work holds its id's session, and an id without one has
\* no row and no more than requests about to create it.
Keeping ==
  /\ \A s \in Sid : sessions[s] # None => Own(sessions[s], s, sid)
  /\ \A r \in Request : held[r] # None => sid[r] \in Sid /\ Own(held[r], sid[r], sid)
  /\ \A r \in Request : stage[r] \in {"touch", "prompt", "compare", "answer", "record", "write"} =>
       held[r] # None /\ (sid[r] \notin dropped => sessions[sid[r]] = held[r])
  /\ \A s \in Sid \ dropped : sessions[s] = None =>
       table[s] = None /\ \A r \in Request : sid[r] = s => stage[r] = "create"

\* What a session owes the table, and what the table counts that was not spent.
Owed(s) == {r \in Request : sid[r] = s /\ outcome[r] = "charged" /\ fate[r] # "recorded"}
Unspent(s) == {r \in Request : sid[r] = s /\ outcome[r] = "unspent" /\ fate[r] = "recorded"}

Balanced(s) ==
  /\ IsFiniteSet(Owed(s)) /\ IsFiniteSet(Unspent(s))
  /\ sessions[s] # None /\ s \notin dropped =>
       S!CostOf(table[s]) + Cardinality(Owed(s)) = totals[sessions[s]].cost + Cardinality(Unspent(s))

Slots == IsFiniteSet(S!Background) /\ Cardinality(S!Background) <= PersistSlots

\* What a sweep has collected was idle then, and the clock does not go back.
Collected == stale # None => stale.cutoff \in Int /\ stale.cutoff <= now - MaxAge

Books == SessionsTyped /\ Progress /\ Keeping /\ (\A s \in Sid : Balanced(s)) /\ Slots /\ Collected

LEMMA SameCount == ASSUME NEW T PROVE S!Cardinality(T) = Cardinality(T)
  BY DEF S!Cardinality, Cardinality

LEMMA NoName == ASSUME S!SessionsConstants PROVE None \notin Sid /\ None \notin S!Object /\ Request \cap Sid = {}
  BY DEF S!SessionsConstants, S!Object

LEMMA BooksStart == ASSUME S!SessionsConstants, S!Init PROVE Books
<1>1. /\ now = 0 /\ stale = None /\ dropped = {}
      /\ \A r \in Request : stage[r] = "idle" /\ sid[r] = None /\ held[r] = None /\ outcome[r] = "none" /\ fate[r] = "none"
      /\ \A s \in Sid : table[s] = None /\ sessions[s] = None
  BY DEF S!Init
<1>2. SessionsTyped
  BY DEF S!Init, SessionsTyped, Stages, Charge, S!Unused
<1>3. Progress /\ Keeping /\ Collected
  BY <1>1, NoName DEF Progress, Keeping, Collected
<1>4. \A s \in Sid : Owed(s) = {} /\ Unspent(s) = {}
  BY <1>1 DEF Owed, Unspent
<1>5. \A s \in Sid : Balanced(s)
  BY <1>1, <1>4, FS_EmptySet DEF Balanced
<1>6. S!Background = {}
  BY <1>1 DEF S!Background
<1>7. Slots
  BY <1>6, FS_EmptySet DEF Slots, S!SessionsConstants
<1>8. QED BY <1>2, <1>3, <1>5, <1>7 DEF Books

\* A session whose requests, row and cost stay as they are stays balanced.
LEMMA BalanceStays ==
  ASSUME NEW s \in Sid, Balanced(s), Owed(s)' = Owed(s), Unspent(s)' = Unspent(s),
         sessions'[s] # None /\ s \notin dropped' =>
           /\ sessions[s] # None /\ s \notin dropped /\ table'[s] = table[s]
           /\ totals'[sessions'[s]].cost = totals[sessions[s]].cost
  PROVE  Balanced(s)'
  BY DEF Balanced, S!CostOf

\* The two counts of a step that leaves the outcomes and what is recorded.
LEMMA SameOwed ==
  ASSUME sid' = sid, outcome' = outcome, \A r \in Request : fate'[r] = "recorded" <=> fate[r] = "recorded",
         NEW s \in Sid
  PROVE  Owed(s)' = Owed(s) /\ Unspent(s)' = Unspent(s)
  BY DEF Owed, Unspent

LEMMA SlotsStay ==
  ASSUME S!SessionsConstants, Slots, \A r \in Request : fate'[r] = "background" => fate[r] = "background"
  PROVE  Slots'
<1>1. S!Background' \subseteq S!Background
  BY DEF S!Background
<1>2. IsFiniteSet(S!Background') /\ Cardinality(S!Background') <= Cardinality(S!Background)
  BY <1>1, FS_Subset DEF Slots
<1>3. Cardinality(S!Background) \in Nat /\ Cardinality(S!Background') \in Nat
  BY <1>2, FS_CardinalityType DEF Slots
<1>4. PersistSlots \in Nat
  BY DEF S!SessionsConstants
<1>5. QED BY <1>2, <1>3, <1>4 DEF Slots

\* What the collector leaves of the session objects.
LEMMA RetainedObjects ==
  ASSUME NEW h \in [S!Object -> Charge], NEW ss, NEW hs, NEW t, t = S!Retained(h, ss, hs)
  PROVE  /\ t \in [S!Object -> Charge]
         /\ \A s \in DOMAIN ss : ss[s] \in S!Object => t[ss[s]] = h[ss[s]]
<1>1. t = [o \in S!Object |-> IF o \in S!Range(ss) \cup S!Range(hs) THEN h[o] ELSE S!Unused]
  BY DEF S!Retained
<1>2. S!Unused \in Charge
  BY DEF S!Unused, Charge
<1>3. t \in [S!Object -> Charge]
  BY <1>1, <1>2
<1>4. \A s \in DOMAIN ss : ss[s] \in S!Range(ss)
  BY DEF S!Range
<1>5. QED BY <1>1, <1>3, <1>4

LEMMA ArriveBooks == ASSUME S!SessionsConstants, Books, NEW r \in Request, S!Arrive(r) PROVE Books'
<1>1. PICK s \in Sid : /\ sid' = [sid EXCEPT ![r] = s] /\ held' = [held EXCEPT ![r] = sessions[s]]
                       /\ stage' = [stage EXCEPT ![r] = IF s \in S!Live THEN "touch" ELSE "create"]
  BY DEF S!Arrive
<1>2. stage[r] = "idle" /\ UNCHANGED <<now, outcome, fate, stale, table, sessions, totals, dropped>>
  BY DEF S!Arrive, S!tracker
<1>3. SessionsTyped /\ Progress /\ Keeping /\ Slots /\ Collected
  BY DEF Books
<1>4. sid[r] = None /\ outcome[r] = "none" /\ fate[r] = "none" /\ None \notin Sid /\ Request \cap Sid = {}
  BY <1>2, <1>3, NoName DEF Progress
<1>5. /\ \A q \in Request : sid'[q] = IF q = r THEN s ELSE sid[q]
      /\ \A q \in Request : held'[q] = IF q = r THEN sessions[s] ELSE held[q]
      /\ \A q \in Request : stage'[q] = IF q # r THEN stage[q] ELSE IF sessions[s] # None THEN "touch" ELSE "create"
  BY <1>1, <1>3 DEF SessionsTyped, S!Live
<1>6. SessionsTyped'
  BY <1>1, <1>2, <1>3 DEF SessionsTyped, Stages
<1>7. Progress'
  BY <1>2, <1>3, <1>4, <1>5 DEF Progress
<1>8. \A o, t : t \in Sid /\ Own(o, t, sid) => Own(o, t, sid')
  BY <1>4, <1>5 DEF Own
<1>9. Keeping'
  <2>1. \A t \in Sid : sessions[t] # None => Own(sessions[t], t, sid')
    BY <1>3, <1>8 DEF Keeping
  <2>2. ASSUME NEW q \in Request, held'[q] # None PROVE sid'[q] \in Sid /\ Own(held'[q], sid'[q], sid')
    <3>1. CASE q = r
      BY <1>5, <2>1, <2>2, <3>1
    <3>2. CASE q # r
      <4>1. held[q] # None /\ sid[q] \in Sid /\ Own(held[q], sid[q], sid) /\ held'[q] = held[q] /\ sid'[q] = sid[q]
        BY <1>3, <1>5, <2>2, <3>2 DEF Keeping
      <4>2. QED BY <1>4, <1>5, <4>1 DEF Own
    <3>3. QED BY <3>1, <3>2
  <2>3. \A q \in Request : stage'[q] \in {"touch", "prompt", "compare", "answer", "record", "write"} =>
          held'[q] # None /\ (sid'[q] \notin dropped => sessions[sid'[q]] = held'[q])
    BY <1>3, <1>5 DEF Keeping
  <2>4. \A t \in Sid \ dropped : sessions[t] = None =>
          table[t] = None /\ \A q \in Request : sid'[q] = t => stage'[q] = "create"
    BY <1>3, <1>5 DEF Keeping
  <2>5. QED BY <1>2, <2>1, <2>2, <2>3, <2>4 DEF Keeping
<1>10. ASSUME NEW t \in Sid PROVE Balanced(t)'
  <2>1. Owed(t)' = Owed(t) /\ Unspent(t)' = Unspent(t)
    BY <1>2, <1>4, <1>5 DEF Owed, Unspent
  <2>2. QED BY <1>2, <2>1, BalanceStays DEF Books
<1>11. QED BY <1>2, <1>3, <1>6, <1>7, <1>9, <1>10, SlotsStay DEF Books, Collected

LEMMA TouchBooks == ASSUME S!SessionsConstants, Books, NEW r \in Request, S!Touch(r) PROVE Books'
<1>1. /\ stage[r] = "touch" /\ stage' = [stage EXCEPT ![r] = "prompt"]
      /\ totals' = [totals EXCEPT ![held[r]].seen = now]
      /\ UNCHANGED <<now, sid, held, outcome, fate, stale, table, sessions, dropped>>
  BY DEF S!Touch, S!request
<1>2. SessionsTyped /\ Progress /\ Keeping /\ Slots /\ Collected
  BY DEF Books
<1>3. held[r] \in S!Object /\ now \in Nat /\ totals \in [S!Object -> Charge]
  BY <1>1, <1>2 DEF Keeping, SessionsTyped
<1>4. totals' \in [S!Object -> Charge] /\ \A x \in S!Object : totals'[x].cost = totals[x].cost
  BY <1>1, <1>3 DEF Charge
<1>5. \A q \in Request : stage'[q] = IF q = r THEN "prompt" ELSE stage[q]
  BY <1>1, <1>2 DEF SessionsTyped
<1>6. SessionsTyped' /\ Progress'
  BY <1>1, <1>2, <1>4, <1>5 DEF SessionsTyped, Progress, Stages
<1>7. Keeping'
  BY <1>1, <1>2, <1>5 DEF Keeping
<1>8. ASSUME NEW t \in Sid PROVE Balanced(t)'
  <2>1. Owed(t)' = Owed(t) /\ Unspent(t)' = Unspent(t)
    BY <1>1, SameOwed
  <2>2. sessions[t] # None => totals'[sessions[t]].cost = totals[sessions[t]].cost
    BY <1>2, <1>4 DEF SessionsTyped
  <2>3. QED BY <1>1, <2>1, <2>2, BalanceStays DEF Books
<1>9. QED BY <1>1, <1>2, <1>6, <1>7, <1>8, SlotsStay DEF Books, Collected

LEMMA FoundBooks == ASSUME S!SessionsConstants, Books, NEW r \in Request, S!Found(r) PROVE Books'
<1>1. /\ stage[r] = "create" /\ stage' = [stage EXCEPT ![r] = "prompt"] /\ sessions[sid[r]] # None
      /\ held' = [held EXCEPT ![r] = sessions[sid[r]]] /\ sid[r] \in Sid
      /\ totals' = [totals EXCEPT ![sessions[sid[r]]].seen = now]
      /\ UNCHANGED <<now, sid, outcome, fate, stale, table, sessions, dropped>>
  BY DEF S!Found, S!request, S!Live
<1>2. SessionsTyped /\ Progress /\ Keeping /\ Slots /\ Collected
  BY DEF Books
<1>3. sessions[sid[r]] \in S!Object /\ now \in Nat /\ totals \in [S!Object -> Charge]
  BY <1>1, <1>2 DEF SessionsTyped
<1>4. totals' \in [S!Object -> Charge] /\ \A x \in S!Object : totals'[x].cost = totals[x].cost
  BY <1>1, <1>3 DEF Charge
<1>5. /\ \A q \in Request : stage'[q] = IF q = r THEN "prompt" ELSE stage[q]
      /\ \A q \in Request : held'[q] = IF q = r THEN sessions[sid[r]] ELSE held[q]
  BY <1>1, <1>2 DEF SessionsTyped
<1>6. SessionsTyped' /\ Progress'
  BY <1>1, <1>2, <1>3, <1>4, <1>5 DEF SessionsTyped, Progress, Stages
<1>7. Keeping'
  <2>1. \A q \in Request : held'[q] # None => sid[q] \in Sid /\ Own(held'[q], sid[q], sid)
    BY <1>1, <1>2, <1>5 DEF Keeping
  <2>2. \A q \in Request : stage'[q] \in {"touch", "prompt", "compare", "answer", "record", "write"} =>
          held'[q] # None /\ (sid[q] \notin dropped => sessions[sid[q]] = held'[q])
    BY <1>1, <1>2, <1>5 DEF Keeping
  <2>3. \A t \in Sid \ dropped : sessions[t] = None =>
          table[t] = None /\ \A q \in Request : sid[q] = t => stage'[q] = "create"
    BY <1>1, <1>2, <1>5 DEF Keeping
  <2>4. QED BY <1>1, <1>2, <2>1, <2>2, <2>3 DEF Keeping
<1>8. ASSUME NEW t \in Sid PROVE Balanced(t)'
  <2>1. Owed(t)' = Owed(t) /\ Unspent(t)' = Unspent(t)
    BY <1>1, SameOwed
  <2>2. sessions[t] # None => totals'[sessions[t]].cost = totals[sessions[t]].cost
    BY <1>2, <1>4 DEF SessionsTyped
  <2>3. QED BY <1>1, <2>1, <2>2, BalanceStays DEF Books
<1>9. QED BY <1>1, <1>2, <1>6, <1>7, <1>8, SlotsStay DEF Books, Collected

LEMMA CreateBooks == ASSUME S!SessionsConstants, Books, NEW r \in Request, S!Create(r) PROVE Books'
<1>1. PICK out \in S!Victims :
        /\ sessions' = [s \in Sid |-> IF s = sid[r] THEN r ELSE IF s \in out THEN None ELSE sessions[s]]
        /\ dropped' = dropped \cup out
  BY DEF S!Create
<1>2. /\ stage[r] = "create" /\ sid[r] \notin S!Live /\ stage' = [stage EXCEPT ![r] = "prompt"]
      /\ held' = [held EXCEPT ![r] = r]
      /\ totals' = S!Retained([totals EXCEPT ![r] = S!Fresh], sessions', held')
      /\ UNCHANGED <<now, sid, outcome, fate, stale, table>>
  BY DEF S!Create, S!request
<1>3. SessionsTyped /\ Progress /\ Keeping /\ Slots /\ Collected
  BY DEF Books
<1>4. out \subseteq S!Live
  BY DEF S!Victims, S!Oldest
<1>5. /\ sid[r] \in Sid /\ sid[r] # None /\ sessions[sid[r]] = None /\ sid[r] \notin out
      /\ r \in S!Object /\ r # None /\ r \notin Sid /\ None \notin S!Object /\ None \notin Sid
      /\ outcome[r] = "none" /\ now \in Nat
  BY <1>2, <1>3, <1>4, NoName DEF S!Live, SessionsTyped, Progress, S!Object
<1>6. /\ DOMAIN sessions' = Sid /\ sessions'[sid[r]] = r
      /\ \A s \in Sid : s # sid[r] => sessions'[s] = IF s \in out THEN None ELSE sessions[s]
      /\ sessions' \in [Sid -> S!Object \cup {None}]
  BY <1>1, <1>3, <1>5 DEF SessionsTyped
<1>7. /\ \A q \in Request : stage'[q] = IF q = r THEN "prompt" ELSE stage[q]
      /\ \A q \in Request : held'[q] = IF q = r THEN r ELSE held[q]
  BY <1>2, <1>3 DEF SessionsTyped
<1>8. PICK h : h = [totals EXCEPT ![r] = S!Fresh]
  OBVIOUS
<1>9. h \in [S!Object -> Charge] /\ h[r].cost = 0 /\ \A o \in S!Object : o # r => h[o] = totals[o]
  BY <1>3, <1>5, <1>8 DEF S!Fresh, Charge, SessionsTyped
<1>10. totals' \in [S!Object -> Charge] /\ \A s \in Sid : sessions'[s] # None => totals'[sessions'[s]] = h[sessions'[s]]
  <2>1. totals' = S!Retained(h, sessions', held')
    BY <1>2, <1>8
  <2>2. PICK ss, hs, t : ss = sessions' /\ hs = held' /\ t = totals' /\ t = S!Retained(h, ss, hs)
    BY <2>1
  <2>3. t \in [S!Object -> Charge] /\ \A s \in DOMAIN ss : ss[s] \in S!Object => t[ss[s]] = h[ss[s]]
    BY <1>9, <2>2, RetainedObjects
  <2>4. QED BY <1>6, <2>2, <2>3
<1>11. SessionsTyped' /\ Progress'
  BY <1>2, <1>3, <1>5, <1>6, <1>7, <1>10 DEF SessionsTyped, Progress, Stages
<1>12. Keeping'
  <2>1. \A s \in Sid : sessions'[s] # None => Own(sessions'[s], s, sid)
    BY <1>3, <1>6 DEF Keeping, Own
  <2>2. \A q \in Request : held'[q] # None => sid[q] \in Sid /\ Own(held'[q], sid[q], sid)
    BY <1>3, <1>5, <1>7 DEF Keeping, Own
  <2>3. \A q \in Request : stage'[q] \in {"touch", "prompt", "compare", "answer", "record", "write"} =>
          held'[q] # None /\ (sid[q] \notin dropped' => sessions'[sid[q]] = held'[q])
    <3>1. SUFFICES ASSUME NEW q \in Request, q # r,
                          stage[q] \in {"touch", "prompt", "compare", "answer", "record", "write"}
                   PROVE  held[q] # None /\ (sid[q] \notin dropped' => sessions'[sid[q]] = held[q])
      BY <1>5, <1>6, <1>7
    <3>2. held[q] # None /\ sid[q] \in Sid /\ (sid[q] \notin dropped => sessions[sid[q]] = held[q])
      BY <1>3, <3>1 DEF Keeping
    <3>3. QED BY <1>1, <1>5, <1>6, <3>2
  <2>4. \A s \in Sid \ dropped' : sessions'[s] = None =>
          table[s] = None /\ \A q \in Request : sid[q] = s => stage'[q] = "create"
    BY <1>1, <1>3, <1>5, <1>6, <1>7 DEF Keeping
  <2>5. QED BY <1>2, <2>1, <2>2, <2>3, <2>4 DEF Keeping
<1>13. ASSUME NEW t \in Sid PROVE Balanced(t)'
  <2>1. Owed(t)' = Owed(t) /\ Unspent(t)' = Unspent(t)
    BY <1>2, SameOwed
  <2>2. CASE t = sid[r] /\ t \notin dropped
    <3>1. table[t] = None /\ \A q \in Request : sid[q] = t => stage[q] = "create"
      BY <1>3, <1>5, <2>2 DEF Keeping
    <3>2. Owed(t) = {} /\ Unspent(t) = {}
      BY <1>3, <3>1 DEF Owed, Unspent, Progress
    <3>3. S!CostOf(table'[t]) = 0 /\ totals'[sessions'[t]].cost = 0
      BY <1>2, <1>5, <1>6, <1>9, <1>10, <2>2, <3>1 DEF S!CostOf
    <3>4. QED BY <2>1, <3>2, <3>3, FS_EmptySet DEF Balanced
  <2>3. CASE t # sid[r] \/ t \in dropped
    <3>1. ASSUME sessions'[t] # None, t \notin dropped'
          PROVE  sessions[t] # None /\ t \notin dropped /\ totals'[sessions'[t]].cost = totals[sessions[t]].cost
      <4>1. t # sid[r] /\ t \notin dropped /\ t \notin out
        BY <1>1, <2>3, <3>1
      <4>2. sessions'[t] = sessions[t] /\ sessions[t] \in S!Object
        BY <1>3, <1>6, <3>1, <4>1 DEF SessionsTyped
      <4>3. sessions[t] # r
        BY <1>3, <1>5, <3>1, <4>1, <4>2 DEF Keeping, Own
      <4>4. QED BY <1>9, <1>10, <3>1, <4>1, <4>2, <4>3
    <3>2. QED BY <1>2, <2>1, <3>1, BalanceStays DEF Books
  <2>4. QED BY <2>2, <2>3
<1>14. QED BY <1>2, <1>3, <1>11, <1>12, <1>13, SlotsStay DEF Books, Collected

\* The steps of the loop detector, as far as the books go.
LEMMA PassBooks ==
  ASSUME S!SessionsConstants, Books, NEW r \in Request, S!Add(r) \/ S!SkipLoop(r) \/ S!Compare(r)
  PROVE  Books'
<1>1. PICK x \in {"compare", "answer"} : stage' = [stage EXCEPT ![r] = x]
  BY DEF S!Add, S!SkipLoop, S!Compare
<1>2. /\ stage[r] \in {"prompt", "compare"}
      /\ UNCHANGED <<now, sid, held, outcome, fate, stale, table, sessions, totals, dropped>>
  BY DEF S!Add, S!SkipLoop, S!Compare, S!tracker, S!request
<1>3. SessionsTyped /\ Progress /\ Keeping /\ Slots /\ Collected
  BY DEF Books
<1>4. \A q \in Request : stage'[q] = IF q = r THEN x ELSE stage[q]
  BY <1>1, <1>3 DEF SessionsTyped
<1>5. SessionsTyped' /\ Progress'
  BY <1>1, <1>2, <1>3, <1>4 DEF SessionsTyped, Progress, Stages
<1>6. Keeping'
  BY <1>2, <1>3, <1>4 DEF Keeping
<1>7. ASSUME NEW t \in Sid PROVE Balanced(t)'
  <2>1. Owed(t)' = Owed(t) /\ Unspent(t)' = Unspent(t)
    BY <1>2, SameOwed
  <2>2. QED BY <1>2, <2>1, BalanceStays DEF Books
<1>8. QED BY <1>2, <1>3, <1>5, <1>6, <1>7, SlotsStay DEF Books, Collected

LEMMA AnswerBooks == ASSUME S!SessionsConstants, Books, NEW r \in Request, S!Answer(r) PROVE Books'
<1>1. PICK o \in {"charged", "unspent", "free"} :
        /\ outcome' = [outcome EXCEPT ![r] = o]
        /\ totals' = IF o = "charged" THEN [totals EXCEPT ![held[r]] = [cost |-> @.cost + 1, seen |-> now]]
                     ELSE totals
  BY DEF S!Answer, S!Charged
<1>2. /\ stage[r] = "answer" /\ stage' = [stage EXCEPT ![r] = "record"]
      /\ UNCHANGED <<now, sid, held, fate, stale, table, sessions, dropped>>
  BY DEF S!Answer
<1>3. SessionsTyped /\ Progress /\ Keeping /\ Slots /\ Collected
  BY DEF Books
<1>4. /\ held[r] \in S!Object /\ held[r] # None /\ sid[r] \in Sid /\ Own(held[r], sid[r], sid)
      /\ (sid[r] \notin dropped => sessions[sid[r]] = held[r])
      /\ outcome[r] = "none" /\ fate[r] = "none" /\ now \in Nat /\ Request \cap Sid = {}
  BY <1>2, <1>3, NoName DEF SessionsTyped, Progress, Keeping
<1>5. /\ \A q \in Request : stage'[q] = IF q = r THEN "record" ELSE stage[q]
      /\ \A q \in Request : outcome'[q] = IF q = r THEN o ELSE outcome[q]
  BY <1>1, <1>2, <1>3 DEF SessionsTyped
<1>6. /\ totals' \in [S!Object -> Charge]
      /\ \A x \in S!Object : x # held[r] \/ o # "charged" => totals'[x] = totals[x]
      /\ o = "charged" => totals'[held[r]].cost = totals[held[r]].cost + 1
  <2>1. CASE o = "charged"
    <3>1. PICK v : v = [cost |-> totals[held[r]].cost + 1, seen |-> now]
      OBVIOUS
    <3>2. v \in Charge /\ v.cost = totals[held[r]].cost + 1
      BY <1>3, <1>4, <3>1 DEF SessionsTyped, Charge
    <3>3. totals' = [totals EXCEPT ![held[r]] = v]
      BY <1>1, <2>1, <3>1
    <3>4. QED BY <1>3, <1>4, <2>1, <3>2, <3>3 DEF SessionsTyped
  <2>2. CASE o # "charged"
    BY <1>1, <1>3, <2>2 DEF SessionsTyped
  <2>3. QED BY <2>1, <2>2
<1>7. SessionsTyped' /\ Progress'
  BY <1>1, <1>2, <1>3, <1>4, <1>5, <1>6 DEF SessionsTyped, Progress, Stages
<1>8. Keeping'
  BY <1>2, <1>3, <1>5 DEF Keeping
<1>9. ASSUME NEW t \in Sid PROVE Balanced(t)'
  <2>1. Balanced(t) /\ Unspent(t)' = Unspent(t) /\ r \notin Owed(t)
    BY <1>2, <1>4, <1>5 DEF Books, Unspent, Owed
  <2>2. CASE t = sid[r] /\ o = "charged"
    <3>1. Owed(t)' = Owed(t) \cup {r}
      BY <1>2, <1>4, <1>5, <2>2 DEF Owed
    <3>2. IsFiniteSet(Owed(t)') /\ Cardinality(Owed(t)') = Cardinality(Owed(t)) + 1
      BY <2>1, <3>1, FS_AddElement DEF Balanced
    <3>3. sessions[t] # None /\ t \notin dropped => totals'[sessions[t]].cost = totals[sessions[t]].cost + 1
      BY <1>4, <1>6, <2>2
    <3>4. sessions[t] # None => totals[sessions[t]].cost \in Nat
      BY <1>3 DEF SessionsTyped, Charge
    <3>5. Cardinality(Owed(t)) \in Nat /\ Cardinality(Unspent(t)) \in Nat
      BY <2>1, FS_CardinalityType DEF Balanced
    <3>6. S!CostOf(table[t]) \in Nat
      BY <1>3 DEF SessionsTyped, S!CostOf
    <3>7. QED BY <1>2, <2>1, <3>2, <3>3, <3>4, <3>5, <3>6 DEF Balanced
  <2>3. CASE t # sid[r] \/ o # "charged"
    <3>1. Owed(t)' = Owed(t)
      BY <1>2, <1>4, <1>5, <2>3 DEF Owed
    <3>2. sessions[t] # None => totals'[sessions[t]].cost = totals[sessions[t]].cost
      <4>1. sessions[t] # None => Own(sessions[t], t, sid) /\ sessions[t] \in S!Object
        BY <1>3 DEF Keeping, SessionsTyped
      <4>2. sessions[t] # None /\ t # sid[r] => sessions[t] # held[r]
        BY <1>4, <4>1 DEF Own
      <4>3. QED BY <1>6, <2>3, <4>1, <4>2
    <3>3. QED BY <1>2, <2>1, <3>1, <3>2, BalanceStays
  <2>4. QED BY <2>2, <2>3
<1>10. QED BY <1>2, <1>3, <1>7, <1>8, <1>9, SlotsStay DEF Books, Collected

\* What a request leaves when it lets go of its session.
LEMMA ReleaseBooks ==
  ASSUME S!SessionsConstants, SessionsTyped, Keeping, NEW r \in Request, S!Release(r), sessions' = sessions
  PROVE  /\ held' \in [Request -> S!Object \cup {None}] /\ totals' \in [S!Object -> Charge]
         /\ \A q \in Request : held'[q] = IF q = r THEN None ELSE held[q]
         /\ \A s \in Sid : sessions[s] # None => totals'[sessions[s]] = totals[sessions[s]]
<1>1. held' = [held EXCEPT ![r] = None] /\ totals' = S!Retained(totals, sessions, held')
  BY DEF S!Release
<1>2. PICK ss, hs, t, h : ss = sessions /\ hs = held' /\ t = totals' /\ h = totals /\ t = S!Retained(h, ss, hs)
  BY <1>1
<1>3. h \in [S!Object -> Charge]
  BY <1>2 DEF SessionsTyped
<1>4. t \in [S!Object -> Charge] /\ \A s \in DOMAIN ss : ss[s] \in S!Object => t[ss[s]] = h[ss[s]]
  BY <1>2, <1>3, RetainedObjects
<1>5. QED BY <1>1, <1>2, <1>4 DEF SessionsTyped

LEMMA RecordBooks == ASSUME S!SessionsConstants, Books, NEW r \in Request, S!Record(r) PROVE Books'
<1>1. /\ stage[r] = "record" /\ UNCHANGED <<now, sid, outcome, stale, table, sessions, dropped>>
      /\ \/ /\ S!Cardinality(S!Background) < PersistSlots /\ S!Release(r)
            /\ fate' = [fate EXCEPT ![r] = "background"] /\ stage' = [stage EXCEPT ![r] = "done"]
         \/ stage' = [stage EXCEPT ![r] = "write"] /\ UNCHANGED <<fate, held, totals>>
  BY DEF S!Record, S!request
<1>2. SessionsTyped /\ Progress /\ Keeping /\ Slots /\ Collected
  BY DEF Books
<1>3. fate[r] = "none" /\ outcome[r] # "none" /\ sid[r] # None
  BY <1>1, <1>2 DEF Progress
<1>4. CASE S!Cardinality(S!Background) < PersistSlots /\ S!Release(r)
           /\ fate' = [fate EXCEPT ![r] = "background"] /\ stage' = [stage EXCEPT ![r] = "done"]
  <2>1. /\ held' \in [Request -> S!Object \cup {None}] /\ totals' \in [S!Object -> Charge]
        /\ \A q \in Request : held'[q] = IF q = r THEN None ELSE held[q]
        /\ \A s \in Sid : sessions[s] # None => totals'[sessions[s]] = totals[sessions[s]]
    BY <1>1, <1>2, <1>4, ReleaseBooks
  <2>2. /\ \A q \in Request : stage'[q] = IF q = r THEN "done" ELSE stage[q]
        /\ \A q \in Request : fate'[q] = IF q = r THEN "background" ELSE fate[q]
    BY <1>2, <1>4 DEF SessionsTyped
  <2>3. SessionsTyped' /\ Progress'
    BY <1>1, <1>2, <1>3, <1>4, <2>1, <2>2 DEF SessionsTyped, Progress, Stages
  <2>4. Keeping'
    BY <1>1, <1>2, <2>1, <2>2 DEF Keeping
  <2>5. ASSUME NEW t \in Sid PROVE Balanced(t)'
    <3>1. Owed(t)' = Owed(t) /\ Unspent(t)' = Unspent(t)
      BY <1>1, <1>3, <2>2, SameOwed
    <3>2. QED BY <1>1, <2>1, <3>1, BalanceStays DEF Books
  <2>6. Slots'
    <3>1. S!Background' = S!Background \cup {r} /\ r \notin S!Background
      BY <1>3, <2>2 DEF S!Background
    <3>2. IsFiniteSet(S!Background') /\ Cardinality(S!Background') = Cardinality(S!Background) + 1
      BY <1>2, <3>1, FS_AddElement DEF Slots
    <3>3. Cardinality(S!Background) < PersistSlots /\ Cardinality(S!Background) \in Nat /\ PersistSlots \in Nat
      BY <1>2, <1>4, SameCount, FS_CardinalityType DEF Slots, S!SessionsConstants
    <3>4. QED BY <3>2, <3>3 DEF Slots
  <2>7. QED BY <1>1, <1>2, <2>3, <2>4, <2>5, <2>6 DEF Books, Collected
<1>5. CASE stage' = [stage EXCEPT ![r] = "write"] /\ UNCHANGED <<fate, held, totals>>
  <2>1. \A q \in Request : stage'[q] = IF q = r THEN "write" ELSE stage[q]
    BY <1>2, <1>5 DEF SessionsTyped
  <2>2. SessionsTyped' /\ Progress'
    BY <1>1, <1>2, <1>3, <1>5, <2>1 DEF SessionsTyped, Progress, Stages
  <2>3. Keeping'
    BY <1>1, <1>2, <1>5, <2>1 DEF Keeping
  <2>4. ASSUME NEW t \in Sid PROVE Balanced(t)'
    <3>1. Owed(t)' = Owed(t) /\ Unspent(t)' = Unspent(t)
      BY <1>1, <1>5, SameOwed
    <3>2. QED BY <1>1, <1>5, <3>1, BalanceStays DEF Books
  <2>5. QED BY <1>1, <1>2, <1>5, <2>2, <2>3, <2>4, SlotsStay DEF Books, Collected
<1>6. QED BY <1>1, <1>4, <1>5

LEMMA InsertBooks == ASSUME S!SessionsConstants, Books, NEW r \in Request, S!Insert(r) PROVE Books'
<1>1. PICK f \in {"recorded", "failed"} :
        /\ fate' = [fate EXCEPT ![r] = f]
        /\ table' = IF f = "recorded"
                    THEN [table EXCEPT ![sid[r]] = S!CostOf(@) + (IF outcome[r] = "free" THEN 0 ELSE 1)]
                    ELSE table
  BY DEF S!Insert
<1>2. /\ stage[r] = "write" \/ fate[r] = "background"
      /\ stage' = [stage EXCEPT ![r] = IF @ = "write" THEN "done" ELSE @]
      /\ S!Release(r) /\ UNCHANGED <<now, sid, outcome, stale, sessions, dropped>>
  BY DEF S!Insert, S!request
<1>3. SessionsTyped /\ Progress /\ Keeping /\ Slots /\ Collected
  BY DEF Books
<1>4. /\ stage[r] \in {"write", "done"} /\ fate[r] # "recorded" /\ sid[r] \in Sid
      /\ outcome[r] \in {"charged", "unspent", "free"}
  BY <1>2, <1>3 DEF SessionsTyped, Progress
<1>5. /\ held' \in [Request -> S!Object \cup {None}] /\ totals' \in [S!Object -> Charge]
      /\ \A q \in Request : held'[q] = IF q = r THEN None ELSE held[q]
      /\ \A s \in Sid : sessions[s] # None => totals'[sessions[s]] = totals[sessions[s]]
  BY <1>2, <1>3, ReleaseBooks
<1>6. /\ \A q \in Request : stage'[q] = IF q = r THEN "done" ELSE stage[q]
      /\ \A q \in Request : fate'[q] = IF q = r THEN f ELSE fate[q]
  BY <1>1, <1>2, <1>3, <1>4 DEF SessionsTyped
<1>7. PICK c : c = S!CostOf(table[sid[r]]) + (IF outcome[r] = "free" THEN 0 ELSE 1)
  OBVIOUS
<1>8. \A s \in Sid : S!CostOf(table[s]) \in Nat
  BY <1>3 DEF SessionsTyped, S!CostOf
<1>9. c \in Nat
  BY <1>4, <1>7, <1>8
<1>10. /\ table' \in [Sid -> Nat \cup {None}]
       /\ \A s \in Sid : s # sid[r] \/ f = "failed" => table'[s] = table[s]
       /\ f = "recorded" => table'[sid[r]] = c
  <2>1. CASE f = "recorded"
    <3>1. table' = [table EXCEPT ![sid[r]] = c]
      BY <1>1, <1>7, <2>1
    <3>2. QED BY <1>3, <1>4, <1>9, <2>1, <3>1 DEF SessionsTyped
  <2>2. CASE f = "failed"
    BY <1>1, <1>3, <2>2 DEF SessionsTyped
  <2>3. QED BY <2>1, <2>2
<1>11. SessionsTyped' /\ Progress'
  BY <1>1, <1>2, <1>3, <1>4, <1>5, <1>6, <1>10 DEF SessionsTyped, Progress, Stages
<1>12. Keeping'
  <2>1. \A q \in Request : held'[q] # None => sid[q] \in Sid /\ Own(held'[q], sid[q], sid)
    BY <1>3, <1>5 DEF Keeping
  <2>2. \A q \in Request : stage'[q] \in {"touch", "prompt", "compare", "answer", "record", "write"} =>
          held'[q] # None /\ (sid[q] \notin dropped => sessions[sid[q]] = held'[q])
    BY <1>3, <1>5, <1>6 DEF Keeping
  <2>3. \A t \in Sid \ dropped : sessions[t] = None =>
          table'[t] = None /\ \A q \in Request : sid[q] = t => stage'[q] = "create"
    BY <1>3, <1>4, <1>6, <1>10 DEF Keeping
  <2>4. QED BY <1>2, <1>3, <2>1, <2>2, <2>3 DEF Keeping
<1>13. ASSUME NEW t \in Sid PROVE Balanced(t)'
  <2>1. Balanced(t)
    BY DEF Books
  <2>2. CASE t = sid[r] /\ f = "recorded"
    <3>1. S!CostOf(table'[t]) = S!CostOf(table[t]) + (IF outcome[r] = "free" THEN 0 ELSE 1)
      <4>1. c # None
        BY <1>9 DEF S!SessionsConstants
      <4>2. QED BY <1>7, <1>10, <2>2, <4>1 DEF S!CostOf
    <3>2. /\ S!CostOf(table[t]) \in Nat /\ Cardinality(Owed(t)) \in Nat /\ Cardinality(Unspent(t)) \in Nat
          /\ sessions[t] # None => totals[sessions[t]].cost \in Nat /\ totals'[sessions[t]] = totals[sessions[t]]
      BY <1>3, <1>5, <1>8, <2>1, FS_CardinalityType DEF SessionsTyped, Charge, Balanced
    <3>3. CASE outcome[r] = "charged"
      <4>1. r \in Owed(t) /\ Owed(t)' = Owed(t) \ {r} /\ Unspent(t)' = Unspent(t)
        BY <1>2, <1>4, <1>6, <2>2, <3>3 DEF Owed, Unspent
      <4>2. IsFiniteSet(Owed(t)') /\ Cardinality(Owed(t)') = Cardinality(Owed(t)) - 1
        BY <2>1, <4>1, FS_RemoveElement DEF Balanced
      <4>3. QED BY <1>2, <2>1, <3>1, <3>2, <3>3, <4>1, <4>2 DEF Balanced
    <3>4. CASE outcome[r] = "unspent"
      <4>1. r \notin Unspent(t) /\ Unspent(t)' = Unspent(t) \cup {r} /\ Owed(t)' = Owed(t)
        BY <1>2, <1>4, <1>6, <2>2, <3>4 DEF Owed, Unspent
      <4>2. IsFiniteSet(Unspent(t)') /\ Cardinality(Unspent(t)') = Cardinality(Unspent(t)) + 1
        BY <2>1, <4>1, FS_AddElement DEF Balanced
      <4>3. QED BY <1>2, <2>1, <3>1, <3>2, <3>4, <4>1, <4>2 DEF Balanced
    <3>5. CASE outcome[r] = "free"
      <4>1. Unspent(t)' = Unspent(t) /\ Owed(t)' = Owed(t)
        BY <1>2, <1>6, <3>5 DEF Owed, Unspent
      <4>2. QED BY <1>2, <2>1, <3>1, <3>2, <3>5, <4>1 DEF Balanced
    <3>6. QED BY <1>4, <3>3, <3>4, <3>5
  <2>3. CASE t # sid[r] \/ f = "failed"
    <3>1. Unspent(t)' = Unspent(t) /\ Owed(t)' = Owed(t)
      BY <1>2, <1>4, <1>6, <2>3 DEF Owed, Unspent
    <3>2. table'[t] = table[t]
      BY <1>10, <2>3
    <3>3. QED BY <1>2, <1>5, <2>1, <3>1, <3>2, BalanceStays
  <2>4. QED BY <2>2, <2>3
<1>14. Slots'
  BY <1>3, <1>6, SlotsStay
<1>15. QED BY <1>2, <1>3, <1>11, <1>12, <1>13, <1>14 DEF Books, Collected

LEMMA SweepBooks == ASSUME S!SessionsConstants, Books, S!SweepDelete PROVE Books'
<1>1. PICK out : out = S!Swept
  OBVIOUS
<1>2. /\ sessions' = [s \in Sid |-> IF s \in out THEN None ELSE sessions[s]]
      /\ dropped' = dropped \cup out /\ stale' = None
      /\ totals' = S!Retained(totals, sessions', held)
      /\ UNCHANGED <<now, stage, sid, held, outcome, fate, table>>
  BY <1>1 DEF S!SweepDelete, S!request
<1>3. SessionsTyped /\ Progress /\ Keeping /\ Slots
  BY DEF Books
<1>4. /\ sessions' \in [Sid -> S!Object \cup {None}]
      /\ \A s \in Sid : sessions'[s] = IF s \in out THEN None ELSE sessions[s]
  BY <1>2, <1>3 DEF SessionsTyped
<1>5. totals' \in [S!Object -> Charge] /\ \A s \in Sid : sessions'[s] # None => totals'[sessions'[s]] = totals[sessions'[s]]
  <2>1. PICK ss, hs, t, h : ss = sessions' /\ hs = held /\ t = totals' /\ h = totals /\ t = S!Retained(h, ss, hs)
    BY <1>2
  <2>2. h \in [S!Object -> Charge]
    BY <1>3, <2>1 DEF SessionsTyped
  <2>3. t \in [S!Object -> Charge] /\ \A s \in DOMAIN ss : ss[s] \in S!Object => t[ss[s]] = h[ss[s]]
    BY <2>1, <2>2, RetainedObjects
  <2>4. QED BY <1>4, <2>1, <2>3
<1>6. SessionsTyped' /\ Progress'
  BY <1>2, <1>3, <1>4, <1>5 DEF SessionsTyped, Progress
<1>7. Keeping'
  <2>1. \A s \in Sid : sessions'[s] # None => Own(sessions'[s], s, sid)
    BY <1>3, <1>4 DEF Keeping
  <2>2. \A r \in Request : stage[r] \in {"touch", "prompt", "compare", "answer", "record", "write"} =>
          held[r] # None /\ (sid[r] \notin dropped' => sessions'[sid[r]] = held[r])
    BY <1>2, <1>3, <1>4 DEF Keeping
  <2>3. \A s \in Sid \ dropped' : sessions'[s] = None =>
          table[s] = None /\ \A r \in Request : sid[r] = s => stage[r] = "create"
    BY <1>2, <1>3, <1>4 DEF Keeping
  <2>4. QED BY <1>2, <1>3, <2>1, <2>2, <2>3 DEF Keeping
<1>8. ASSUME NEW t \in Sid PROVE Balanced(t)'
  <2>1. Owed(t)' = Owed(t) /\ Unspent(t)' = Unspent(t)
    BY <1>2, SameOwed
  <2>2. QED BY <1>2, <1>4, <1>5, <2>1, BalanceStays DEF Books
<1>9. QED BY <1>2, <1>3, <1>6, <1>7, <1>8, SlotsStay DEF Books, Collected

LEMMA RestartBooks == ASSUME S!SessionsConstants, Books, S!Restart PROVE Books'
<1>1. PICK back \in {S!Rows, {}} :
        /\ sessions' = [s \in Sid |-> IF s \in back THEN s ELSE None]
        /\ totals' = [o \in S!Object |-> IF o \in back THEN [cost |-> table[o], seen |-> now] ELSE S!Unused]
        /\ dropped' = S!Rows \ back
  BY DEF S!Restart
<1>2. /\ stage' = [r \in Request |-> "idle"] /\ held' = [r \in Request |-> None] /\ sid' = [r \in Request |-> None]
      /\ outcome' = [r \in Request |-> "none"] /\ fate' = [r \in Request |-> "none"]
      /\ stale' = None /\ UNCHANGED <<now, table>>
  BY DEF S!Restart
<1>3. SessionsTyped /\ None \notin Sid /\ None \notin S!Object /\ Request \cap Sid = {}
  BY NoName DEF Books
<1>4. back \subseteq S!Rows /\ S!Rows = {s \in Sid : table[s] # None} /\ Sid \subseteq S!Object
  BY <1>1 DEF S!Rows, S!Object
<1>5. totals' \in [S!Object -> Charge] /\ \A s \in back : totals'[s].cost = table[s]
  <2>1. ASSUME NEW o \in back PROVE [cost |-> table[o], seen |-> now] \in Charge
    BY <1>3, <1>4 DEF SessionsTyped, Charge
  <2>2. S!Unused \in Charge
    BY DEF S!Unused, Charge
  <2>3. QED BY <1>1, <1>4, <2>1, <2>2
<1>6. \A s \in Sid : sessions'[s] = IF s \in back THEN s ELSE None
  BY <1>1
<1>7. SessionsTyped' /\ Progress'
  BY <1>1, <1>2, <1>3, <1>4, <1>5 DEF SessionsTyped, Progress, Stages
<1>8. Keeping'
  BY <1>1, <1>2, <1>3, <1>4, <1>6 DEF Keeping, Own
<1>9. ASSUME NEW t \in Sid PROVE Balanced(t)'
  <2>1. Owed(t)' = {} /\ Unspent(t)' = {}
    BY <1>2, <1>3 DEF Owed, Unspent
  <2>2. sessions'[t] # None => totals'[sessions'[t]].cost = S!CostOf(table[t])
    BY <1>3, <1>4, <1>5, <1>6 DEF S!CostOf
  <2>3. \A s \in Sid : S!CostOf(table[s]) \in Nat
    BY <1>3 DEF SessionsTyped, S!CostOf
  <2>4. QED BY <1>2, <2>1, <2>2, <2>3, FS_EmptySet DEF Balanced
<1>10. Slots'
  BY <1>2, SlotsStay DEF Books
<1>11. QED BY <1>2, <1>7, <1>8, <1>9, <1>10 DEF Books, Collected

\* The clock, the first half of a sweep and the detector's cleanup.
LEMMA QuietBooks ==
  ASSUME S!SessionsConstants, Books, S!Cleanup \/ S!SweepCollect \/ S!Tick \/ UNCHANGED S!vars
  PROVE  Books'
<1>1. UNCHANGED <<stage, sid, held, outcome, fate, table, sessions, totals, dropped>>
  BY DEF S!Cleanup, S!SweepCollect, S!Tick, S!vars, S!request, S!tracker
<1>2. SessionsTyped /\ Progress /\ Keeping /\ Slots /\ Collected /\ MaxAge \in Nat
  BY DEF Books, S!SessionsConstants
<1>3. now' \in Nat /\ Collected'
  <2>1. CASE S!SweepCollect
    <3>1. stale' = [cutoff |-> now - MaxAge, ids |-> S!Older(now - MaxAge)] /\ now' = now
      BY <2>1 DEF S!SweepCollect
    <3>2. QED BY <1>2, <3>1 DEF Collected, SessionsTyped
  <2>2. CASE S!Tick
    BY <1>2, <2>2 DEF S!Tick, Collected, SessionsTyped
  <2>3. CASE S!Cleanup \/ UNCHANGED S!vars
    BY <1>2, <2>3 DEF S!Cleanup, S!vars, Collected, SessionsTyped
  <2>4. QED BY <2>1, <2>2, <2>3
<1>4. SessionsTyped' /\ Progress' /\ Keeping'
  BY <1>1, <1>2, <1>3 DEF SessionsTyped, Progress, Keeping
<1>5. ASSUME NEW t \in Sid PROVE Balanced(t)'
  <2>1. Owed(t)' = Owed(t) /\ Unspent(t)' = Unspent(t)
    BY <1>1, SameOwed
  <2>2. QED BY <1>1, <2>1, BalanceStays DEF Books
<1>6. QED BY <1>1, <1>2, <1>3, <1>4, <1>5, SlotsStay DEF Books

LEMMA BooksHold == S!Spec => []Books
<1> USE SessionsAssumption
<1>1. S!Init => Books
  BY BooksStart
<1>2. Books /\ [S!Next]_S!vars => Books'
  <2>1. SUFFICES ASSUME Books, [S!Next]_S!vars PROVE Books'
    OBVIOUS
  <2>2. ASSUME NEW r \in Request, S!Handler(r) PROVE Books'
    BY <2>1, <2>2, ArriveBooks, TouchBooks, FoundBooks, CreateBooks, PassBooks, AnswerBooks, RecordBooks,
       InsertBooks DEF S!Handler
  <2>3. QED BY <2>1, <2>2, SweepBooks, RestartBooks, QuietBooks DEF S!Next
<1>3. QED BY <1>1, <1>2, PTL DEF S!Spec

(* The totals of a session in memory and its row differ by exactly what was *)
(* charged and is not recorded, and what was recorded without having been   *)
(* charged, for any number of requests and sessions in any order            *)
(* (tracker/session.go: AddCost, RestoreSession; db.go: InsertRequest).     *)
THEOREM TotalsMatchRows == Spec => []SpendMatchesTable
<1> USE SessionsAssumption
<1>1. ASSUME Books PROVE S!SpendMatchesTable
  <2>1. SUFFICES ASSUME NEW s \in S!Live \ dropped
                 PROVE  S!CostOf(table[s])
                          + S!Cardinality({r \in S!Here(s) : outcome[r] = "charged" /\ fate[r] # "recorded"})
                        = totals[sessions[s]].cost
                          + S!Cardinality({r \in S!Here(s) : outcome[r] = "unspent" /\ fate[r] = "recorded"})
    BY DEF S!SpendMatchesTable
  <2>2. /\ {r \in S!Here(s) : outcome[r] = "charged" /\ fate[r] # "recorded"} = Owed(s)
        /\ {r \in S!Here(s) : outcome[r] = "unspent" /\ fate[r] = "recorded"} = Unspent(s)
    BY DEF S!Here, Owed, Unspent
  <2>3. s \in Sid /\ sessions[s] # None /\ s \notin dropped /\ Balanced(s)
    BY <1>1, <2>1 DEF S!Live, Books
  <2>4. QED BY <2>2, <2>3, SameCount DEF Balanced
<1>2. QED BY BooksHold, <1>1, EachOfThree, PTL DEF SpendMatchesTable

(* The sweep removes only sessions that have been idle for maxAge when it   *)
(* removes them (tracker/session.go: evictStale looks a second time).       *)
THEOREM SweepSparesTheActive == Spec => SweptWereIdle
<1> USE SessionsAssumption
<1>1. ASSUME Books, S!SweepDelete, NEW s \in S!Live, sessions'[s] = None
      PROVE  totals[sessions[s]].seen < now - MaxAge
  <2>1. s \in Sid /\ sessions[s] # None /\ stale # None
    BY <1>1 DEF S!Live, S!SweepDelete
  <2>2. s \in S!Older(stale.cutoff)
    BY <1>1, <2>1 DEF S!SweepDelete, S!Swept
  <2>3. totals[sessions[s]].seen < stale.cutoff /\ totals[sessions[s]].seen \in Nat
    BY <1>1, <2>1, <2>2 DEF S!Older, Books, SessionsTyped, Charge
  <2>4. stale.cutoff \in Int /\ stale.cutoff <= now - MaxAge /\ now \in Nat /\ MaxAge \in Nat
    BY <1>1, <2>1 DEF Books, Collected, SessionsTyped, S!SessionsConstants
  <2>5. QED BY <2>3, <2>4
<1>2. Books => [S!SweepDelete => \A s \in S!Live : sessions'[s] = None =>
                   totals[sessions[s]].seen < now - MaxAge]_S!vars
  BY <1>1
<1>3. QED BY BooksHold, <1>2, EachOfThree, PTL DEF SweptWereIdle, S!SweptWereIdle

(* A stop that waited for the handlers loses at most the records of the     *)
(* background slots (handler.go: persistAndBroadcast).                      *)
THEOREM StopLosesNoMore == Spec => StopLosesFew
<1> USE SessionsAssumption
<1>1. Books => [restarts' # restarts /\ (\A r \in Request : ~S!Running(r))
                  => S!Cardinality(S!Background) <= PersistSlots]_S!vars
  BY SameCount DEF Books, Slots
<1>2. QED BY BooksHold, <1>1, EachOfThree, PTL DEF StopLosesFew, S!StopLosesFew

-----------------------------------------------------------------------------
(* Sessions: the prompts the loop detector counts *)

Prompt == [by : Request, at : Nat]

\* Prompts of one session, in the order of their times, none of a request twice.
Ordered(ps) ==
  \A i, j \in DOMAIN ps : i < j => ps[i].at <= ps[j].at /\ ps[i].by # ps[j].by

LEMMA LeastNumber ==
  ASSUME NEW T, T \subseteq Nat, T # {}
  PROVE  \E m \in T : \A k \in T : m <= k
<1>1. PICK m \in T : \A k \in T : <<k, m>> \notin OpToRel(<, Nat)
  BY WFMin, NatLessThanWellFounded, Zenon
<1>2. \A k \in T : ~(k < m)
  BY <1>1, Zenon DEF OpToRel
<1>3. QED BY <1>2

\* The first prompt a trim keeps.
LEMMA TrimStart ==
  ASSUME S!SessionsConstants, NEW ps \in Seq(Prompt), NEW t \in Nat, Ordered(ps)
  PROVE  \E m \in 1 .. Len(ps) + 1 :
           /\ S!Trim(ps, t) = SubSeq(ps, m, Len(ps))
           /\ \A i \in DOMAIN ps : ps[i].at >= t - LoopWindow <=> i >= m
<1> DEFINE T == {i \in 1 .. Len(ps) + 1 : i \in DOMAIN ps => ~S!Expired(ps[i], t)}
<1>1. Len(ps) \in Nat /\ DOMAIN ps = 1 .. Len(ps) /\ LoopWindow \in Nat
  BY DEF S!SessionsConstants
<1>2. \A i \in DOMAIN ps : ps[i].at \in Nat
  <2>1. \A i \in DOMAIN ps : ps[i] \in Prompt
    BY <1>1
  <2>2. QED BY <2>1 DEF Prompt
<1>3. T \in SUBSET Nat /\ Len(ps) + 1 \in T
  BY <1>1
<1>4. \E m \in T : \A k \in T : m <= k
  BY <1>3, LeastNumber
<1>5. PICK m : m = S!Min(T)
  OBVIOUS
<1>6. m \in T /\ \A k \in T : m <= k
  BY <1>4, <1>5 DEF S!Min
<1>7. S!Trim(ps, t) = SubSeq(ps, m, Len(ps))
  BY <1>5 DEF S!Trim
<1>8. ASSUME NEW i \in DOMAIN ps, i >= m PROVE ps[i].at >= t - LoopWindow
  <2>1. m \in DOMAIN ps /\ ps[m].at >= t - LoopWindow
    BY <1>1, <1>2, <1>6, <1>8 DEF S!Expired
  <2>2. ps[m].at <= ps[i].at
    BY <1>1, <1>2, <1>6, <1>8, <2>1 DEF Ordered
  <2>3. QED BY <1>1, <1>2, <1>8, <2>1, <2>2
<1>9. ASSUME NEW i \in DOMAIN ps, i < m PROVE ~(ps[i].at >= t - LoopWindow)
  <2>1. i \notin T /\ i \in 1 .. Len(ps) + 1
    BY <1>1, <1>3, <1>6, <1>9
  <2>2. QED BY <1>1, <1>2, <1>9, <2>1 DEF S!Expired
<1>10. QED BY <1>1, <1>6, <1>7, <1>8, <1>9

\* What a trim leaves: the prompts of the window, in the same order.
LEMMA TrimKeeps ==
  ASSUME S!SessionsConstants, NEW ps \in Seq(Prompt), NEW t \in Nat, Ordered(ps)
  PROVE  LET qs == S!Trim(ps, t) IN
         /\ qs \in Seq(Prompt) /\ Ordered(qs)
         /\ \A i \in DOMAIN qs : \E j \in DOMAIN ps : qs[i] = ps[j] /\ ps[j].at >= t - LoopWindow
         /\ \A j \in DOMAIN ps : ps[j].at >= t - LoopWindow => \E i \in DOMAIN qs : qs[i] = ps[j]
<1>1. PICK m \in 1 .. Len(ps) + 1 :
        /\ S!Trim(ps, t) = SubSeq(ps, m, Len(ps))
        /\ \A i \in DOMAIN ps : ps[i].at >= t - LoopWindow <=> i >= m
  BY TrimStart
<1>2. PICK n \in Nat : n = Len(ps) /\ DOMAIN ps = 1 .. n
  OBVIOUS
<1>3. PICK qs : qs = S!Trim(ps, t)
  OBVIOUS
<1>4. qs \in Seq(Prompt) /\ Len(qs) = n - m + 1 /\ DOMAIN qs = 1 .. n - m + 1
  BY <1>1, <1>2, <1>3
<1>5. \A i \in DOMAIN qs : i + m - 1 \in DOMAIN ps /\ qs[i] = ps[i + m - 1] /\ i + m - 1 >= m
  BY <1>1, <1>2, <1>3, <1>4
<1>6. Ordered(qs)
  <2>1. ASSUME NEW i \in DOMAIN qs, NEW j \in DOMAIN qs, i < j
        PROVE  qs[i].at <= qs[j].at /\ qs[i].by # qs[j].by
    <3>1. i + m - 1 \in DOMAIN ps /\ j + m - 1 \in DOMAIN ps /\ qs[i] = ps[i + m - 1] /\ qs[j] = ps[j + m - 1]
      BY <1>5, <2>1
    <3>2. i + m - 1 < j + m - 1
      BY <1>4, <2>1
    <3>3. ps[i + m - 1].at <= ps[j + m - 1].at /\ ps[i + m - 1].by # ps[j + m - 1].by
      BY <3>1, <3>2 DEF Ordered
    <3>4. QED BY <3>1, <3>3
  <2>2. QED BY <2>1 DEF Ordered
<1>7. \A i \in DOMAIN qs : \E j \in DOMAIN ps : qs[i] = ps[j] /\ ps[j].at >= t - LoopWindow
  BY <1>1, <1>5
<1>8. ASSUME NEW j \in DOMAIN ps, ps[j].at >= t - LoopWindow PROVE \E i \in DOMAIN qs : qs[i] = ps[j]
  <2>1. j >= m /\ j - m + 1 \in DOMAIN qs
    BY <1>1, <1>2, <1>4, <1>8
  <2>2. qs[j - m + 1] = ps[j]
    BY <1>1, <1>2, <1>5, <2>1
  <2>3. QED BY <2>1, <2>2
<1>9. QED BY <1>3, <1>4, <1>6, <1>7, <1>8

\* What the store has of session s at time t: prompts its requests stored, when
\* they did, and all those of the window unless the session was evicted.
Filed(s, ids, times, ps, t, lost) ==
  /\ ps \in Seq(Prompt) /\ Ordered(ps)
  /\ \A i \in DOMAIN ps : ids[ps[i].by] = s /\ times[ps[i].by] = ps[i].at /\ ps[i].at <= t
  /\ s \notin lost => \A q \in Request : ids[q] = s /\ times[q] # None /\ times[q] >= t - LoopWindow =>
                        \E i \in DOMAIN ps : ps[i].by = q

Early == {"idle", "touch", "create", "prompt"}
Times == [Request -> Nat \cup {None}]

Prompts ==
  /\ added \in Times
  /\ \A r \in Request : stage[r] \in Early => added[r] = None
  /\ \A s \in Sid : Filed(s, sid, added, recent[s], now, forgotten)

LEMMA PromptFields ==
  ASSUME S!SessionsConstants, NEW ps \in Seq(Prompt)
  PROVE  /\ Len(ps) \in Nat /\ DOMAIN ps = 1 .. Len(ps) /\ LoopWindow \in Nat /\ None \notin Nat
         /\ \A i \in DOMAIN ps : ps[i].by \in Request /\ ps[i].at \in Nat
<1>1. DOMAIN ps = 1 .. Len(ps) /\ Len(ps) \in Nat
  OBVIOUS
<1>2. \A i \in DOMAIN ps : ps[i] \in Prompt
  BY <1>1
<1>3. QED BY <1>1, <1>2 DEF Prompt, S!SessionsConstants

LEMMA FiledStays ==
  ASSUME S!SessionsConstants, NEW s \in Sid, NEW ids, NEW new, NEW times \in Times, NEW ps, NEW t \in Nat, NEW u \in Nat,
         NEW lost, NEW more, Filed(s, ids, times, ps, t, lost), t <= u, lost \subseteq more,
         \A q \in Request : new[q] = ids[q] \/ times[q] = None
  PROVE  Filed(s, new, times, ps, u, more)
<1>1. ps \in Seq(Prompt) /\ Ordered(ps)
  BY DEF Filed
<1>2. ASSUME NEW i \in DOMAIN ps PROVE new[ps[i].by] = s /\ times[ps[i].by] = ps[i].at /\ ps[i].at <= u
  <2>1. ps[i].by \in Request /\ ps[i].at \in Nat /\ None \notin Nat
    BY <1>1, <1>2, PromptFields
  <2>2. ids[ps[i].by] = s /\ times[ps[i].by] = ps[i].at /\ ps[i].at <= t
    BY <1>2 DEF Filed
  <2>3. QED BY <2>1, <2>2
<1>3. ASSUME s \notin more, NEW q \in Request, new[q] = s, times[q] # None, times[q] >= u - LoopWindow
      PROVE  \E i \in DOMAIN ps : ps[i].by = q
  <2>1. ids[q] = s /\ s \notin lost /\ times[q] \in Nat /\ LoopWindow \in Nat
    BY <1>1, <1>3, PromptFields DEF Times
  <2>2. times[q] >= t - LoopWindow
    BY <1>3, <2>1
  <2>3. QED BY <1>3, <2>1, <2>2 DEF Filed
<1>4. QED BY <1>1, <1>2, <1>3 DEF Filed

LEMMA FiledTrim ==
  ASSUME S!SessionsConstants, NEW s \in Sid, NEW ids, NEW times \in Times, NEW ps, NEW t \in Nat, NEW lost,
         Filed(s, ids, times, ps, t, lost)
  PROVE  Filed(s, ids, times, S!Trim(ps, t), t, lost)
<1>1. ps \in Seq(Prompt) /\ Ordered(ps)
  BY DEF Filed
<1>2. PICK qs : qs = S!Trim(ps, t)
  OBVIOUS
<1>3. /\ qs \in Seq(Prompt) /\ Ordered(qs)
      /\ \A i \in DOMAIN qs : \E j \in DOMAIN ps : qs[i] = ps[j] /\ ps[j].at >= t - LoopWindow
      /\ \A j \in DOMAIN ps : ps[j].at >= t - LoopWindow => \E i \in DOMAIN qs : qs[i] = ps[j]
  BY <1>1, <1>2, TrimKeeps
<1>4. \A i \in DOMAIN qs : ids[qs[i].by] = s /\ times[qs[i].by] = qs[i].at /\ qs[i].at <= t
  BY <1>3 DEF Filed
<1>5. ASSUME s \notin lost, NEW q \in Request, ids[q] = s, times[q] # None, times[q] >= t - LoopWindow
      PROVE  \E i \in DOMAIN qs : qs[i].by = q
  <2>1. PICK j \in DOMAIN ps : ps[j].by = q
    BY <1>5 DEF Filed
  <2>2. ps[j].at = times[q]
    BY <2>1 DEF Filed
  <2>3. PICK i \in DOMAIN qs : qs[i] = ps[j]
    BY <1>3, <1>5, <2>1, <2>2
  <2>4. QED BY <2>1, <2>3
<1>6. QED BY <1>2, <1>3, <1>4, <1>5 DEF Filed

\* Storing a prompt of the session, and of another one.
LEMMA FiledAppend ==
  ASSUME S!SessionsConstants, NEW s \in Sid, NEW ids, NEW times \in Times, NEW ps, NEW t \in Nat, NEW lost,
         Filed(s, ids, times, ps, t, lost), NEW r \in Request, ids[r] = s, times[r] = None,
         NEW new, new = [times EXCEPT ![r] = t], NEW qs, qs = Append(ps, [by |-> r, at |-> t])
  PROVE  Filed(s, ids, new, qs, t, lost)
<1>1. ps \in Seq(Prompt) /\ Ordered(ps)
  BY DEF Filed
<1>2. PICK p : p = [by |-> r, at |-> t]
  OBVIOUS
<1>3. p \in Prompt /\ p.by = r /\ p.at = t /\ qs = Append(ps, p)
  BY <1>2 DEF Prompt
<1>4. PICK n \in Nat : n = Len(ps)
  OBVIOUS
<1>5. /\ DOMAIN ps = 1 .. n /\ DOMAIN qs = 1 .. n + 1 /\ qs \in Seq(Prompt) /\ qs[n + 1] = p
      /\ \A i \in DOMAIN ps : qs[i] = ps[i]
  BY <1>1, <1>3, <1>4
<1>6. \A i \in DOMAIN ps : /\ ps[i].by \in Request /\ ps[i].by # r /\ ps[i].at \in Nat /\ ps[i].at <= t
                           /\ ids[ps[i].by] = s /\ times[ps[i].by] = ps[i].at
  BY <1>1, PromptFields DEF Filed
<1>7. \A q \in Request : new[q] = IF q = r THEN t ELSE times[q]
  BY DEF Times
<1>8. Ordered(qs)
  <2>1. SUFFICES ASSUME NEW i \in DOMAIN qs, NEW j \in DOMAIN qs, i < j
                 PROVE  qs[i].at <= qs[j].at /\ qs[i].by # qs[j].by
    BY DEF Ordered
  <2>2. i \in DOMAIN ps /\ qs[i] = ps[i]
    BY <1>5, <2>1
  <2>3. CASE j \in DOMAIN ps
    BY <1>1, <1>5, <2>1, <2>2, <2>3 DEF Ordered
  <2>4. CASE j = n + 1
    BY <1>3, <1>5, <1>6, <2>2, <2>4
  <2>5. QED BY <1>4, <1>5, <2>1, <2>3, <2>4
<1>9. ASSUME NEW i \in DOMAIN qs PROVE ids[qs[i].by] = s /\ new[qs[i].by] = qs[i].at /\ qs[i].at <= t
  <2>1. CASE i \in DOMAIN ps
    BY <1>5, <1>6, <1>7, <2>1
  <2>2. CASE i = n + 1
    BY <1>3, <1>5, <1>7, <2>2
  <2>3. QED BY <1>4, <1>5, <1>9, <2>1, <2>2
<1>10. ASSUME s \notin lost, NEW q \in Request, ids[q] = s, new[q] # None, new[q] >= t - LoopWindow
       PROVE  \E i \in DOMAIN qs : qs[i].by = q
  <2>1. CASE q = r
    BY <1>3, <1>4, <1>5, <2>1
  <2>2. CASE q # r
    <3>1. PICK i \in DOMAIN ps : ps[i].by = q
      BY <1>7, <1>10, <2>2 DEF Filed
    <3>2. i \in DOMAIN qs /\ qs[i].by = q
      BY <1>4, <1>5, <3>1
    <3>3. QED BY <3>2
  <2>3. QED BY <2>1, <2>2
<1>11. QED BY <1>5, <1>8, <1>9, <1>10 DEF Filed

LEMMA FiledElsewhere ==
  ASSUME S!SessionsConstants, NEW s \in Sid, NEW ids, NEW times \in Times, NEW ps, NEW t \in Nat, NEW lost,
         Filed(s, ids, times, ps, t, lost), NEW r \in Request, ids[r] # s,
         NEW new, new = [times EXCEPT ![r] = t]
  PROVE  Filed(s, ids, new, ps, t, lost)
<1>1. ps \in Seq(Prompt)
  BY DEF Filed
<1>2. \A q \in Request : q # r => new[q] = times[q]
  BY DEF Times
<1>3. \A i \in DOMAIN ps : ps[i].by \in Request /\ ps[i].by # r
  BY <1>1, PromptFields DEF Filed
<1>4. QED BY <1>2, <1>3 DEF Filed

\* The steps that store, trim and evict nothing.
LEMMA OtherPrompts ==
  ASSUME S!SessionsConstants, Books, Prompts, UNCHANGED <<recent, added, forgotten>>, now' \in Nat, now <= now',
         \A r \in Request : stage'[r] \in Early => stage[r] \in Early,
         \A r \in Request : sid'[r] = sid[r] \/ stage[r] = "idle"
  PROVE  Prompts'
<1>1. now \in Nat /\ added \in Times /\ \A r \in Request : stage[r] = "idle" => added[r] = None
  BY DEF Books, SessionsTyped, Prompts, Early
<1>2. ASSUME NEW s \in Sid PROVE Filed(s, sid', added, recent[s], now', forgotten)
  <2>1. Filed(s, sid, added, recent[s], now, forgotten)
    BY DEF Prompts
  <2>2. \A r \in Request : sid'[r] = sid[r] \/ added[r] = None
    BY <1>1
  <2>3. QED BY <1>1, <2>1, <2>2, FiledStays
<1>3. QED BY <1>1, <1>2 DEF Prompts

LEMMA AddPrompts == ASSUME S!SessionsConstants, Books, Prompts, NEW r \in Request, S!Add(r) PROVE Prompts'
<1>1. PICK out \in S!LoopVictims(sid[r]) :
        /\ recent' = [s \in Sid |-> IF s = sid[r] THEN Append(S!Trim(recent[s], now), [by |-> r, at |-> now])
                                    ELSE IF s \in out THEN <<>> ELSE recent[s]]
        /\ forgotten' = forgotten \cup out
  BY DEF S!Add
<1>2. /\ stage[r] = "prompt" /\ stage' = [stage EXCEPT ![r] = "compare"]
      /\ added' = [added EXCEPT ![r] = now] /\ UNCHANGED <<now, sid>>
  BY DEF S!Add
<1>3. /\ now \in Nat /\ added \in Times /\ added[r] = None
      /\ \A q \in Request : stage'[q] = IF q = r THEN "compare" ELSE stage[q]
  BY <1>2 DEF Books, SessionsTyped, Prompts, Early
<1>4. added' \in Times /\ \A q \in Request : q # r => added'[q] = added[q]
  BY <1>2, <1>3 DEF Times
<1>5. ASSUME NEW s \in Sid PROVE Filed(s, sid, added', recent'[s], now, forgotten')
  <2>1. Filed(s, sid, added, recent[s], now, forgotten)
    BY DEF Prompts
  <2>2. PICK new : new = added' /\ new = [added EXCEPT ![r] = now]
    BY <1>2
  <2>3. CASE s = sid[r]
    <3>1. PICK ps, qs : ps = S!Trim(recent[s], now) /\ qs = Append(ps, [by |-> r, at |-> now])
      OBVIOUS
    <3>2. Filed(s, sid, added, ps, now, forgotten)
      BY <1>3, <2>1, <3>1, FiledTrim
    <3>3. Filed(s, sid, new, qs, now, forgotten)
      BY <1>3, <2>2, <2>3, <3>1, <3>2, FiledAppend
    <3>4. recent'[s] = qs
      BY <1>1, <2>3, <3>1
    <3>5. Filed(s, sid, new, qs, now, forgotten')
      BY <1>1, <3>3 DEF Filed
    <3>6. QED BY <2>2, <3>4, <3>5
  <2>4. CASE s # sid[r] /\ s \notin out
    <3>1. Filed(s, sid, new, recent[s], now, forgotten)
      BY <1>3, <2>1, <2>2, <2>4, FiledElsewhere
    <3>2. recent'[s] = recent[s]
      BY <1>1, <2>4
    <3>3. Filed(s, sid, new, recent[s], now, forgotten')
      BY <1>1, <3>1 DEF Filed
    <3>4. QED BY <2>2, <3>2, <3>3
  <2>5. CASE s # sid[r] /\ s \in out
    <3>1. recent'[s] = <<>> /\ s \in forgotten'
      BY <1>1, <2>5
    <3>2. QED BY <3>1 DEF Filed, Ordered
  <2>6. QED BY <2>3, <2>4, <2>5
<1>6. \A q \in Request : stage'[q] \in Early => added'[q] = None
  BY <1>3, <1>4 DEF Prompts, Early
<1>7. QED BY <1>2, <1>4, <1>5, <1>6 DEF Prompts

LEMMA CleanupPrompts == ASSUME S!SessionsConstants, Books, Prompts, S!Cleanup PROVE Prompts'
<1>1. recent' = [s \in Sid |-> S!Trim(recent[s], now)] /\ UNCHANGED <<now, stage, sid, added, forgotten>>
  BY DEF S!Cleanup, S!request
<1>2. now \in Nat /\ added \in Times
  BY DEF Books, SessionsTyped, Prompts
<1>3. ASSUME NEW s \in Sid PROVE Filed(s, sid, added, recent'[s], now, forgotten)
  <2>1. Filed(s, sid, added, recent[s], now, forgotten)
    BY DEF Prompts
  <2>2. recent'[s] = S!Trim(recent[s], now)
    BY <1>1
  <2>3. QED BY <1>2, <2>1, <2>2, FiledTrim
<1>4. QED BY <1>1, <1>2, <1>3 DEF Prompts

LEMMA RestartPrompts == ASSUME S!SessionsConstants, S!Restart PROVE Prompts'
<1>1. /\ recent' = [s \in Sid |-> <<>>] /\ added' = [r \in Request |-> None] /\ forgotten' = {}
  BY DEF S!Restart
<1>2. added' \in Times /\ \A r \in Request : added'[r] = None
  BY <1>1 DEF Times
<1>3. \A s \in Sid : recent'[s] = <<>>
  BY <1>1
<1>4. \A s \in Sid : Filed(s, sid', added', <<>>, now', forgotten')
  BY <1>2 DEF Filed, Ordered
<1>5. QED BY <1>2, <1>3, <1>4 DEF Prompts

LEMMA LoopsHold == S!Spec => [](Books /\ Prompts)
<1> USE SessionsAssumption
<1>1. ASSUME S!Init PROVE Prompts
  <2>1. /\ \A s \in Sid : recent[s] = <<>>
        /\ added = [r \in Request |-> None]
    BY <1>1 DEF S!Init
  <2>2. added \in Times /\ \A r \in Request : added[r] = None
    BY <2>1 DEF Times
  <2>3. \A s \in Sid : Filed(s, sid, added, <<>>, now, forgotten)
    BY <2>2 DEF Filed, Ordered
  <2>4. QED BY <2>1, <2>2, <2>3 DEF Prompts
<1>2. ASSUME Books, Prompts, [S!Next]_S!vars PROVE Prompts'
  <2>1. now \in Nat /\ stage \in [Request -> Stages] /\ sid \in [Request -> Sid \cup {None}]
    BY <1>2 DEF Books, SessionsTyped
  <2>2. ASSUME NEW r \in Request, S!Arrive(r) PROVE Prompts'
    <3>1. /\ stage[r] = "idle" /\ UNCHANGED <<now, recent, added, forgotten>>
          /\ \A q \in Request : q # r => sid'[q] = sid[q] /\ stage'[q] = stage[q]
      BY <2>1, <2>2 DEF S!Arrive, S!detector
    <3>2. QED BY <1>2, <2>1, <3>1, OtherPrompts DEF Early
  <2>3. ASSUME NEW r \in Request, S!Touch(r) \/ S!Found(r) \/ S!Create(r) PROVE Prompts'
    <3>1. /\ stage[r] \in Early /\ UNCHANGED <<now, sid, recent, added, forgotten>>
          /\ \A q \in Request : q # r => stage'[q] = stage[q]
      BY <2>1, <2>3 DEF S!Touch, S!Found, S!Create, S!detector, S!request, Early
    <3>2. QED BY <1>2, <2>1, <3>1, OtherPrompts
  <2>4. ASSUME NEW r \in Request, S!SkipLoop(r) \/ S!Compare(r) \/ S!Answer(r) \/ S!Record(r) PROVE Prompts'
    <3>1. UNCHANGED <<now, sid, recent, added, forgotten>>
      BY <2>4 DEF S!SkipLoop, S!Compare, S!Answer, S!Record, S!detector, S!request
    <3>2. \A q \in Request : stage'[q] \in Early => stage[q] \in Early
      BY <2>1, <2>4 DEF S!SkipLoop, S!Compare, S!Answer, S!Record, Early
    <3>3. QED BY <1>2, <2>1, <3>1, <3>2, OtherPrompts
  <2>5. ASSUME NEW r \in Request, S!Insert(r) PROVE Prompts'
    <3>1. UNCHANGED <<now, sid, recent, added, forgotten>>
          /\ stage' = [stage EXCEPT ![r] = IF @ = "write" THEN "done" ELSE @]
      BY <2>5 DEF S!Insert, S!detector, S!request
    <3>2. \A q \in Request : stage'[q] \in Early => stage[q] \in Early
      BY <2>1, <3>1 DEF Early
    <3>3. QED BY <1>2, <2>1, <3>1, <3>2, OtherPrompts
  <2>6. CASE S!SweepCollect \/ S!SweepDelete \/ S!Tick \/ UNCHANGED S!vars
    <3>1. UNCHANGED <<sid, stage, recent, added, forgotten>> /\ now' \in Nat /\ now <= now'
      BY <2>1, <2>6 DEF S!SweepCollect, S!SweepDelete, S!Tick, S!vars, S!detector, S!request
    <3>2. QED BY <1>2, <3>1, OtherPrompts
  <2>7. ASSUME NEW r \in Request, S!Handler(r) PROVE Prompts'
    BY <1>2, <2>2, <2>3, <2>4, <2>5, <2>7, AddPrompts DEF S!Handler
  <2>8. QED BY <1>2, <2>6, <2>7, CleanupPrompts, RestartPrompts DEF S!Next
<1>3. S!Init => Prompts
  BY <1>1
<1>4. Books /\ Prompts /\ [S!Next]_S!vars => Prompts'
  BY <1>2
<1>5. QED BY <1>3, <1>4, BooksHold, PTL DEF S!Spec

(* The detector counts exactly the similar prompts of the session stored    *)
(* within the window, for any number of requests, sessions, evictions and   *)
(* cleanups between storing and reading back (request_store.go: Add,        *)
(* GetRecent, cleanup).                                                     *)
THEOREM LoopsAreCountedRight == Spec => []LoopCountExact
<1> USE SessionsAssumption
<1>1. ASSUME Books, Prompts PROVE S!LoopCountExact
  <2>1. SUFFICES ASSUME NEW r \in Request, stage[r] = "compare", sid[r] \notin forgotten
                 PROVE  S!Similar(r) = S!Cardinality({q \in Request :
                          /\ sid[q] = sid[r] /\ topic[q] = topic[r]
                          /\ added[q] # None /\ added[q] >= now - LoopWindow})
    BY DEF S!LoopCountExact
  <2>2. PICK s, qs, I, Q :
          /\ s = sid[r] /\ qs = S!Trim(recent[s], now)
          /\ I = {i \in DOMAIN qs : topic[qs[i].by] = topic[r]}
          /\ Q = {q \in Request : /\ sid[q] = sid[r] /\ topic[q] = topic[r]
                                  /\ added[q] # None /\ added[q] >= now - LoopWindow}
    OBVIOUS
  <2>3. s \in Sid /\ now \in Nat /\ added \in Times /\ s \notin forgotten
    BY <1>1, <2>1, <2>2 DEF Books, SessionsTyped, Progress, Prompts
  <2>4. PICK ps : ps = recent[s]
    OBVIOUS
  <2>5. Filed(s, sid, added, ps, now, forgotten) /\ ps \in Seq(Prompt) /\ Ordered(ps)
    BY <1>1, <2>3, <2>4 DEF Prompts, Filed
  <2>6. Filed(s, sid, added, qs, now, forgotten) /\ qs \in Seq(Prompt) /\ Ordered(qs)
    <3>1. qs = S!Trim(ps, now)
      BY <2>2, <2>4
    <3>2. Filed(s, sid, added, qs, now, forgotten)
      BY <2>3, <2>5, <3>1, FiledTrim
    <3>3. QED BY <3>2 DEF Filed
  <2>7. \A i \in DOMAIN qs : qs[i].at >= now - LoopWindow
    <3>1. \A i \in DOMAIN qs : \E j \in DOMAIN ps : qs[i] = ps[j] /\ ps[j].at >= now - LoopWindow
      <4>1. qs = S!Trim(ps, now) /\ ps \in Seq(Prompt) /\ Ordered(ps) /\ now \in Nat
        BY <2>2, <2>3, <2>4, <2>5
      <4>2. QED BY <4>1, TrimKeeps
    <3>2. QED BY <3>1
  <2>8. /\ DOMAIN qs = 1 .. Len(qs) /\ Len(qs) \in Nat /\ None \notin Nat
        /\ \A i \in DOMAIN qs : qs[i].by \in Request /\ qs[i].at \in Nat
    BY <2>6, PromptFields
  <2>9. PICK f : f = [i \in I |-> qs[i].by]
    OBVIOUS
  <2>10. f \in [I -> Q]
    <3>1. ASSUME NEW i \in I PROVE qs[i].by \in Q
      <4>1. i \in DOMAIN qs /\ topic[qs[i].by] = topic[r]
        BY <2>2
      <4>2. sid[qs[i].by] = s /\ added[qs[i].by] = qs[i].at
        BY <2>6, <4>1 DEF Filed
      <4>3. QED BY <2>2, <2>7, <2>8, <4>1, <4>2
    <3>2. QED BY <2>9, <3>1
  <2>11. \A i, j \in I : f[i] = f[j] => i = j
    <3>1. \A i, j \in DOMAIN qs : i < j => qs[i].by # qs[j].by
      BY <2>6 DEF Ordered
    <3>2. I \subseteq DOMAIN qs
      BY <2>2
    <3>3. \A i, j \in DOMAIN qs : i # j => i < j \/ j < i
      BY <2>8
    <3>4. QED BY <2>9, <3>1, <3>2, <3>3
  <2>12. \A q \in Q : \E i \in I : f[i] = q
    <3>1. SUFFICES ASSUME NEW q \in Q PROVE \E i \in I : f[i] = q
      OBVIOUS
    <3>2. q \in Request /\ sid[q] = s /\ topic[q] = topic[r] /\ added[q] # None /\ added[q] >= now - LoopWindow
      BY <2>2
    <3>3. PICK i \in DOMAIN qs : qs[i].by = q
      BY <2>3, <2>6, <3>2 DEF Filed
    <3>4. i \in I
      BY <2>2, <3>2, <3>3
    <3>5. QED BY <2>9, <3>3, <3>4
  <2>13. ExistsBijection(I, Q)
    BY <2>10, <2>11, <2>12 DEF ExistsBijection, Bijection, Injection, Surjection, IsInjective
  <2>14. IsFiniteSet(I)
    <3>1. IsFiniteSet(1 .. Len(qs)) /\ I \subseteq 1 .. Len(qs)
      BY <2>2, <2>8, FS_Interval
    <3>2. QED BY <3>1, FS_Subset
  <2>15. Cardinality(Q) = Cardinality(I)
    BY <2>13, <2>14, FS_Bijection
  <2>16. S!Similar(r) = S!Cardinality(I)
    BY <2>2 DEF S!Similar
  <2>17. QED BY <2>2, <2>15, <2>16, SameCount
<1>2. QED BY LoopsHold, <1>1, EachOfThree, PTL DEF LoopCountExact

-----------------------------------------------------------------------------
(* Upstream: the waits are those of the closed form *)

\* The first powers of two, as a table.
Powers(n, f) ==
    /\ f \in [0 .. n -> Nat] /\ f[0] = 1
    /\ \A i \in 1 .. n : f[i] = 2 * f[i - 1]

LEMMA PowersExist == \A n \in Nat : \E f : Powers(n, f)
<1> DEFINE T == {n \in Nat : ~ \E f : Powers(n, f)}
<1>1. SUFFICES ASSUME T # {} PROVE FALSE
  OBVIOUS
<1>2. PICK n \in T : \A m \in T : n <= m
  BY <1>1, LeastNumber
<1>3. CASE n = 0
  <2>1. Powers(0, [i \in 0 .. 0 |-> 1])
    BY DEF Powers
  <2>2. QED BY <1>2, <1>3, <2>1
<1>4. CASE n # 0
  <2>1. n \in Nat /\ n - 1 \in Nat /\ n - 1 \notin T
    BY <1>2, <1>4
  <2>2. PICK f : Powers(n - 1, f)
    BY <2>1
  <2> DEFINE g == [i \in 0 .. n |-> IF i = n THEN 2 * f[n - 1] ELSE f[i]]
  <2>3. /\ f \in [0 .. n - 1 -> Nat] /\ f[0] = 1 /\ f[n - 1] \in Nat
        /\ \A i \in 1 .. n - 1 : f[i] = 2 * f[i - 1]
    BY <2>1, <2>2 DEF Powers
  <2>4. g \in [0 .. n -> Nat] /\ g[0] = 1
    BY <1>4, <2>1, <2>3
  <2>5. ASSUME NEW i \in 1 .. n PROVE g[i] = 2 * g[i - 1]
    BY <2>1, <2>3
  <2> HIDE DEF g
  <2>6. Powers(n, g)
    BY <2>4, <2>5 DEF Powers
  <2>7. QED BY <1>2, <2>6
<1>5. QED BY <1>3, <1>4

LEMMA PowersAgree ==
  ASSUME NEW m \in Nat, NEW n \in Nat, NEW f, Powers(m, f), NEW g, Powers(n, g)
  PROVE  \A i \in 0 .. m : i <= n => f[i] = g[i]
<1> DEFINE T == {i \in 0 .. m : i <= n /\ f[i] # g[i]}
<1>1. SUFFICES ASSUME T # {} PROVE FALSE
  OBVIOUS
<1>2. T \subseteq Nat
  OBVIOUS
<1>3. PICK i \in T : \A k \in T : i <= k
  BY <1>1, <1>2, LeastNumber
<1>4. i # 0
  BY <1>3 DEF Powers
<1>5. i \in 1 .. m /\ i \in 1 .. n /\ i - 1 \in 0 .. m /\ i - 1 <= n /\ i - 1 \notin T
  BY <1>3, <1>4
<1>6. f[i - 1] = g[i - 1]
  BY <1>5
<1>7. f[i] = g[i]
  BY <1>5, <1>6 DEF Powers
<1>8. QED BY <1>3, <1>7

\* The recursive definition defines what it says.
LEMMA PowersOfTwo ==
  /\ U!PowerOfTwo \in [Nat -> Nat] /\ U!PowerOfTwo[0] = 1
  /\ \A n \in Nat : U!PowerOfTwo[n + 1] = 2 * U!PowerOfTwo[n]
<1> DEFINE F(n) == CHOOSE f : Powers(n, f)
           G == [n \in Nat |-> F(n)[n]]
<1>1. \A n \in Nat : Powers(n, F(n))
  BY PowersExist
<1> HIDE DEF F
<1>2. \A n \in Nat : G[n] \in Nat /\ (n = 0 => G[n] = 1)
  BY <1>1 DEF Powers
<1>3. ASSUME NEW n \in Nat, n # 0 PROVE G[n] = 2 * G[n - 1]
  <2>1. n - 1 \in Nat /\ n \in 1 .. n /\ n - 1 \in 0 .. n - 1 /\ n - 1 <= n
    BY <1>3
  <2>2. F(n)[n] = 2 * F(n)[n - 1]
    BY <1>1, <2>1 DEF Powers
  <2>3. F(n - 1)[n - 1] = F(n)[n - 1]
    BY <1>1, <2>1, PowersAgree
  <2>4. QED BY <2>1, <2>2, <2>3
<1>4. G = [n \in Nat |-> IF n = 0 THEN 1 ELSE 2 * G[n - 1]]
  BY <1>2, <1>3
<1>5. U!PowerOfTwo = [n \in Nat |-> IF n = 0 THEN 1 ELSE 2 * U!PowerOfTwo[n - 1]]
  <2> HIDE DEF G
  <2>1. \E f : f = [n \in Nat |-> IF n = 0 THEN 1 ELSE 2 * f[n - 1]]
    BY <1>4
  <2>2. QED BY <2>1, Zenon DEF U!PowerOfTwo
<1>6. \A n \in Nat : U!PowerOfTwo[n] = G[n]
  <2> DEFINE T == {n \in Nat : U!PowerOfTwo[n] # G[n]}
  <2> HIDE DEF G
  <2>1. SUFFICES ASSUME T # {} PROVE FALSE
    OBVIOUS
  <2>2. PICK n \in T : \A k \in T : n <= k
    BY <2>1, LeastNumber
  <2>3. U!PowerOfTwo[n] = IF n = 0 THEN 1 ELSE 2 * U!PowerOfTwo[n - 1]
    BY <1>5, <2>2
  <2>4. G[n] = IF n = 0 THEN 1 ELSE 2 * G[n - 1]
    BY <1>4, <2>2
  <2>5. n = 0 \/ (n - 1 \in Nat /\ n - 1 \notin T)
    BY <2>2
  <2>6. n = 0 \/ U!PowerOfTwo[n - 1] = G[n - 1]
    BY <2>5
  <2>7. QED BY <2>2, <2>3, <2>4, <2>6
<1>7. \A n \in Nat : U!PowerOfTwo[n] \in Nat
  BY <1>2, <1>6
<1>8. U!PowerOfTwo \in [Nat -> Nat]
  BY <1>5, <1>7
<1>9. U!PowerOfTwo[0] = 1
  BY <1>5
<1>10. ASSUME NEW n \in Nat PROVE U!PowerOfTwo[n + 1] = 2 * U!PowerOfTwo[n]
  BY <1>5
<1>11. QED BY <1>8, <1>9, <1>10

\* One delay of the closed form is twice the one before, or the maximum.
LEMMA DelayDoubles ==
  ASSUME U!UpstreamConstants, NEW n \in Nat
  PROVE  LET d == U!CalculateBackoffDelay(n + 1) IN
         /\ d \in Nat
         /\ U!CalculateBackoffDelay(n + 2) = IF 2 * d > MaxDelay THEN MaxDelay ELSE 2 * d
<1> DEFINE p == U!PowerOfTwo[n]
           q == U!PowerOfTwo[n + 1]
           e == InitialDelay * p
<1>1. InitialDelay \in Nat /\ MaxDelay \in Nat
  BY DEF U!UpstreamConstants
<1>2. p \in Nat /\ q = 2 * p
  BY PowersOfTwo
<1>3. (n + 1) - 1 = n /\ (n + 2) - 1 = n + 1
  OBVIOUS
<1>4. /\ U!CalculateBackoffDelay(n + 1) = IF e > MaxDelay THEN MaxDelay ELSE e
      /\ U!CalculateBackoffDelay(n + 2) = IF InitialDelay * q > MaxDelay THEN MaxDelay ELSE InitialDelay * q
  BY <1>3 DEF U!CalculateBackoffDelay
<1> HIDE DEF p, q
<1>5. e \in Nat /\ InitialDelay * q = 2 * e
  BY <1>1, <1>2
<1> HIDE DEF e
<1>6. QED BY <1>1, <1>4, <1>5

\* The delay in hand is the one the formula gives for the next wait.
Waiting ==
    /\ waits \in Seq(Nat)
    /\ delay = U!CalculateBackoffDelay(Len(waits) + 1)
    /\ U!WaitsFollowFormula

LEMMA StepWaiting == ASSUME U!UpstreamConstants PROVE Waiting /\ [U!Next]_U!vars => Waiting'
<1>1. SUFFICES ASSUME Waiting, [U!Next]_U!vars PROVE Waiting'
  OBVIOUS
<1>2. CASE UNCHANGED <<waits, delay>>
  BY <1>1, <1>2 DEF Waiting, U!WaitsFollowFormula
<1>3. CASE U!Wait
  <2> DEFINE n == Len(waits)
  <2>1. n \in Nat /\ delay \in Nat /\ waits' = Append(waits, delay)
    BY <1>1, <1>3, DelayDoubles DEF Waiting, U!Wait
  <2>2. waits' \in Seq(Nat) /\ Len(waits') = n + 1 /\ DOMAIN waits' = 1 .. n + 1
    BY <1>1, <2>1 DEF Waiting
  <2>3. delay' = U!CalculateBackoffDelay(n + 2)
    BY <1>1, <1>3, <2>1, DelayDoubles DEF Waiting, U!Wait
  <2>4. ASSUME NEW k \in DOMAIN waits' PROVE waits'[k] = U!CalculateBackoffDelay(k)
    <3>1. CASE k = n + 1
      BY <1>1, <2>1, <3>1 DEF Waiting
    <3>2. CASE k # n + 1
      <4>1. k \in DOMAIN waits /\ waits'[k] = waits[k]
        BY <1>1, <2>1, <2>2, <2>4, <3>2 DEF Waiting
      <4>2. QED BY <1>1, <4>1 DEF Waiting, U!WaitsFollowFormula
    <3>3. QED BY <3>1, <3>2
  <2>5. U!WaitsFollowFormula'
    BY <2>4 DEF U!WaitsFollowFormula, U!CalculateBackoffDelay
  <2>6. (n + 1) + 1 = n + 2
    BY <2>1
  <2>7. QED BY <2>2, <2>3, <2>5, <2>6 DEF Waiting, U!CalculateBackoffDelay
<1>4. U!Wait \/ UNCHANGED <<waits, delay>>
  BY <1>1 DEF U!Next, U!Step, U!Attempt, U!ChainCall, U!ChainExhausted, U!FallbackCall, U!NoFallback,
     U!Reply, U!PutSettings, U!backoff, U!vars
<1>5. QED BY <1>2, <1>3, <1>4

\* However many attempts are made and wherever the cap falls, the k-th wait between
\* them is the one CalculateBackoffDelay computes, although the loop doubles a delay
\* it carries along and caps it each time.
THEOREM WaitsAreThoseComputed == Spec => []WaitsFollowFormula
<1> USE UpstreamAssumption
<1>1. U!Init => Waiting
  <2>1. U!PowerOfTwo[0] = 1
    BY PowersOfTwo
  <2>2. SUFFICES ASSUME U!Init PROVE Waiting
    OBVIOUS
  <2>3. waits = <<>> /\ Len(waits) + 1 = 1 /\ delay = InitialDelay
    BY <2>2 DEF U!Init
  <2>4. U!CalculateBackoffDelay(1) = InitialDelay
    <3>1. InitialDelay \in Nat /\ MaxDelay \in Nat /\ InitialDelay <= MaxDelay
      BY DEF U!UpstreamConstants
    <3>2. QED BY <2>1, <3>1 DEF U!CalculateBackoffDelay
  <2>5. QED BY <2>3, <2>4 DEF Waiting, U!WaitsFollowFormula
<1>2. Waiting => U!WaitsFollowFormula
  BY DEF Waiting
<1>3. QED BY <1>1, <1>2, StepWaiting, EachOfThree, PTL DEF WaitsFollowFormula, U!Spec
=============================================================================
