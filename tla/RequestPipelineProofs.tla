------------------------ MODULE RequestPipelineProofs ------------------------
(***************************************************************************)
(* For any number of requests, any rules, routes and detector settings: what *)
(* a detector in block mode or a rule has condemned leaves no trace but its  *)
(* record; answers are checked and records truthful; what is redacted stays  *)
(* so, and what is served from a cache was meant for this request.           *)
(***************************************************************************)
EXTENDS RequestPipeline, TLAPS

-----------------------------------------------------------------------------
(* The inductive invariant *)

\* Condemned, of what a goroutine has in hand.
Stopped(q) ==
    \/ q.rule = "block"
    \/ q.rails /\ mode.rails = "block"
    \/ q.jail /\ mode.jail = "block"

Gates  == {"jail", "rails", "rules", "gate"}
Passed == {"redact", "memory", "lookup", "similar", "upstream", "respond", "conclude"}

\* The gates come before anything is sent or shown, a rule that blocks ends the
\* request, and nobody gets past them stopped.
Fits(r, q) ==
    /\ DOMAIN q = DOMAIN Idle
    /\ q.pc \in Gates => q.sent = None /\ q.shown = None /\ q.rule # "block"
    /\ (q.pc = "idle" \/ q.pc \in Passed) => ~Stopped(q)
    /\ Stopped(q) => /\ q.sent = None
                     /\ q.shown # None => q.shown.how = "error" /\ q.shown.status = 403
    /\ (q.pc = "conclude" /\ q.shown.how = "live") => q.shown.answer.from = r

\* Whoever is in a cache or remembered went all the way.
Through(s) == s \in Request /\ req[s].pc = "done" /\ ~Stopped(req[s])

Passes ==
    /\ DOMAIN req = Request
    /\ \A r \in Request : Fits(r, req[r])
    /\ \A h \in DOMAIN cache : Through(cache[h].from)
    /\ \A f \in facts : Through(f.of)

LEMMA IdleIs ==
    /\ DOMAIN Idle = {"pc", "in", "who", "bytes", "parsed", "jail", "rails", "rule", "rest",
                      "redacted", "hash", "sent", "resp", "shown"}
    /\ Idle.pc = "idle" /\ ~Idle.jail /\ ~Idle.rails /\ Idle.rule = "none"
    /\ Idle.sent = None /\ Idle.shown = None
  BY DEF Idle

LEMMA InitPasses == Init => Passes
<1> SUFFICES ASSUME Init PROVE Passes
  OBVIOUS
<1>1. DOMAIN req = Request /\ \A r \in Request : req[r] = Idle
  BY DEF Init
<1>2. \A r \in Request : Fits(r, Idle)
  BY IdleIs DEF Fits, Stopped, Gates, Passed
<1>3. DOMAIN cache = {} /\ facts = {}
  BY DEF Init
<1>4. QED BY <1>1, <1>2, <1>3 DEF Passes

\* One request moves on, and what it leaves in the caches or in memory it leaves
\* at its end.
LEMMA OneMoves ==
    ASSUME Passes, NEW r \in Request, NEW q, req[r].pc # "done", Fits(r, q),
           Go(r, q), mode' = mode,
           \A h \in DOMAIN cache' : (h \in DOMAIN cache /\ cache'[h] = cache[h])
                                     \/ (cache'[h].from = r /\ q.pc = "done" /\ ~Stopped(q)),
           \A f \in facts' : f \in facts \/ (f.of = r /\ q.pc = "done" /\ ~Stopped(q))
    PROVE  Passes'
<1>1. DOMAIN req' = Request /\ req'[r] = q /\ \A s \in Request \ {r} : req'[s] = req[s]
  BY DEF Go, Passes
<1>2. \A s \in Request : Fits(s, req[s])
  BY DEF Passes
<1>3. \A s \in Request : Fits(s, req[s])'
  BY <1>1, <1>2 DEF Fits, Stopped
<1>6. (\A h \in DOMAIN cache : Through(cache[h].from))'
  <2> SUFFICES ASSUME NEW h \in DOMAIN cache' PROVE Through(cache[h].from)'
    OBVIOUS
  <2>1. CASE h \in DOMAIN cache /\ cache'[h] = cache[h]
    <3>1. Through(cache[h].from)
      BY <2>1 DEF Passes
    <3>2. QED BY <1>1, <2>1, <3>1 DEF Through, Stopped
  <2>2. CASE cache'[h].from = r /\ q.pc = "done" /\ ~Stopped(q)
    BY <1>1, <2>2 DEF Through, Stopped
  <2>3. QED BY <2>1, <2>2
<1>7. (\A f \in facts : Through(f.of))'
  <2> SUFFICES ASSUME NEW f \in facts' PROVE Through(f.of)'
    OBVIOUS
  <2>1. CASE f \in facts
    <3>1. Through(f.of)
      BY <2>1 DEF Passes
    <3>2. QED BY <1>1, <3>1 DEF Through, Stopped
  <2>2. CASE f.of = r /\ q.pc = "done" /\ ~Stopped(q)
    BY <1>1, <2>2 DEF Through, Stopped
  <2>3. QED BY <2>1, <2>2
<1>8. QED BY <1>1, <1>3, <1>6, <1>7 DEF Passes

\* The same when the caches and memory stay as they are.
LEMMA Alone ==
    ASSUME Passes, NEW r \in Request, NEW q, req[r].pc # "done", Fits(r, q),
           Go(r, q), mode' = mode, Elsewhere
    PROVE  Passes'
  BY OneMoves DEF Elsewhere

-----------------------------------------------------------------------------
(* Every step keeps it *)

LEMMA ArrivePasses ==
    ASSUME Passes, NEW r \in Request, NEW in \in Arrivals, Arrive(r, in)
    PROVE  Passes'
<1> DEFINE who  == Route[in.model]
           body == [model |-> who.model, text |-> in.text, added |-> {}]
           gone == [Idle EXCEPT !.pc = "done", !.in = in, !.shown = Error(400)]
           on   == [Idle EXCEPT !.pc = IF in.track THEN "upstream" ELSE "jail",
                        !.in = in, !.who = who, !.bytes = body, !.parsed = body]
<1>1. (Go(r, gone) \/ Go(r, on)) /\ mode' = mode /\ Elsewhere /\ req[r].pc # "done"
  BY DEF Arrive
<1>2. Fits(r, gone)
  BY IdleIs DEF Fits, Stopped, Gates, Passed
<1>3. Fits(r, on)
  BY IdleIs DEF Fits, Stopped, Gates, Passed
<1>4. QED BY <1>1, <1>2, <1>3, Alone

LEMMA ClassifyPasses == ASSUME Passes, NEW r \in Request, Classify(r) PROVE Passes'
<1>1. PICK found \in Scores : Go(r, [req[r] EXCEPT !.pc = "rails", !.jail = found])
  BY DEF Classify
<1> DEFINE q == [req[r] EXCEPT !.pc = "rails", !.jail = found]
<1>2. Fits(r, req[r]) /\ req[r].pc = "jail"
  BY DEF Classify, Passes
<1>3. Fits(r, q)
  BY <1>2, IdleIs DEF Fits, Stopped, Gates, Passed
<1>4. QED BY <1>1, <1>2, <1>3, Alone DEF Classify

LEMMA GuardInputPasses == ASSUME Passes, NEW r \in Request, GuardInput(r) PROVE Passes'
<1>1. PICK verdict : Go(r, [req[r] EXCEPT !.pc = "rules",
           !.rails = verdict = "violation" \/ (verdict = "error" /\ mode.rails = "block")])
  BY DEF GuardInput
<1> DEFINE q == [req[r] EXCEPT !.pc = "rules",
                !.rails = verdict = "violation" \/ (verdict = "error" /\ mode.rails = "block")]
<1>2. Fits(r, req[r]) /\ req[r].pc = "rails"
  BY DEF GuardInput, Passes
<1>3. Fits(r, q)
  BY <1>2, IdleIs DEF Fits, Stopped, Gates, Passed
<1>4. QED BY <1>1, <1>2, <1>3, Alone DEF GuardInput

LEMMA RulesPasses == ASSUME Passes, NEW r \in Request, Rules(r) PROVE Passes'
<1>1. PICK res \in Results : ApplyRule(r, res)
  BY DEF Rules
<1> DEFINE q    == [req[r] EXCEPT !.rule = res.act]
           stop == [q EXCEPT !.pc = "done", !.shown = Error(403)]
<1>2. Fits(r, req[r]) /\ req[r].pc = "rules"
  BY DEF Rules, Passes
<1>3. Fits(r, stop)
  BY <1>2, IdleIs DEF Fits, Stopped, Gates, Passed, Error
<1>4. res.act # "block" => Fits(r, [q EXCEPT !.pc = "gate"])
  BY <1>2, IdleIs DEF Fits, Stopped, Gates, Passed
<1>5. ASSUME NEW p, res.act # "block" PROVE Fits(r, Rewritten(q, p))
  BY <1>2, <1>5, IdleIs DEF Fits, Stopped, Gates, Passed, Rewritten
<1>6. ASSUME NEW w, NEW rest, NEW p, res.act # "block"
      PROVE  Fits(r, Rewritten([q EXCEPT !.who = w, !.rest = rest], p))
  BY <1>2, <1>6, IdleIs DEF Fits, Stopped, Gates, Passed, Rewritten
<1>7. mode' = mode /\ Elsewhere /\ req[r].pc # "done"
  BY <1>2 DEF Rules
<1>8. CASE res.act = "block"
  BY <1>1, <1>3, <1>7, <1>8, Alone DEF ApplyRule
<1>9. CASE res.act = "prompt"
  <2>1. Go(r, Rewritten(q, [q.parsed EXCEPT !.added = @ \cup {"prompt"}]))
    BY <1>1, <1>9 DEF ApplyRule
  <2>2. QED BY <2>1, <1>5, <1>7, <1>9, Alone
<1>10. CASE res.act \in {"override", "chain"}
  <2> DEFINE w == [res.to[1] EXCEPT !.provider = IF res.act = "override" THEN q.who.provider ELSE @]
  <2>1. Go(r, Rewritten([q EXCEPT !.who = w, !.rest = Tail(res.to)],
                        [q.parsed EXCEPT !.model = w.model]))
    BY <1>1, <1>10 DEF ApplyRule
  <2>2. QED BY <2>1, <1>6, <1>7, <1>10, Alone
<1>11. CASE res.act \notin {"block", "prompt", "override", "chain"}
  <2>1. Go(r, [q EXCEPT !.pc = "gate"])
    BY <1>1, <1>11 DEF ApplyRule
  <2>2. QED BY <2>1, <1>4, <1>7, <1>11, Alone
<1>12. QED BY <1>8, <1>9, <1>10, <1>11

LEMMA AutoBlockPasses == ASSUME Passes, NEW r \in Request, AutoBlock(r) PROVE Passes'
<1> DEFINE stop == [req[r] EXCEPT !.pc = "done", !.shown = Error(403)]
           on   == [req[r] EXCEPT !.pc = "redact"]
<1>1. Fits(r, req[r]) /\ req[r].pc = "gate" /\ mode' = mode /\ Elsewhere
  BY DEF AutoBlock, Passes
<1>2. Fits(r, stop)
  BY <1>1, IdleIs DEF Fits, Stopped, Gates, Passed, Error
<1>3. ~Stopped(req[r]) => Fits(r, on)
  BY <1>1, IdleIs DEF Fits, Stopped, Gates, Passed
<1>4. Go(r, stop) \/ (Go(r, on) /\ ~Stopped(req[r]))
  BY <1>1 DEF AutoBlock, Refuse, Stopped, Fits, Gates
<1>5. QED BY <1>1, <1>2, <1>3, <1>4, Alone

LEMMA EditPasses == ASSUME Passes, NEW r \in Request, Edit(r) PROVE Passes'
<1>1. Fits(r, req[r]) /\ req[r].pc \in {"redact", "memory"} /\ mode' = mode /\ Elsewhere
  BY DEF Edit, Redact, Memory, Passes
<1>2. ASSUME NEW b, NEW d PROVE Fits(r, [req[r] EXCEPT !.pc = "memory", !.bytes = b, !.redacted = d])
  BY <1>1, IdleIs DEF Fits, Stopped, Gates, Passed
<1>3. ASSUME NEW b PROVE Fits(r, [req[r] EXCEPT !.pc = "lookup", !.parsed = b, !.bytes = b])
  BY <1>1, IdleIs DEF Fits, Stopped, Gates, Passed
<1>4. Fits(r, [req[r] EXCEPT !.pc = "lookup"])
  BY <1>1, IdleIs DEF Fits, Stopped, Gates, Passed
<1>5. CASE Redact(r)
  <2>1. PICK b : Go(r, [req[r] EXCEPT !.pc = "memory", !.bytes = b, !.redacted = (b # req[r].bytes)])
    BY <1>5 DEF Redact
  <2>2. QED BY <2>1, <1>1, <1>2, Alone
<1>6. CASE Memory(r)
  <2> DEFINE b == [req[r].parsed EXCEPT !.added = @ \cup {"memory"}]
  <2>1. \/ Go(r, [req[r] EXCEPT !.pc = "lookup", !.parsed = b, !.bytes = b])
        \/ Go(r, [req[r] EXCEPT !.pc = "lookup"])
    BY <1>6 DEF Memory
  <2>2. QED BY <2>1, <1>1, <1>3, <1>4, Alone
<1>7. QED BY <1>5, <1>6 DEF Edit

LEMMA LookupPasses == ASSUME Passes, NEW r \in Request, Lookup(r) PROVE Passes'
<1>1. Fits(r, req[r]) /\ req[r].pc \in {"lookup", "similar"} /\ mode' = mode /\ Elsewhere
  BY DEF Lookup, LookupCache, LookupSimilar, Passes
<1> DEFINE q == [req[r] EXCEPT !.hash = HashOf(req[r])]
<1>2. ASSUME NEW s PROVE Fits(r, [req[r] EXCEPT !.pc = "done", !.shown = s])
  BY <1>1, IdleIs DEF Fits, Stopped, Gates, Passed
<1>3. ASSUME NEW s PROVE Fits(r, [q EXCEPT !.pc = "done", !.shown = s])
  BY <1>1, IdleIs DEF Fits, Stopped, Gates, Passed
<1>4. Fits(r, [req[r] EXCEPT !.pc = "upstream"]) /\ Fits(r, [q EXCEPT !.pc = "similar"])
  BY <1>1, IdleIs DEF Fits, Stopped, Gates, Passed
<1>5. CASE LookupCache(r)
  <2> DEFINE shown == [how |-> "hit", status |-> cache[q.hash].status, answer |-> cache[q.hash]]
  <2>1. \/ Go(r, [req[r] EXCEPT !.pc = "upstream"])
        \/ Go(r, [q EXCEPT !.pc = "similar"])
        \/ Go(r, [q EXCEPT !.pc = "done", !.shown = shown])
    BY <1>5 DEF LookupCache, Serve
  <2>2. QED BY <2>1, <1>1, <1>3, <1>4, Alone
<1>6. CASE LookupSimilar(r)
  <2>1. (\E s : Go(r, [req[r] EXCEPT !.pc = "done", !.shown = s]))
           \/ Go(r, [req[r] EXCEPT !.pc = "upstream"])
    BY <1>6 DEF LookupSimilar, Serve
  <2>2. QED BY <2>1, <1>1, <1>2, <1>4, Alone
<1>7. QED BY <1>5, <1>6 DEF Lookup

LEMMA UpstreamPasses == ASSUME Passes, NEW r \in Request, Upstream(r) PROVE Passes'
<1>1. Fits(r, req[r]) /\ req[r].pc = "upstream" /\ mode' = mode /\ Elsewhere
  BY DEF Upstream, Passes
<1> DEFINE q == [req[r] EXCEPT !.sent = req[r].bytes]
<1>2. Fits(r, [q EXCEPT !.pc = "done", !.shown = Error(502)])
  BY <1>1, IdleIs DEF Fits, Stopped, Gates, Passed
<1>3. ASSUME NEW resp PROVE Fits(r, [q EXCEPT !.pc = "respond", !.resp = resp])
  BY <1>1, IdleIs DEF Fits, Stopped, Gates, Passed
<1>4. \/ Go(r, [q EXCEPT !.pc = "done", !.shown = Error(502)])
      \/ \E resp : Go(r, [q EXCEPT !.pc = "respond", !.resp = resp])
  BY DEF Upstream
<1>5. QED BY <1>1, <1>2, <1>3, <1>4, Alone

LEMMA AnswerPasses ==
    ASSUME Passes, NEW r \in Request, Stream(r) \/ Respond(r)
    PROVE  Passes'
<1>1. Fits(r, req[r]) /\ req[r].pc = "respond" /\ mode' = mode /\ Elsewhere
  BY DEF Stream, Respond, Passes
<1>2. ASSUME NEW s, s.how = "live" => s.answer.from = r
      PROVE  Fits(r, [req[r] EXCEPT !.pc = "conclude", !.shown = s])
  BY <1>1, <1>2, IdleIs DEF Fits, Stopped, Gates, Passed
<1>3. PICK s : (s.how = "live" => s.answer.from = r)
               /\ Go(r, [req[r] EXCEPT !.pc = "conclude", !.shown = s])
  BY DEF Stream, Respond, Error
<1>4. QED BY <1>1, <1>2, <1>3, Alone

LEMMA ConcludePasses == ASSUME Passes, NEW r \in Request, Conclude(r) PROVE Passes'
<1> DEFINE q == [req[r] EXCEPT !.pc = "done"]
<1>1. Fits(r, req[r]) /\ req[r].pc = "conclude" /\ mode' = mode /\ Go(r, q)
  BY DEF Conclude, Passes
<1>2. ~Stopped(q) /\ q.pc = "done"
  BY <1>1, IdleIs DEF Fits, Stopped, Passed
<1>3. Fits(r, q)
  BY <1>1, IdleIs DEF Fits, Stopped, Gates, Passed
<1>4. \A h \in DOMAIN cache' : (h \in DOMAIN cache /\ cache'[h] = cache[h]) \/ cache'[h].from = r
  BY <1>1 DEF Conclude, Keep, Fits
<1>5. \A f \in facts' : f \in facts \/ f.of = r
  BY DEF Conclude
<1>6. QED BY <1>1, <1>2, <1>3, <1>4, <1>5, OneMoves

LEMMA NextPasses == Passes /\ [Next]_vars => Passes'
<1> SUFFICES ASSUME Passes, [Next]_vars PROVE Passes'
  OBVIOUS
<1>1. ASSUME NEW r \in Request, \E in \in Arrivals : Arrive(r, in) PROVE Passes'
  BY <1>1, ArrivePasses
<1>2. ASSUME NEW r \in Request, Gate(r) PROVE Passes'
  BY <1>2, ClassifyPasses, GuardInputPasses, RulesPasses, AutoBlockPasses DEF Gate
<1>3. ASSUME NEW r \in Request, Edit(r) PROVE Passes'
  BY <1>3, EditPasses
<1>4. ASSUME NEW r \in Request, Lookup(r) PROVE Passes'
  BY <1>4, LookupPasses
<1>5. ASSUME NEW r \in Request, Call(r) PROVE Passes'
  BY <1>5, UpstreamPasses, AnswerPasses, ConcludePasses DEF Call
<1>6. ASSUME NEW h \in DOMAIN cache, Forget(h) PROVE Passes'
  BY <1>6 DEF Forget, Passes, Fits, Stopped, Through
<1>7. ASSUME NEW p \in pending, StoreVector(p) PROVE Passes'
  BY <1>7 DEF StoreVector, Passes, Fits, Stopped, Through
<1>8. CASE UNCHANGED vars
  BY <1>8 DEF vars, Passes, Fits, Stopped, Through
<1>9. QED BY <1>1, <1>2, <1>3, <1>4, <1>5, <1>6, <1>7, <1>8 DEF Next

\* A request that a detector in block mode or a rule has condemned is answered
\* 403 and goes nowhere (handler.go:645-748): not upstream, not into a cache or
\* the memory, however requests interleave and whatever else a rule says of it.
THEOREM CondemnedGoNowhere == Spec => []StoppedGoesNowhere
<1>1. Passes => StoppedGoesNowhere
  BY DEF Passes, Fits, Stopped, Through, StoppedGoesNowhere, Condemned
<1>2. QED BY <1>1, InitPasses, NextPasses, PTL DEF Spec

-----------------------------------------------------------------------------
(* The output gate *)

Done(s)   == s \in Request /\ req[s].pc = "done"
Spared(a) == Done(a.from) /\ (a.checked \/ req[a.from].in.exempt)

\* The meter-only endpoint never computes a hash; what is shown live has been to the
\* gate unless the gate is not for it; what is served was kept under the same rule.
Vetted(r, q) ==
    /\ DOMAIN q = DOMAIN Idle
    /\ q.pc \notin {"conclude", "done"} => q.shown = None
    /\ (q.pc # "idle" /\ q.in.track) =>
         q.pc \in {"upstream", "respond", "conclude", "done"} /\ q.hash = None
    /\ q.pc \in {"conclude", "done"} => q.shown.how \in {"error", "live", "hit", "similar"}
    /\ (q.pc \in {"conclude", "done"} /\ q.shown.how = "live" /\ ~q.in.stream) =>
         /\ q.shown.answer.from = r /\ q.shown.answer.status = q.resp.status
         /\ (q.resp.status < 400 /\ ~q.in.track) => q.shown.answer.checked \/ q.in.exempt
    /\ (q.pc \in {"conclude", "done"} /\ q.shown.how \in {"hit", "similar"}) => Spared(q.shown.answer)

Vetting ==
    /\ DOMAIN req = Request
    /\ \A r \in Request : Vetted(r, req[r])
    /\ \A h \in DOMAIN cache : Spared(cache[h])

LEMMA InitVetting == Init => Vetting
<1> SUFFICES ASSUME Init PROVE Vetting
  OBVIOUS
<1>1. DOMAIN req = Request /\ \A r \in Request : req[r] = Idle
  BY DEF Init
<1>2. \A r \in Request : Vetted(r, Idle)
  BY IdleIs DEF Vetted
<1>3. DOMAIN cache = {}
  BY DEF Init
<1>4. QED BY <1>1, <1>2, <1>3 DEF Vetting

LEMMA OneVetted ==
    ASSUME Vetting, NEW r \in Request, NEW q, req[r].pc # "done", Vetted(r, q), Go(r, q),
           \A h \in DOMAIN cache' : (h \in DOMAIN cache /\ cache'[h] = cache[h])
               \/ (cache'[h].from = r /\ q.pc = "done" /\ (cache'[h].checked \/ q.in.exempt))
    PROVE  Vetting'
<1>1. DOMAIN req' = Request /\ req'[r] = q /\ \A s \in Request \ {r} : req'[s] = req[s]
  BY DEF Go, Vetting
<1>2. ASSUME NEW a, Spared(a) PROVE Done(a.from)' /\ (a.checked \/ req'[a.from].in.exempt)
  BY <1>1, <1>2 DEF Spared, Done
<1>3. \A s \in Request : Vetted(s, req[s])
  BY DEF Vetting
<1>4. ASSUME NEW s \in Request PROVE Vetted(s, req[s])'
  <2>1. Vetted(s, req'[s])
    BY <1>1, <1>3
  <2>2. Spared(req'[s].shown.answer) => Spared(req[s].shown.answer)'
    BY <1>2 DEF Spared
  <2>3. QED BY <2>1, <2>2 DEF Vetted
<1>5. ASSUME NEW h \in DOMAIN cache' PROVE Spared(cache[h])'
  <2>1. CASE h \in DOMAIN cache /\ cache'[h] = cache[h]
    <3>1. Spared(cache[h])
      BY <2>1 DEF Vetting
    <3>2. QED BY <2>1, <3>1, <1>2 DEF Spared
  <2>2. CASE cache'[h].from = r /\ q.pc = "done" /\ (cache'[h].checked \/ q.in.exempt)
    BY <1>1, <2>2 DEF Spared, Done
  <2>3. QED BY <1>5, <2>1, <2>2
<1>6. QED BY <1>1, <1>4, <1>5 DEF Vetting

Early == {"jail", "rails", "rules", "gate", "redact", "memory"}
\* Until a request is looked up, a step of it changes nothing this is about.
Moved(p, q) ==
    /\ DOMAIN q = DOMAIN Idle /\ q.in = p.in
    /\ \/ q.pc \in Early \cup {"lookup"} /\ q.shown = p.shown
       \/ q.pc = "done" /\ q.shown = Error(403)

LEMMA MovedVetted ==
    ASSUME Vetting, NEW r \in Request, NEW q, req[r].pc \in Early, Moved(req[r], q),
           Go(r, q), cache' = cache
    PROVE  Vetting'
<1>1. Vetted(r, req[r])
  BY DEF Vetting
<1>2. Vetted(r, q)
  BY <1>1, IdleIs DEF Vetted, Moved, Early, Error
<1>3. QED BY <1>2, OneVetted DEF Early

LEMMA GateVetted == ASSUME Vetting, NEW r \in Request, Gate(r) PROVE Vetting'
<1>1. DOMAIN req[r] = DOMAIN Idle /\ req[r].pc \in Early /\ cache' = cache
  BY DEF Vetting, Vetted, Early, Gate, Classify, GuardInput, Rules, AutoBlock, Elsewhere
<1>2. CASE Classify(r)
  <2>1. PICK found : Go(r, [req[r] EXCEPT !.pc = "rails", !.jail = found])
    BY <1>2 DEF Classify
  <2>2. Moved(req[r], [req[r] EXCEPT !.pc = "rails", !.jail = found])
    BY <1>1, IdleIs DEF Moved, Early
  <2>3. QED BY <2>1, <2>2, <1>1, MovedVetted
<1>3. CASE GuardInput(r)
  <2>1. PICK found : Go(r, [req[r] EXCEPT !.pc = "rules", !.rails = found])
    BY <1>3 DEF GuardInput
  <2>2. Moved(req[r], [req[r] EXCEPT !.pc = "rules", !.rails = found])
    BY <1>1, IdleIs DEF Moved, Early
  <2>3. QED BY <2>1, <2>2, <1>1, MovedVetted
<1>4. CASE Rules(r)
  <2>1. PICK res \in Results : ApplyRule(r, res)
    BY <1>4 DEF Rules
  <2> DEFINE q == [req[r] EXCEPT !.rule = res.act]
             w == [res.to[1] EXCEPT !.provider = IF res.act = "override" THEN q.who.provider ELSE @]
             p == [q.parsed EXCEPT !.added = @ \cup {"prompt"}]
             m == [q.parsed EXCEPT !.model = w.model]
  <2>2. \/ Go(r, [q EXCEPT !.pc = "done", !.shown = Error(403)])
        \/ Go(r, Rewritten(q, p))
        \/ Go(r, Rewritten([q EXCEPT !.who = w, !.rest = Tail(res.to)], m))
        \/ Go(r, [q EXCEPT !.pc = "gate"])
    BY <2>1 DEF ApplyRule
  <2>3. /\ Moved(req[r], [q EXCEPT !.pc = "done", !.shown = Error(403)])
        /\ Moved(req[r], [q EXCEPT !.pc = "gate"])
    BY <1>1, IdleIs DEF Moved, Early
  <2>4. Moved(req[r], Rewritten(q, p))
    BY <1>1, IdleIs DEF Moved, Early, Rewritten
  <2>5. Moved(req[r], Rewritten([q EXCEPT !.who = w, !.rest = Tail(res.to)], m))
    BY <1>1, IdleIs DEF Moved, Early, Rewritten
  <2> HIDE DEF q, w, p, m
  <2>6. QED BY <2>2, <2>3, <2>4, <2>5, <1>1, MovedVetted
<1>5. CASE AutoBlock(r)
  <2>1. \/ Go(r, [req[r] EXCEPT !.pc = "done", !.shown = Error(403)])
        \/ Go(r, [req[r] EXCEPT !.pc = "redact"])
    BY <1>5 DEF AutoBlock, Refuse
  <2>2. /\ Moved(req[r], [req[r] EXCEPT !.pc = "redact"])
        /\ Moved(req[r], [req[r] EXCEPT !.pc = "done", !.shown = Error(403)])
    BY <1>1, IdleIs DEF Moved, Early
  <2>3. QED BY <2>1, <2>2, <1>1, MovedVetted
<1>6. QED BY <1>2, <1>3, <1>4, <1>5 DEF Gate

LEMMA EditVetted == ASSUME Vetting, NEW r \in Request, Edit(r) PROVE Vetting'
<1>1. DOMAIN req[r] = DOMAIN Idle /\ req[r].pc \in Early /\ cache' = cache
  BY DEF Vetting, Vetted, Early, Edit, Redact, Memory, Elsewhere
<1>2. CASE Redact(r)
  <2>1. PICK b : Go(r, [req[r] EXCEPT !.pc = "memory", !.bytes = b, !.redacted = (b # req[r].bytes)])
    BY <1>2 DEF Redact
  <2>2. Moved(req[r], [req[r] EXCEPT !.pc = "memory", !.bytes = b, !.redacted = (b # req[r].bytes)])
    BY <1>1, IdleIs DEF Moved, Early
  <2>3. QED BY <2>1, <2>2, <1>1, MovedVetted
<1>3. CASE Memory(r)
  <2> DEFINE b == [req[r].parsed EXCEPT !.added = @ \cup {"memory"}]
  <2>1. \/ Go(r, [req[r] EXCEPT !.pc = "lookup", !.parsed = b, !.bytes = b])
        \/ Go(r, [req[r] EXCEPT !.pc = "lookup"])
    BY <1>3 DEF Memory
  <2>2. /\ Moved(req[r], [req[r] EXCEPT !.pc = "lookup", !.parsed = b, !.bytes = b])
        /\ Moved(req[r], [req[r] EXCEPT !.pc = "lookup"])
    BY <1>1, IdleIs DEF Moved, Early
  <2>3. QED BY <2>1, <2>2, <1>1, MovedVetted
<1>4. QED BY <1>2, <1>3 DEF Edit

LEMMA ArriveVetted ==
    ASSUME Vetting, NEW r \in Request, NEW in \in Arrivals, Arrive(r, in)
    PROVE  Vetting'
<1> DEFINE who  == Route[in.model]
           body == [model |-> who.model, text |-> in.text, added |-> {}]
           gone == [Idle EXCEPT !.pc = "done", !.in = in, !.shown = Error(400)]
           on   == [Idle EXCEPT !.pc = IF in.track THEN "upstream" ELSE "jail",
                        !.in = in, !.who = who, !.bytes = body, !.parsed = body]
<1>1. (Go(r, gone) \/ Go(r, on)) /\ cache' = cache /\ req[r].pc # "done"
  BY DEF Arrive, Elsewhere
<1>2. Idle.hash = None
  BY DEF Idle
<1>3. Vetted(r, gone) /\ Vetted(r, on)
  BY <1>2, IdleIs DEF Vetted, Error
<1>4. QED BY <1>1, <1>3, OneVetted

LEMMA LookupVetted == ASSUME Vetting, NEW r \in Request, Lookup(r) PROVE Vetting'
<1>1. Vetted(r, req[r]) /\ req[r].pc \in {"lookup", "similar"} /\ cache' = cache
  BY DEF Lookup, LookupCache, LookupSimilar, Vetting, Elsewhere
<1> DEFINE q == [req[r] EXCEPT !.hash = HashOf(req[r])]
           Served(how, h) == [how |-> how, status |-> cache[h].status, answer |-> cache[h]]
<1>2. ASSUME NEW h \in DOMAIN cache, NEW how \in {"hit", "similar"}
      PROVE  /\ Vetted(r, [req[r] EXCEPT !.pc = "done", !.shown = Served(how, h)])
             /\ Vetted(r, [q EXCEPT !.pc = "done", !.shown = Served(how, h)])
  <2>1. Spared(cache[h])
    BY DEF Vetting
  <2>2. QED BY <1>1, <2>1, IdleIs DEF Vetted
<1>3. Vetted(r, [req[r] EXCEPT !.pc = "upstream"]) /\ Vetted(r, [q EXCEPT !.pc = "similar"])
  BY <1>1, IdleIs DEF Vetted
<1>4. CASE LookupCache(r)
  <2>1. \/ Go(r, [req[r] EXCEPT !.pc = "upstream"])
        \/ Go(r, [q EXCEPT !.pc = "similar"])
        \/ q.hash \in DOMAIN cache /\ Go(r, [q EXCEPT !.pc = "done", !.shown = Served("hit", q.hash)])
    BY <1>4 DEF LookupCache, Serve
  <2>2. QED BY <2>1, <1>1, <1>2, <1>3, OneVetted
<1>5. CASE LookupSimilar(r)
  <2>1. \/ \E h \in DOMAIN cache : Go(r, [req[r] EXCEPT !.pc = "done", !.shown = Served("similar", h)])
        \/ Go(r, [req[r] EXCEPT !.pc = "upstream"])
    BY <1>5 DEF LookupSimilar, Serve
  <2>2. QED BY <2>1, <1>1, <1>2, <1>3, OneVetted
<1>6. QED BY <1>4, <1>5 DEF Lookup

LEMMA UpstreamVetted == ASSUME Vetting, NEW r \in Request, Upstream(r) PROVE Vetting'
<1>1. Vetted(r, req[r]) /\ req[r].pc = "upstream" /\ cache' = cache
  BY DEF Upstream, Vetting, Elsewhere
<1> DEFINE q == [req[r] EXCEPT !.sent = req[r].bytes]
<1>2. Vetted(r, [q EXCEPT !.pc = "done", !.shown = Error(502)])
  BY <1>1, IdleIs DEF Vetted, Error
<1>3. ASSUME NEW resp PROVE Vetted(r, [q EXCEPT !.pc = "respond", !.resp = resp])
  BY <1>1, IdleIs DEF Vetted
<1>4. \/ Go(r, [q EXCEPT !.pc = "done", !.shown = Error(502)])
      \/ \E resp : Go(r, [q EXCEPT !.pc = "respond", !.resp = resp])
  BY DEF Upstream
<1>5. QED BY <1>1, <1>2, <1>3, <1>4, OneVetted

\* Here the output gate comes in.
LEMMA AnswerVetted ==
    ASSUME Vetting, mode.rails # "off", NEW r \in Request, Stream(r) \/ Respond(r)
    PROVE  Vetting'
<1>1. Vetted(r, req[r]) /\ req[r].pc = "respond" /\ cache' = cache
  BY DEF Stream, Respond, Vetting, Elsewhere
<1> DEFINE by(gated) == [from |-> r, status |-> req[r].resp.status, checked |-> gated]
           live(st, gated) == [how |-> "live", status |-> st, answer |-> by(gated)]
           on(s) == [req[r] EXCEPT !.pc = "conclude", !.shown = s]
<1>2. Vetted(r, on(Error(502)))
  BY <1>1, IdleIs DEF Vetted, Error
<1>3. ASSUME NEW st, NEW gated,
             ~req[r].in.stream /\ req[r].resp.status < 400 /\ ~req[r].in.track /\ ~req[r].in.exempt
               => gated = TRUE
      PROVE  Vetted(r, on(live(st, gated)))
  BY <1>1, <1>3, IdleIs DEF Vetted
<1>4. CASE Stream(r)
  <2>1. Go(r, on(live(200, FALSE))) /\ req[r].in.stream
    BY <1>4 DEF Stream
  <2>2. Vetted(r, on(live(200, FALSE)))
    BY <2>1, <1>3
  <2>3. QED BY <2>1, <2>2, <1>1, OneVetted
<1>5. CASE Respond(r)
  <2>1. PICK gated : gated = Gated(req[r])
    OBVIOUS
  <2>2. Go(r, on(live(req[r].resp.status, gated))) \/ Go(r, on(Error(502)))
    BY <1>5, <2>1 DEF Respond
  <2>3. ~req[r].in.stream /\ req[r].resp.status < 400 /\ ~req[r].in.track /\ ~req[r].in.exempt
           => gated = TRUE
    BY <2>1 DEF Gated
  <2>4. Vetted(r, on(live(req[r].resp.status, gated)))
    BY <2>3, <1>3
  <2>5. QED BY <2>2, <2>4, <1>1, <1>2, OneVetted
<1>6. QED BY <1>4, <1>5

\* What is kept is what was shown, and only a good answer that may be cached is.
LEMMA ConcludeVetted == ASSUME Vetting, NEW r \in Request, Conclude(r) PROVE Vetting'
<1> DEFINE q == [req[r] EXCEPT !.pc = "done"]
<1>1. Vetted(r, req[r]) /\ req[r].pc = "conclude" /\ Go(r, q)
  BY DEF Conclude, Vetting
<1>2. Vetted(r, q) /\ q.pc = "done" /\ q.in = req[r].in
  BY <1>1, IdleIs DEF Vetted
<1>3. ASSUME NEW h \in DOMAIN cache'
      PROVE  (h \in DOMAIN cache /\ cache'[h] = cache[h])
               \/ (cache'[h].from = r /\ (cache'[h].checked \/ q.in.exempt))
  <2>1. CASE cache' = cache
    BY <1>3, <2>1
  <2>2. CASE cache' # cache
    <3>1. /\ req[r].shown.how = "live" /\ ~req[r].in.stream /\ req[r].resp.status = 200
          /\ req[r].hash # None
          /\ cache' = [g \in DOMAIN cache \cup {req[r].hash} |->
                         IF g = req[r].hash THEN req[r].shown.answer ELSE cache[g]]
      BY <2>2 DEF Conclude, Keep
    <3>2. /\ req[r].shown.answer.from = r
          /\ req[r].shown.answer.checked \/ req[r].in.exempt
      BY <1>1, <3>1 DEF Vetted
    <3>3. QED BY <1>2, <3>1, <3>2
  <2>3. QED BY <2>1, <2>2
<1>4. QED BY <1>1, <1>2, <1>3, OneVetted

LEMMA NextVetted == Vetting /\ mode.rails # "off" /\ [Next]_vars => Vetting' /\ mode'.rails # "off"
<1> SUFFICES ASSUME Vetting, mode.rails # "off", [Next]_vars PROVE Vetting' /\ mode'.rails # "off"
  OBVIOUS
<1>0. mode' = mode
  BY DEF Next, Gate, Edit, Lookup, Call, Arrive, Classify, GuardInput, Rules, AutoBlock, Redact, Memory,
         LookupCache, LookupSimilar, Upstream, Stream, Respond, Conclude, Forget, StoreVector, vars
<1>1. ASSUME NEW r \in Request, \E in \in Arrivals : Arrive(r, in) PROVE Vetting'
  BY <1>1, ArriveVetted
<1>2. ASSUME NEW r \in Request, Gate(r) \/ Edit(r) PROVE Vetting'
  BY <1>2, GateVetted, EditVetted
<1>3. ASSUME NEW r \in Request, Lookup(r) PROVE Vetting'
  BY <1>3, LookupVetted
<1>4. ASSUME NEW r \in Request, Call(r) PROVE Vetting'
  BY <1>4, UpstreamVetted, AnswerVetted, ConcludeVetted DEF Call
<1>5. ASSUME NEW h \in DOMAIN cache, Forget(h) PROVE Vetting'
  BY <1>5 DEF Forget, Vetting, Vetted, Spared, Done
<1>6. ASSUME NEW p \in pending, StoreVector(p) PROVE Vetting'
  BY <1>6 DEF StoreVector, Vetting, Vetted, Spared, Done
<1>7. CASE UNCHANGED vars
  BY <1>7 DEF vars, Vetting, Vetted, Spared, Done
<1>8. QED BY <1>0, <1>1, <1>2, <1>3, <1>4, <1>5, <1>6, <1>7 DEF Next

LEMMA OffStaysOff == mode.rails = "off" /\ [Next]_vars => mode'.rails = "off"
  BY DEF Next, Gate, Edit, Lookup, Call, Arrive, Classify, GuardInput, Rules, AutoBlock, Redact, Memory,
         LookupCache, LookupSimilar, Upstream, Stream, Respond, Conclude, Forget, StoreVector, vars

\* Wherever an answer comes from, the output gate was asked about it
\* (handler.go:1343), unless the agent that got it, or the one it was kept for, is
\* exempt; streams and the meter-only endpoint apart.
THEOREM AnswersAreChecked == Spec => []CheckedUnlessSpared
<1> DEFINE I == (mode.rails # "off") => Vetting
<1>1. Init => I
  BY InitVetting
<1>2. I /\ [Next]_vars => I'
  BY NextVetted, OffStaysOff
<1>3. I => CheckedUnlessSpared
  BY DEF Vetting, Vetted, Spared, Done, CheckedUnlessSpared
<1>4. QED BY <1>1, <1>2, <1>3, PTL DEF Spec

-----------------------------------------------------------------------------
(* The records *)

\* Whom the handler asks, and whom a chain names, are somebody.
Known(q) == q.who \in Target /\ \A k \in DOMAIN q.rest : q.rest[k] \in Target

\* The body of RecordMatchesAnswer, of a request that is over.
Agrees(q, l) ==
    /\ Len(l) = 1
    /\ l[1].hit <=> q.shown.how \in {"hit", "similar"}
    /\ l[1].status = q.shown.status \/ (q.resp # None /\ (q.in.stream \/ q.shown.how = "error"))
    /\ (q.resp # None /\ q.resp.status = 200) => l[1].who = q.resp.by

\* Nothing is recorded before the end; a good response names who gave it; what is
\* about to be recorded is the status shown, streams and broken answers apart.
Noted(q, l) ==
    /\ DOMAIN q = DOMAIN Idle
    /\ q.pc # "done" => l = <<>>
    /\ q.pc \notin {"idle", "done"} => Known(q)
    /\ q.pc \notin {"respond", "conclude", "done"} => q.resp = None
    /\ q.pc \in {"respond", "conclude"} =>
         q.resp \in Reply /\ (q.resp.status = 200 => q.resp.named = q.resp.by)
    /\ q.pc = "conclude" =>
         /\ q.shown.how \in {"live", "error"}
         /\ q.shown.status = q.resp.status \/ q.in.stream \/ q.shown.how = "error"
    /\ q.pc = "done" => IF q.who = None THEN l = <<>> ELSE Agrees(q, l)

Noting ==
    /\ DOMAIN req = Request /\ DOMAIN log = Request
    /\ \A r \in Request : Noted(req[r], log[r])

LEMMA IdleHas == Idle.who = None /\ Idle.rest = <<>> /\ Idle.resp = None /\ Idle.hash = None /\ ~Idle.redacted
  BY DEF Idle

LEMMA InitNoting == Init => Noting
<1> SUFFICES ASSUME Init PROVE Noting
  OBVIOUS
<1>1. DOMAIN req = Request /\ \A r \in Request : req[r] = Idle
  BY DEF Init
<1>2. DOMAIN log = Request /\ \A r \in Request : log[r] = <<>>
  BY DEF Init
<1>3. Noted(Idle, <<>>)
  BY IdleIs, IdleHas DEF Noted
<1>4. QED BY <1>1, <1>2, <1>3 DEF Noting

\* A step that records nothing, and the last one, which does.
LEMMA QuietNoting ==
    ASSUME Noting, NEW r \in Request, NEW q, Go(r, q), Noted(q, log[r]), log' = log
    PROVE  Noting'
<1>1. DOMAIN req' = Request /\ req'[r] = q /\ \A s \in Request \ {r} : req'[s] = req[s]
  BY DEF Go, Noting
<1>2. QED BY <1>1 DEF Noting

Logs(r, e) == log' = [log EXCEPT ![r] = Append(@, e)]

LEMMA RecordNoting ==
    ASSUME Noting, NEW r \in Request, NEW q, Go(r, q), req[r].pc # "done",
           NEW e, Logs(r, e),
           DOMAIN q = DOMAIN Idle, q.pc = "done", q.who # None,
           e.hit <=> q.shown.how \in {"hit", "similar"},
           e.status = q.shown.status \/ (q.resp # None /\ (q.in.stream \/ q.shown.how = "error")),
           (q.resp # None /\ q.resp.status = 200) => e.who = q.resp.by
    PROVE  Noting'
<1>1. DOMAIN req' = Request /\ req'[r] = q /\ \A s \in Request \ {r} : req'[s] = req[s]
  BY DEF Go, Noting
<1>2. log[r] = <<>>
  BY DEF Noting, Noted
<1>3. DOMAIN log' = Request /\ log'[r] = Append(log[r], e) /\ \A s \in Request \ {r} : log'[s] = log[s]
  BY DEF Noting, Logs
<1>4. Append(<<>>, e) = <<e>> /\ Len(<<e>>) = 1 /\ <<e>>[1] = e
  OBVIOUS
<1>5. Agrees(q, <<e>>)
  BY <1>4 DEF Agrees
<1>6. Noted(q, <<e>>)
  BY <1>5 DEF Noted
<1>7. QED BY <1>1, <1>2, <1>3, <1>4, <1>6 DEF Noting

\* What a record holds, of a hit and of anything else.
LEMMA HitIs ==
    ASSUME NEW r, NEW status, NEW who, NEW rule, Record(r, status, who, TRUE, rule)
    PROVE  \E e : Logs(r, e) /\ e.status = status /\ e.who = who /\ e.hit
<1>1. PICK e : e = [status |-> status, who |-> who, hit |-> TRUE, rule |-> rule, redacted |-> req[r].redacted]
  OBVIOUS
<1>2. e.status = status /\ e.who = who /\ e.hit
  BY <1>1
<1>3. Logs(r, e)
  BY <1>1 DEF Record, Logs
<1>4. QED BY <1>2, <1>3

Misses(r, status, who, rule) == Record(r, status, who, FALSE, rule)

LEMMA MissIs ==
    ASSUME NEW r, NEW status, NEW who, NEW rule, Misses(r, status, who, rule)
    PROVE  \E e : Logs(r, e) /\ e.status = status /\ e.who = who /\ ~e.hit
<1>1. PICK e : e = [status |-> status, who |-> who, hit |-> FALSE, rule |-> rule, redacted |-> req[r].redacted]
  OBVIOUS
<1>2. e.status = status /\ e.who = who /\ ~e.hit
  BY <1>1
<1>3. Logs(r, e)
  BY <1>1 DEF Misses, Record, Logs
<1>4. QED BY <1>2, <1>3

LEMMA SomebodyIsNotNone ==
    /\ \A w \in Target : w # None
    /\ \A p \in Reply : p # None
  BY PipelineConstants

LEMMA ArriveNoting ==
    ASSUME Noting, NEW r \in Request, NEW in \in Arrivals, Arrive(r, in)
    PROVE  Noting'
<1> DEFINE who  == Route[in.model]
           body == [model |-> who.model, text |-> in.text, added |-> {}]
           gone == [Idle EXCEPT !.pc = "done", !.in = in, !.shown = Error(400)]
           on   == [Idle EXCEPT !.pc = IF in.track THEN "upstream" ELSE "jail",
                        !.in = in, !.who = who, !.bytes = body, !.parsed = body]
<1>1. Go(r, gone) \/ (who # None /\ Go(r, on))
  BY DEF Arrive
<1>2. log' = log /\ log[r] = <<>>
  BY DEF Arrive, Noting, Noted
<1>3. in.model \in DOMAIN Route
  BY PipelineConstants DEF Input
<1>4. who # None => who \in Target
  BY <1>3, PipelineConstants DEF Named
<1>5. Noted(gone, <<>>)
  BY IdleIs, IdleHas DEF Noted
<1>6. who # None => Noted(on, <<>>)
  BY <1>4, IdleIs, IdleHas DEF Noted, Known
<1>7. QED BY <1>1, <1>2, <1>5, <1>6, QuietNoting

LEMMA GateNoting == ASSUME Noting, NEW r \in Request, Gate(r) PROVE Noting'
<1>1. Noted(req[r], log[r]) /\ req[r].pc \in Gates
  BY DEF Noting, Gates, Gate, Classify, GuardInput, Rules, AutoBlock
<1>2. /\ DOMAIN req[r] = DOMAIN Idle /\ log[r] = <<>> /\ Known(req[r]) /\ req[r].resp = None
      /\ req[r].pc # "done"
  BY <1>1 DEF Noted, Gates
<1>3. req[r].who # None
  BY <1>2, SomebodyIsNotNone DEF Known
<1>4. ASSUME NEW q, DOMAIN q = DOMAIN Idle, q.pc \in Gates \cup {"redact"}, Known(q), q.resp = None,
             Go(r, q), log' = log
      PROVE  Noting'
  <2>1. Noted(q, <<>>)
    BY <1>4 DEF Noted, Gates
  <2>2. QED BY <1>2, <1>4, <2>1, QuietNoting
<1>5. ASSUME NEW q, NEW rule, DOMAIN q = DOMAIN Idle, q.pc = "done", q.who = req[r].who, q.resp = None,
             q.shown = Error(403), Go(r, q), Misses(r, 403, req[r].who, rule)
      PROVE  Noting'
  <2>1. PICK e : Logs(r, e) /\ e.status = 403 /\ ~e.hit
    BY <1>5, MissIs
  <2>2. q.shown.how = "error" /\ q.shown.status = 403
    BY <1>5 DEF Error
  <2>3. QED BY <1>2, <1>3, <1>5, <2>1, <2>2, RecordNoting
<1>6. CASE Classify(r)
  <2>1. PICK found : Go(r, [req[r] EXCEPT !.pc = "rails", !.jail = found])
    BY <1>6 DEF Classify
  <2>2. PICK q : q = [req[r] EXCEPT !.pc = "rails", !.jail = found]
    OBVIOUS
  <2>3. DOMAIN q = DOMAIN Idle /\ q.pc \in Gates /\ Known(q) /\ q.resp = None
    BY <2>2, <1>2, IdleIs DEF Known, Gates
  <2>4. QED BY <2>1, <2>2, <2>3, <1>4, <1>6 DEF Classify
<1>7. CASE GuardInput(r)
  <2>1. PICK found : Go(r, [req[r] EXCEPT !.pc = "rules", !.rails = found])
    BY <1>7 DEF GuardInput
  <2>2. PICK q : q = [req[r] EXCEPT !.pc = "rules", !.rails = found]
    OBVIOUS
  <2>3. DOMAIN q = DOMAIN Idle /\ q.pc \in Gates /\ Known(q) /\ q.resp = None
    BY <2>2, <1>2, IdleIs DEF Known, Gates
  <2>4. QED BY <2>1, <2>2, <2>3, <1>4, <1>7 DEF GuardInput
<1>8. CASE Rules(r)
  <2>1. PICK res \in Results : ApplyRule(r, res)
    BY <1>8 DEF Rules
  <2>2. PICK p : p = [req[r] EXCEPT !.rule = res.act]
    OBVIOUS
  <2>3. DOMAIN p = DOMAIN Idle /\ Known(p) /\ p.resp = None /\ p.who = req[r].who
    BY <2>2, <1>2, IdleIs DEF Known
  <2>4. CASE res.act = "block"
    <3>1. PICK q : q = [p EXCEPT !.pc = "done", !.shown = Error(403)]
      OBVIOUS
    <3>2. Go(r, q) /\ Misses(r, 403, req[r].who, res.act)
      BY <2>1, <2>2, <2>3, <2>4, <3>1 DEF ApplyRule, Misses
    <3>3. DOMAIN q = DOMAIN Idle /\ q.pc = "done" /\ q.who = req[r].who /\ q.resp = None /\ q.shown = Error(403)
      BY <3>1, <2>3, IdleIs
    <3>4. QED BY <3>2, <3>3, <1>5
  <2>5. CASE res.act = "prompt"
    <3>1. PICK b : b = [p.parsed EXCEPT !.added = @ \cup {"prompt"}]
      OBVIOUS
    <3>2. PICK q : q = Rewritten(p, b)
      OBVIOUS
    <3>3. Go(r, q) /\ log' = log
      BY <2>1, <2>2, <2>5, <3>1, <3>2 DEF ApplyRule
    <3>4. DOMAIN q = DOMAIN Idle /\ q.pc \in Gates /\ Known(q) /\ q.resp = None
      BY <3>2, <2>3, IdleIs DEF Known, Gates, Rewritten
    <3>5. QED BY <3>3, <3>4, <1>4
  <2>6. CASE res.act \in {"override", "chain"}
    <3>1. PICK w : w = [res.to[1] EXCEPT !.provider = IF res.act = "override" THEN p.who.provider ELSE @]
      OBVIOUS
    <3>2. PICK b : b = [p.parsed EXCEPT !.model = w.model]
      OBVIOUS
    <3>3. PICK q : q = Rewritten([p EXCEPT !.who = w, !.rest = Tail(res.to)], b)
      OBVIOUS
    <3>4. Go(r, q) /\ log' = log
      BY <2>1, <2>2, <2>6, <3>1, <3>2, <3>3 DEF ApplyRule
    <3>5. res.to \in Seq(Target) /\ Len(res.to) > 0
      BY <2>6, PipelineConstants
    <3>6. Tail(res.to) \in Seq(Target) /\ res.to[1] \in Target
      BY <3>5
    <3>7. \A k \in DOMAIN Tail(res.to) : Tail(res.to)[k] \in Target
      BY <3>6
    <3>8. w \in Target
      BY <3>1, <3>6, <2>3 DEF Known, Target
    <3>9. DOMAIN q = DOMAIN Idle /\ q.pc \in Gates /\ Known(q) /\ q.resp = None
      BY <3>3, <3>7, <3>8, <2>3, IdleIs DEF Known, Gates, Rewritten
    <3>10. QED BY <3>4, <3>9, <1>4
  <2>7. CASE res.act \notin {"block", "prompt", "override", "chain"}
    <3>1. PICK q : q = [p EXCEPT !.pc = "gate"]
      OBVIOUS
    <3>2. Go(r, q) /\ log' = log
      BY <2>1, <2>2, <2>7, <3>1 DEF ApplyRule
    <3>3. DOMAIN q = DOMAIN Idle /\ q.pc \in Gates /\ Known(q) /\ q.resp = None
      BY <3>1, <2>3, IdleIs DEF Known, Gates
    <3>4. QED BY <3>2, <3>3, <1>4
  <2>8. QED BY <2>4, <2>5, <2>6, <2>7
<1>9. CASE AutoBlock(r)
  <2>1. PICK stop : stop = [req[r] EXCEPT !.pc = "done", !.shown = Error(403)]
    OBVIOUS
  <2>2. PICK on : on = [req[r] EXCEPT !.pc = "redact"]
    OBVIOUS
  <2>3. \/ Go(r, stop) /\ Misses(r, 403, req[r].who, "none")
        \/ Go(r, on) /\ log' = log
    BY <1>9, <2>1, <2>2 DEF AutoBlock, Refuse, Misses
  <2>4. DOMAIN stop = DOMAIN Idle /\ stop.pc = "done" /\ stop.who = req[r].who /\ stop.resp = None /\ stop.shown = Error(403)
    BY <2>1, <1>2, IdleIs
  <2>5. DOMAIN on = DOMAIN Idle /\ on.pc = "redact" /\ Known(on) /\ on.resp = None
    BY <2>2, <1>2, IdleIs DEF Known
  <2>6. QED BY <2>3, <2>4, <2>5, <1>4, <1>5
<1>10. QED BY <1>6, <1>7, <1>8, <1>9 DEF Gate

LEMMA EditNoting == ASSUME Noting, NEW r \in Request, Edit(r) PROVE Noting'
<1>1. Noted(req[r], log[r]) /\ req[r].pc \in {"redact", "memory"} /\ log' = log
  BY DEF Noting, Edit, Redact, Memory
<1>2. DOMAIN req[r] = DOMAIN Idle /\ log[r] = <<>> /\ Known(req[r]) /\ req[r].resp = None
  BY <1>1 DEF Noted
<1>3. ASSUME NEW pc \in {"memory", "lookup"}, NEW b, NEW d, NEW p
      PROVE  Noted([req[r] EXCEPT !.pc = pc, !.bytes = b, !.redacted = d, !.parsed = p], log[r])
  BY <1>2, IdleIs DEF Noted, Known
<1>4. CASE Redact(r)
  <2>1. PICK b, d : Go(r, [req[r] EXCEPT !.pc = "memory", !.bytes = b, !.redacted = d])
    BY <1>4 DEF Redact
  <2>2. Noted([req[r] EXCEPT !.pc = "memory", !.bytes = b, !.redacted = d], log[r])
    BY <1>2, IdleIs DEF Noted, Known
  <2>3. QED BY <1>1, <2>1, <2>2, QuietNoting
<1>5. CASE Memory(r)
  <2>1. \/ \E b : Go(r, [req[r] EXCEPT !.pc = "lookup", !.parsed = b, !.bytes = b])
        \/ Go(r, [req[r] EXCEPT !.pc = "lookup"])
    BY <1>5 DEF Memory
  <2>2. ASSUME NEW b PROVE Noted([req[r] EXCEPT !.pc = "lookup", !.parsed = b, !.bytes = b], log[r])
    BY <1>2, IdleIs DEF Noted, Known
  <2>3. Noted([req[r] EXCEPT !.pc = "lookup"], log[r])
    BY <1>2, IdleIs DEF Noted, Known
  <2>4. QED BY <1>1, <2>1, <2>2, <2>3, QuietNoting
<1>6. QED BY <1>4, <1>5 DEF Edit

LEMMA LookupNoting == ASSUME Noting, NEW r \in Request, Lookup(r) PROVE Noting'
<1>1. Noted(req[r], log[r]) /\ req[r].pc \in {"lookup", "similar"}
  BY DEF Noting, Lookup, LookupCache, LookupSimilar
<1>2. DOMAIN req[r] = DOMAIN Idle /\ log[r] = <<>> /\ Known(req[r]) /\ req[r].resp = None
  BY <1>1 DEF Noted
<1>3. req[r].who # None
  BY <1>2, SomebodyIsNotNone DEF Known
<1>4. PICK q : q = [req[r] EXCEPT !.hash = HashOf(req[r])]
  OBVIOUS
<1>5. DOMAIN q = DOMAIN Idle /\ Known(q) /\ q.resp = None /\ q.who = req[r].who
  BY <1>2, <1>4, IdleIs DEF Known
<1>6. ASSUME NEW p, NEW h, NEW how \in {"hit", "similar"}, DOMAIN p = DOMAIN Idle, p.who # None, p.resp = None,
             Serve(r, p, h, how)
      PROVE  Noting'
  <2>1. PICK s : s = [how |-> how, status |-> cache[h].status, answer |-> cache[h]]
    OBVIOUS
  <2>2. PICK x : x = [p EXCEPT !.pc = "done", !.shown = s]
    OBVIOUS
  <2>3. Go(r, x) /\ Record(r, cache[h].status, p.who, TRUE, p.rule)
    BY <1>6, <2>1, <2>2 DEF Serve
  <2>4. DOMAIN x = DOMAIN Idle /\ x.pc = "done" /\ x.who # None /\ x.resp = None
        /\ x.shown.how \in {"hit", "similar"} /\ x.shown.status = cache[h].status
    BY <1>6, <2>1, <2>2, IdleIs
  <2>5. PICK e : Logs(r, e) /\ e.status = cache[h].status /\ e.hit
    BY <2>3, HitIs
  <2>6. QED BY <1>1, <2>3, <2>4, <2>5, RecordNoting
<1>7. /\ Noted([req[r] EXCEPT !.pc = "upstream"], log[r])
      /\ Noted([q EXCEPT !.pc = "similar"], log[r])
  BY <1>2, <1>5, IdleIs DEF Noted, Known
<1>8. CASE LookupCache(r)
  <2>1. \/ Go(r, [req[r] EXCEPT !.pc = "upstream"]) /\ log' = log
        \/ Go(r, [q EXCEPT !.pc = "similar"]) /\ log' = log
        \/ Serve(r, q, q.hash, "hit")
    BY <1>4, <1>8 DEF LookupCache
  <2>2. QED BY <2>1, <1>3, <1>5, <1>6, <1>7, QuietNoting
<1>9. CASE LookupSimilar(r)
  <2>1. \/ \E h : Serve(r, req[r], h, "similar")
        \/ Go(r, [req[r] EXCEPT !.pc = "upstream"]) /\ log' = log
    BY <1>9 DEF LookupSimilar
  <2>2. QED BY <2>1, <1>2, <1>3, <1>6, <1>7, QuietNoting
<1>10. QED BY <1>8, <1>9 DEF Lookup

\* A good response names who gave it.
LEMMA ResponsesName ==
    ASSUME NEW q, Known(q), NEW resp \in Responses(q)
    PROVE  resp \in Reply /\ (resp.status = 200 => resp.named = resp.by)
<1>1. Fallback \subseteq Target
  BY PipelineConstants DEF Named
<1>2. PICK w \in Target, s \in {200, 400}, n \in Target : resp = Response(w, s, n) /\ (s = 200 => n = w)
  BY <1>1 DEF Responses, Known
<1>3. QED BY <1>2 DEF Response, Reply

LEMMA UpstreamNoting == ASSUME Noting, NEW r \in Request, Upstream(r) PROVE Noting'
<1>1. Noted(req[r], log[r]) /\ req[r].pc = "upstream"
  BY DEF Noting, Upstream
<1>2. DOMAIN req[r] = DOMAIN Idle /\ log[r] = <<>> /\ Known(req[r]) /\ req[r].resp = None
  BY <1>1 DEF Noted
<1>3. req[r].who # None
  BY <1>2, SomebodyIsNotNone DEF Known
<1>4. PICK q : q = [req[r] EXCEPT !.sent = req[r].bytes]
  OBVIOUS
<1>5. DOMAIN q = DOMAIN Idle /\ Known(q) /\ q.resp = None /\ q.who # None
  BY <1>2, <1>3, <1>4, IdleIs DEF Known
<1>6. CASE Go(r, [q EXCEPT !.pc = "done", !.shown = Error(502)]) /\ Misses(r, 502, q.who, q.rule)
  <2>1. PICK x : x = [q EXCEPT !.pc = "done", !.shown = Error(502)]
    OBVIOUS
  <2>2. DOMAIN x = DOMAIN Idle /\ x.pc = "done" /\ x.who # None /\ x.resp = None
        /\ x.shown.how = "error" /\ x.shown.status = 502
    BY <2>1, <1>5, IdleIs DEF Error
  <2>3. PICK e : Logs(r, e) /\ e.status = 502 /\ ~e.hit
    BY <1>6, MissIs
  <2>4. Go(r, x)
    BY <1>6, <2>1
  <2>5. QED BY <1>1, <2>2, <2>3, <2>4, RecordNoting
<1>7. CASE (\E resp \in Responses(q) : Go(r, [q EXCEPT !.pc = "respond", !.resp = resp])) /\ log' = log
  <2>1. PICK resp \in Responses(q) : Go(r, [q EXCEPT !.pc = "respond", !.resp = resp])
    BY <1>7
  <2>2. resp \in Reply /\ (resp.status = 200 => resp.named = resp.by)
    BY <1>5, ResponsesName
  <2>3. Noted([q EXCEPT !.pc = "respond", !.resp = resp], <<>>)
    BY <1>5, <2>2, IdleIs DEF Noted, Known
  <2>4. QED BY <1>2, <1>7, <2>1, <2>3, QuietNoting
<1>8. QED BY <1>4, <1>6, <1>7 DEF Upstream, Misses

LEMMA AnswerNoting == ASSUME Noting, NEW r \in Request, Stream(r) \/ Respond(r) PROVE Noting'
<1>1. Noted(req[r], log[r]) /\ req[r].pc = "respond" /\ log' = log
  BY DEF Noting, Stream, Respond
<1>2. /\ DOMAIN req[r] = DOMAIN Idle /\ log[r] = <<>> /\ Known(req[r])
      /\ req[r].resp \in Reply /\ (req[r].resp.status = 200 => req[r].resp.named = req[r].resp.by)
  BY <1>1 DEF Noted
<1>3. ASSUME NEW s, NEW q, q = [req[r] EXCEPT !.pc = "conclude", !.shown = s], s.how \in {"live", "error"},
             s.status = req[r].resp.status \/ req[r].in.stream \/ s.how = "error"
      PROVE  Noted(q, <<>>)
  BY <1>2, <1>3, IdleIs DEF Noted, Known
<1>4. CASE Stream(r)
  <2>1. PICK s : s = [how |-> "live", status |-> 200,
                      answer |-> [from |-> r, status |-> req[r].resp.status, checked |-> FALSE]]
    OBVIOUS
  <2>2. PICK q : q = [req[r] EXCEPT !.pc = "conclude", !.shown = s]
    OBVIOUS
  <2>3. s.how = "live" /\ req[r].in.stream
    BY <1>4, <2>1 DEF Stream
  <2>4. Go(r, q)
    BY <1>4, <2>1, <2>2 DEF Stream
  <2>5. Noted(q, <<>>)
    BY <2>2, <2>3, <1>3
  <2>6. QED BY <2>4, <2>5, <1>1, <1>2, QuietNoting
<1>5. CASE Respond(r)
  <2>1. PICK a : a = [from |-> r, status |-> req[r].resp.status, checked |-> Gated(req[r])]
    OBVIOUS
  <2>2. PICK s : s = [how |-> "live", status |-> a.status, answer |-> a]
    OBVIOUS
  <2>3. PICK q : q = [req[r] EXCEPT !.pc = "conclude", !.shown = s]
    OBVIOUS
  <2>4. PICK p : p = [req[r] EXCEPT !.pc = "conclude", !.shown = Error(502)]
    OBVIOUS
  <2>5. s.how = "live" /\ s.status = req[r].resp.status
    BY <2>1, <2>2
  <2>6. Error(502).how = "error"
    BY DEF Error
  <2>7. Go(r, q) \/ Go(r, p)
    BY <1>5, <2>1, <2>2, <2>3, <2>4 DEF Respond
  <2>8. Noted(q, <<>>)
    BY <2>3, <2>5, <1>3
  <2>9. Noted(p, <<>>)
    BY <2>4, <2>6, <1>3
  <2>10. QED BY <2>7, <2>8, <2>9, <1>1, <1>2, QuietNoting
<1>6. QED BY <1>4, <1>5

LEMMA ConcludeNoting == ASSUME Noting, NEW r \in Request, Conclude(r) PROVE Noting'
<1>1. Noted(req[r], log[r]) /\ req[r].pc = "conclude"
  BY DEF Noting, Conclude
<1>2. /\ DOMAIN req[r] = DOMAIN Idle /\ Known(req[r])
      /\ req[r].resp \in Reply /\ (req[r].resp.status = 200 => req[r].resp.named = req[r].resp.by)
      /\ req[r].shown.how \in {"live", "error"}
      /\ req[r].shown.status = req[r].resp.status \/ req[r].in.stream \/ req[r].shown.how = "error"
  BY <1>1 DEF Noted
<1>3. req[r].who # None /\ req[r].resp # None
  BY <1>2, SomebodyIsNotNone DEF Known
<1>4. PICK q : q = [req[r] EXCEPT !.pc = "done"]
  OBVIOUS
<1>5. /\ DOMAIN q = DOMAIN Idle /\ q.pc = "done" /\ q.who = req[r].who /\ q.resp = req[r].resp
      /\ q.shown = req[r].shown /\ q.in = req[r].in
  BY <1>2, <1>4, IdleIs
<1>6. Go(r, q)
  BY <1>4 DEF Conclude
<1>7. PICK e : Logs(r, e) /\ e.status = req[r].resp.status /\ e.who = req[r].resp.named /\ ~e.hit
  <2>1. Misses(r, req[r].resp.status, req[r].resp.named, req[r].rule)
    BY DEF Conclude, Misses
  <2>2. QED BY <2>1, MissIs
<1>8. QED BY <1>1, <1>2, <1>3, <1>5, <1>6, <1>7, RecordNoting

LEMMA NextNoting == Noting /\ [Next]_vars => Noting'
<1> SUFFICES ASSUME Noting, [Next]_vars PROVE Noting'
  OBVIOUS
<1>1. ASSUME NEW r \in Request, \E in \in Arrivals : Arrive(r, in) PROVE Noting'
  BY <1>1, ArriveNoting
<1>2. ASSUME NEW r \in Request, Gate(r) \/ Edit(r) \/ Lookup(r) PROVE Noting'
  BY <1>2, GateNoting, EditNoting, LookupNoting
<1>3. ASSUME NEW r \in Request, Call(r) PROVE Noting'
  BY <1>3, UpstreamNoting, AnswerNoting, ConcludeNoting DEF Call
<1>4. ASSUME NEW h \in DOMAIN cache, Forget(h) PROVE Noting'
  BY <1>4 DEF Forget, Noting
<1>5. ASSUME NEW p \in pending, StoreVector(p) PROVE Noting'
  BY <1>5 DEF StoreVector, Noting
<1>6. CASE UNCHANGED vars
  BY <1>6 DEF vars, Noting
<1>7. QED BY <1>1, <1>2, <1>3, <1>4, <1>5, <1>6 DEF Next

\* There is one record of every request whose model is known, and it says what the
\* client saw and who answered (handler.go:1011), streams and broken answers apart.
THEOREM RecordsMatchAnswers == Spec => []RecordMatchesAnswer
<1>1. Noting => RecordMatchesAnswer
  BY DEF Noting, Noted, Agrees, RecordMatchesAnswer
<1>2. QED BY <1>1, InitNoting, NextNoting, PTL DEF Spec

-----------------------------------------------------------------------------
(* What is sent, redacted, hit *)

\* A body is for the model of whoever is asked.
Bodied(b, who) == b = [model |-> who.model, text |-> b.text, added |-> b.added]

Fresh == {"idle", "jail", "rails", "rules", "gate", "redact"}
Asking == {"upstream", "respond", "conclude", "done"}

\* A redacted body stays so until memory is added; what was sent is the body; who
\* has a hash is no stream and not metered, and the hash is still that of the body.
Carried(r, q) ==
    /\ DOMAIN q = DOMAIN Idle
    /\ q.pc \notin {"idle", "done"} => Known(q) /\ Bodied(q.bytes, q.who) /\ Bodied(q.parsed, q.who)
    /\ q.pc \in Fresh => ~q.redacted
    /\ q.redacted /\ "memory" \notin q.bytes.added => q.bytes.text # "pii"
    /\ q.sent \in {None, q.bytes}
    /\ q.pc \in Fresh \cup {"memory", "lookup", "similar", "upstream"} => q.sent = None
    /\ q.pc \in {"respond", "conclude"} => q.sent = q.bytes /\ q.resp # None
    /\ q.pc \in Fresh \cup {"memory", "lookup"} => q.hash = None
    /\ q.pc \in {"jail", "rails", "rules", "gate", "redact", "memory", "lookup", "similar"} => ~q.in.track
    /\ q.pc = "similar" => ~q.in.stream
    /\ q.hash # None =>
         q.hash = HashOf(q) /\ ~q.in.track /\ ~q.in.stream /\ Bodied(q.bytes, q.who)
    /\ q.pc \notin {"conclude", "done"} => q.shown = None
    /\ q.pc = "conclude" =>
         q.shown.how \in {"live", "error"} /\ (q.shown.how = "live" => q.shown.answer.from = r)

\* Hash h is that of a request that went upstream with the body it hashes.
Stands(s, h) ==
    /\ s \in Request /\ req[s].pc = "done"
    /\ h # None /\ req[s].hash = h /\ req[s].sent = req[s].bytes
\* Somebody with this hash was answered by w.
Stored(h, w) ==
    \E x \in Request : /\ req[x].pc = "done" /\ req[x].hash = h
                       /\ req[x].resp # None /\ req[x].resp.named = w

\* What a request was served is what stands under its hash, or under one that was
\* stored for whom it asks.
Served(q) ==
    (q.pc = "done" /\ q.shown.how \in {"hit", "similar"}) =>
        /\ ~q.in.track /\ ~q.in.stream
        /\ \E h : /\ Stands(q.shown.answer.from, h)
                  /\ q.shown.how = "hit" => q.hash = h
                  /\ q.shown.how = "similar" => Stored(h, q.who)

Learnt(f) == f.of \in Request /\ req[f.of].pc = "done" /\ f.text = req[f.of].bytes.text

Carrying ==
    /\ DOMAIN req = Request
    /\ \A r \in Request : Carried(r, req[r]) /\ Served(req[r])
    /\ \A h \in DOMAIN cache : Stands(cache[h].from, h)
    /\ \A p \in pending : Stored(p.hash, p.who)
    /\ \A h \in DOMAIN vectors : Stored(h, vectors[h])
    /\ \A f \in facts : Learnt(f)

LEMMA InitCarrying == Init => Carrying
<1> SUFFICES ASSUME Init PROVE Carrying
  OBVIOUS
<1>1. DOMAIN req = Request /\ \A r \in Request : req[r] = Idle
  BY DEF Init
<1>2. \A r \in Request : Carried(r, Idle) /\ Served(Idle)
  BY IdleIs, IdleHas DEF Carried, Served, Fresh
<1>3. DOMAIN cache = {} /\ DOMAIN vectors = {} /\ pending = {} /\ facts = {}
  BY DEF Init
<1>4. QED BY <1>1, <1>2, <1>3 DEF Carrying

\* What stands or is stored stays so, whatever step one request that is not over takes.
LEMMA StandsOn ==
    ASSUME Carrying, NEW r \in Request, NEW q, Go(r, q), req[r].pc # "done"
    PROVE  /\ \A s, h : Stands(s, h) => Stands(s, h)'
           /\ \A h, w : Stored(h, w) => Stored(h, w)'
           /\ \A f : Learnt(f) => Learnt(f)'
<1>1. \A s \in Request \ {r} : req'[s] = req[s]
  BY DEF Go, Carrying
<1>2. \A s \in Request : req[s].pc = "done" => req'[s] = req[s]
  BY <1>1
<1>3. \A s, h : Stands(s, h) => Stands(s, h)'
  BY <1>2 DEF Stands
<1>4. \A h, w : Stored(h, w) => Stored(h, w)'
  BY <1>2 DEF Stored
<1>5. \A f : Learnt(f) => Learnt(f)'
  BY <1>2 DEF Learnt
<1>6. QED BY <1>3, <1>4, <1>5

\* A request on its way.
LEMMA OnTheWay ==
    ASSUME Carrying, NEW r \in Request, NEW q, Go(r, q), req[r].pc # "done",
           Carried(r, q), Served(q), Elsewhere
    PROVE  Carrying'
<1>1. DOMAIN req' = Request /\ req'[r] = q /\ \A s \in Request \ {r} : req'[s] = req[s]
  BY DEF Go, Carrying
<1>2. /\ \A s, h : Stands(s, h) => Stands(s, h)'
      /\ \A h, w : Stored(h, w) => Stored(h, w)'
      /\ \A f : Learnt(f) => Learnt(f)'
  BY StandsOn
<1>3. ASSUME NEW s \in Request PROVE Carried(s, req[s])' /\ Served(req[s])'
  <2>1. Carried(s, req'[s]) /\ Served(req'[s])
    BY <1>1 DEF Carrying
  <2>2. Carried(s, req[s])'
    BY <2>1 DEF Carried, HashOf, Known, Bodied
  <2>3. Served(req[s])'
    BY <2>1, <1>2 DEF Served
  <2>4. QED BY <2>2, <2>3
<1>4. cache' = cache /\ pending' = pending /\ vectors' = vectors /\ facts' = facts
  BY DEF Elsewhere
<1>5. (\A h \in DOMAIN cache : Stands(cache[h].from, h))'
  BY <1>2, <1>4 DEF Carrying
<1>6. (\A p \in pending : Stored(p.hash, p.who))' /\ (\A h \in DOMAIN vectors : Stored(h, vectors[h]))'
  BY <1>2, <1>4 DEF Carrying
<1>7. (\A f \in facts : Learnt(f))'
  BY <1>2, <1>4 DEF Carrying
<1>8. QED BY <1>1, <1>3, <1>5, <1>6, <1>7 DEF Carrying

LEMMA ArriveCarrying ==
    ASSUME Carrying, NEW r \in Request, NEW in \in Arrivals, Arrive(r, in)
    PROVE  Carrying'
<1> DEFINE who == Route[in.model]
<1>1. in.model \in DOMAIN Route /\ in.track \in BOOLEAN
  BY PipelineConstants DEF Input
<1>2. who # None => who \in Target
  BY <1>1, PipelineConstants DEF Named
<1> HIDE DEF who
<1>3. PICK body : body = [model |-> who.model, text |-> in.text, added |-> {}]
  OBVIOUS
<1>4. Bodied(body, who)
  BY <1>3 DEF Bodied
<1>5. PICK gone : gone = [Idle EXCEPT !.pc = "done", !.in = in, !.shown = Error(400)]
  OBVIOUS
<1>6. PICK on : on = [Idle EXCEPT !.pc = IF in.track THEN "upstream" ELSE "jail",
                        !.in = in, !.who = who, !.bytes = body, !.parsed = body]
  OBVIOUS
<1>7. (Go(r, gone) \/ (who # None /\ Go(r, on))) /\ Elsewhere /\ req[r].pc # "done"
  BY <1>3, <1>5, <1>6 DEF Arrive, who
<1>8. /\ DOMAIN gone = DOMAIN Idle /\ gone.pc = "done" /\ gone.sent = None /\ ~gone.redacted /\ gone.hash = None
      /\ gone.shown = Error(400)
  BY <1>5, IdleIs, IdleHas
<1>9. Carried(r, gone) /\ Served(gone)
  BY <1>8 DEF Carried, Served, Fresh, Error
<1>10. /\ DOMAIN on = DOMAIN Idle /\ on.pc = (IF in.track THEN "upstream" ELSE "jail") /\ on.sent = None
       /\ ~on.redacted /\ on.hash = None /\ on.shown = None /\ on.who = who /\ on.bytes = body
       /\ on.parsed = body /\ on.in = in /\ on.rest = <<>>
  BY <1>6, IdleIs, IdleHas
<1>11. who # None => Known(on)
  BY <1>2, <1>10 DEF Known
<1>12. who # None => Carried(r, on)
  BY <1>1, <1>4, <1>10, <1>11 DEF Carried, Fresh
<1>13. Served(on)
  BY <1>1, <1>10 DEF Served
<1>14. QED BY <1>7, <1>9, <1>12, <1>13, OnTheWay

\* Through the gates nothing this is about changes but the bodies, together.
LEMMA GateCarrying == ASSUME Carrying, NEW r \in Request, Gate(r) PROVE Carrying'
<1>1. Carried(r, req[r]) /\ req[r].pc \in Gates /\ Elsewhere
  BY DEF Carrying, Gates, Gate, Classify, GuardInput, Rules, AutoBlock
<1>2. /\ DOMAIN req[r] = DOMAIN Idle /\ Known(req[r]) /\ req[r].pc # "done"
      /\ Bodied(req[r].bytes, req[r].who) /\ Bodied(req[r].parsed, req[r].who)
      /\ ~req[r].redacted /\ req[r].sent = None /\ req[r].hash = None /\ ~req[r].in.track /\ req[r].shown = None
  BY <1>1 DEF Carried, Gates, Fresh
<1> DEFINE Same(q) == /\ DOMAIN q = DOMAIN Idle /\ ~q.redacted /\ q.sent = None /\ q.hash = None /\ ~q.in.track
<1>3. ASSUME NEW q, Same(q), Go(r, q), q.pc \in Gates \cup {"redact"}, q.shown = None,
             Known(q), Bodied(q.bytes, q.who), Bodied(q.parsed, q.who)
      PROVE  Carrying'
  <2>1. Carried(r, q) /\ Served(q)
    BY <1>3 DEF Carried, Served, Gates, Fresh
  <2>2. QED BY <1>1, <1>2, <1>3, <2>1, OnTheWay
<1>4. ASSUME NEW q, Same(q), Go(r, q), q.pc = "done", q.shown = Error(403)
      PROVE  Carrying'
  <2>1. Carried(r, q) /\ Served(q)
    BY <1>4 DEF Carried, Served, Gates, Fresh, Error
  <2>2. QED BY <1>1, <1>2, <1>4, <2>1, OnTheWay
<1>5. CASE Classify(r)
  <2>1. PICK found : Go(r, [req[r] EXCEPT !.pc = "rails", !.jail = found])
    BY <1>5 DEF Classify
  <2>2. PICK q : q = [req[r] EXCEPT !.pc = "rails", !.jail = found]
    OBVIOUS
  <2>3. /\ Same(q) /\ q.pc \in Gates /\ q.shown = None
        /\ Known(q) /\ Bodied(q.bytes, q.who) /\ Bodied(q.parsed, q.who)
    BY <2>2, <1>2, IdleIs DEF Known, Gates
  <2>4. Go(r, q)
    BY <2>1, <2>2
  <2> HIDE DEF Same
  <2>5. QED BY <2>3, <2>4, <1>3
<1>6. CASE GuardInput(r)
  <2>1. PICK found : Go(r, [req[r] EXCEPT !.pc = "rules", !.rails = found])
    BY <1>6 DEF GuardInput
  <2>2. PICK q : q = [req[r] EXCEPT !.pc = "rules", !.rails = found]
    OBVIOUS
  <2>3. /\ Same(q) /\ q.pc \in Gates /\ q.shown = None
        /\ Known(q) /\ Bodied(q.bytes, q.who) /\ Bodied(q.parsed, q.who)
    BY <2>2, <1>2, IdleIs DEF Known, Gates
  <2>4. Go(r, q)
    BY <2>1, <2>2
  <2> HIDE DEF Same
  <2>5. QED BY <2>3, <2>4, <1>3
<1>7. CASE Rules(r)
  <2>1. PICK res \in Results : ApplyRule(r, res)
    BY <1>7 DEF Rules
  <2>2. PICK p : p = [req[r] EXCEPT !.rule = res.act]
    OBVIOUS
  <2>3. /\ Same(p) /\ p.shown = None /\ Known(p)
        /\ Bodied(p.bytes, p.who) /\ Bodied(p.parsed, p.who)
    BY <2>2, <1>2, IdleIs DEF Known
  <2>4. CASE res.act = "block"
    <3>1. PICK q : q = [p EXCEPT !.pc = "done", !.shown = Error(403)]
      OBVIOUS
    <3>2. Go(r, q)
      BY <2>1, <2>2, <2>4, <3>1 DEF ApplyRule
    <3>3. Same(q) /\ q.pc = "done" /\ q.shown = Error(403)
      BY <3>1, <2>3, IdleIs
    <3> HIDE DEF Same
    <3>4. QED BY <3>2, <3>3, <1>4
  <2>5. CASE res.act = "prompt"
    <3>1. PICK b : b = [p.parsed EXCEPT !.added = @ \cup {"prompt"}]
      OBVIOUS
    <3>2. PICK q : q = Rewritten(p, b)
      OBVIOUS
    <3>3. Go(r, q)
      BY <2>1, <2>2, <2>5, <3>1, <3>2 DEF ApplyRule
    <3>4. Bodied(b, p.who)
      BY <3>1, <2>3 DEF Bodied
    <3>5. /\ Same(q) /\ q.pc = "gate" /\ q.shown = None /\ Known(q)
          /\ q.bytes = b /\ q.parsed = b /\ q.who = p.who
      BY <3>2, <2>3, IdleIs DEF Known, Rewritten
    <3> HIDE DEF Same
    <3>6. QED BY <3>3, <3>4, <3>5, <1>3 DEF Gates
  <2>6. CASE res.act \in {"override", "chain"}
    <3>1. PICK w : w = [res.to[1] EXCEPT !.provider = IF res.act = "override" THEN p.who.provider ELSE @]
      OBVIOUS
    <3>2. PICK b : b = [p.parsed EXCEPT !.model = w.model]
      OBVIOUS
    <3>3. PICK q : q = Rewritten([p EXCEPT !.who = w, !.rest = Tail(res.to)], b)
      OBVIOUS
    <3>4. Go(r, q)
      BY <2>1, <2>2, <2>6, <3>1, <3>2, <3>3 DEF ApplyRule
    <3>5. res.to \in Seq(Target) /\ Len(res.to) > 0
      BY <2>6, PipelineConstants
    <3>6. Tail(res.to) \in Seq(Target) /\ res.to[1] \in Target
      BY <3>5
    <3>7. \A k \in DOMAIN Tail(res.to) : Tail(res.to)[k] \in Target
      BY <3>6
    <3>8. w \in Target
      BY <3>1, <3>6, <2>3 DEF Known, Target
    <3>9. Bodied(b, w)
      BY <3>2, <2>3 DEF Bodied
    <3>10. /\ Same(q) /\ q.pc = "gate" /\ q.shown = None
           /\ q.bytes = b /\ q.parsed = b /\ q.who = w /\ q.rest = Tail(res.to)
      BY <3>3, <2>3, IdleIs DEF Rewritten
    <3>11. Known(q)
      BY <3>7, <3>8, <3>10 DEF Known
    <3> HIDE DEF Same
    <3>12. QED BY <3>4, <3>9, <3>10, <3>11, <1>3 DEF Gates
  <2>7. CASE res.act \notin {"block", "prompt", "override", "chain"}
    <3>1. PICK q : q = [p EXCEPT !.pc = "gate"]
      OBVIOUS
    <3>2. Go(r, q)
      BY <2>1, <2>2, <2>7, <3>1 DEF ApplyRule
    <3>3. /\ Same(q) /\ q.pc = "gate" /\ q.shown = None /\ Known(q)
          /\ Bodied(q.bytes, q.who) /\ Bodied(q.parsed, q.who)
      BY <3>1, <2>3, IdleIs DEF Known
    <3> HIDE DEF Same
    <3>4. QED BY <3>2, <3>3, <1>3 DEF Gates
  <2>8. QED BY <2>4, <2>5, <2>6, <2>7
<1>8. CASE AutoBlock(r)
  <2>1. PICK stop : stop = [req[r] EXCEPT !.pc = "done", !.shown = Error(403)]
    OBVIOUS
  <2>2. PICK on : on = [req[r] EXCEPT !.pc = "redact"]
    OBVIOUS
  <2>3. Go(r, stop) \/ Go(r, on)
    BY <1>8, <2>1, <2>2 DEF AutoBlock, Refuse
  <2>4. Same(stop) /\ stop.pc = "done" /\ stop.shown = Error(403)
    BY <2>1, <1>2, IdleIs
  <2>5. /\ Same(on) /\ on.pc = "redact" /\ on.shown = None /\ Known(on)
        /\ Bodied(on.bytes, on.who) /\ Bodied(on.parsed, on.who)
    BY <2>2, <1>2, IdleIs DEF Known
  <2> HIDE DEF Same
  <2>6. QED BY <2>3, <2>4, <2>5, <1>3, <1>4
<1>9. QED BY <1>5, <1>6, <1>7, <1>8 DEF Gate

\* Redaction leaves no such text in the bytes; memory marshals the parsed form
\* again, and says so in what was added.
LEMMA EditCarrying == ASSUME Carrying, NEW r \in Request, Edit(r) PROVE Carrying'
<1>1. Carried(r, req[r]) /\ req[r].pc \in {"redact", "memory"} /\ Elsewhere
  BY DEF Carrying, Edit, Redact, Memory
<1>2. /\ DOMAIN req[r] = DOMAIN Idle /\ Known(req[r]) /\ req[r].pc # "done"
      /\ Bodied(req[r].bytes, req[r].who) /\ Bodied(req[r].parsed, req[r].who)
      /\ req[r].sent = None /\ req[r].hash = None /\ ~req[r].in.track /\ req[r].shown = None
      /\ req[r].redacted /\ "memory" \notin req[r].bytes.added => req[r].bytes.text # "pii"
  BY <1>1 DEF Carried, Fresh
<1>3. ASSUME NEW q, Go(r, q), DOMAIN q = DOMAIN Idle, q.pc \in {"memory", "lookup"}, Known(q),
             Bodied(q.bytes, q.who), Bodied(q.parsed, q.who), q.sent = None, q.hash = None, ~q.in.track,
             q.shown = None, q.redacted /\ "memory" \notin q.bytes.added => q.bytes.text # "pii"
      PROVE  Carrying'
  <2>1. Carried(r, q) /\ Served(q)
    BY <1>3 DEF Carried, Served, Fresh
  <2>2. QED BY <1>1, <1>2, <1>3, <2>1, OnTheWay
<1>4. CASE Redact(r)
  <2>1. PICK b \in {req[r].bytes, Redacted(req[r].bytes)} :
          Go(r, [req[r] EXCEPT !.pc = "memory", !.bytes = b, !.redacted = (b # req[r].bytes)])
    BY <1>4 DEF Redact
  <2>2. Bodied(b, req[r].who) /\ (b # req[r].bytes => b.text # "pii")
    BY <2>1, <1>2 DEF Redacted, Bodied
  <2>3. PICK q : q = [req[r] EXCEPT !.pc = "memory", !.bytes = b, !.redacted = (b # req[r].bytes)]
    OBVIOUS
  <2>4. /\ DOMAIN q = DOMAIN Idle /\ q.pc = "memory" /\ q.bytes = b /\ q.parsed = req[r].parsed
        /\ q.who = req[r].who /\ q.sent = None /\ q.hash = None /\ q.in = req[r].in /\ q.shown = None
        /\ q.redacted => b # req[r].bytes
    BY <2>3, <1>2, IdleIs
  <2>5. Known(q)
    BY <2>3, <1>2, IdleIs DEF Known
  <2>6. Go(r, q)
    BY <2>1, <2>3
  <2>7. QED BY <1>2, <2>2, <2>4, <2>5, <2>6, <1>3
<1>5. CASE Memory(r)
  <2>1. PICK b : b = [req[r].parsed EXCEPT !.added = @ \cup {"memory"}]
    OBVIOUS
  <2>2. Bodied(b, req[r].who) /\ "memory" \in b.added
    BY <2>1, <1>2 DEF Bodied
  <2>3. PICK q : q = [req[r] EXCEPT !.pc = "lookup", !.parsed = b, !.bytes = b]
    OBVIOUS
  <2>4. PICK p : p = [req[r] EXCEPT !.pc = "lookup"]
    OBVIOUS
  <2>5. Go(r, q) \/ Go(r, p)
    BY <1>5, <2>1, <2>3, <2>4 DEF Memory
  <2>6. /\ DOMAIN q = DOMAIN Idle /\ q.pc = "lookup" /\ q.bytes = b /\ q.parsed = b
        /\ q.who = req[r].who /\ q.sent = None /\ q.hash = None /\ q.in = req[r].in /\ q.shown = None
        /\ Known(q)
    BY <2>3, <1>2, IdleIs DEF Known
  <2>7. /\ DOMAIN p = DOMAIN Idle /\ p.pc = "lookup" /\ p.bytes = req[r].bytes /\ p.parsed = req[r].parsed
        /\ p.who = req[r].who /\ p.sent = None /\ p.hash = None /\ p.in = req[r].in /\ p.shown = None
        /\ Known(p) /\ p.redacted = req[r].redacted
    BY <2>4, <1>2, IdleIs DEF Known
  <2>8. QED BY <1>2, <2>2, <2>5, <2>6, <2>7, <1>3
<1>6. QED BY <1>4, <1>5 DEF Edit

\* A hit stands under this request's own hash; a similar answer stands under a hash
\* that a vector of the provider and model asked is filed by.
LEMMA LookupCarrying == ASSUME Carrying, NEW r \in Request, Lookup(r) PROVE Carrying'
<1>1. Carried(r, req[r]) /\ req[r].pc \in {"lookup", "similar"} /\ Elsewhere
  BY DEF Carrying, Lookup, LookupCache, LookupSimilar
<1>2. /\ DOMAIN req[r] = DOMAIN Idle /\ Known(req[r]) /\ req[r].pc # "done"
      /\ Bodied(req[r].bytes, req[r].who) /\ Bodied(req[r].parsed, req[r].who)
      /\ req[r].sent = None /\ ~req[r].in.track /\ req[r].shown = None
      /\ req[r].redacted /\ "memory" \notin req[r].bytes.added => req[r].bytes.text # "pii"
  BY <1>1 DEF Carried, Fresh
<1> DEFINE Same(q) == /\ DOMAIN q = DOMAIN Idle /\ q.sent = None /\ q.in = req[r].in
                      /\ q.bytes = req[r].bytes /\ q.parsed = req[r].parsed /\ q.who = req[r].who
                      /\ q.rest = req[r].rest /\ q.redacted = req[r].redacted
           Hashed(q) == q.hash # None => q.hash = HashOf(req[r]) /\ ~q.in.stream
<1>3. ASSUME NEW q, Same(q), Hashed(q), Go(r, q), q.pc \in {"similar", "upstream"}, q.shown = None,
             q.pc = "similar" => ~q.in.stream
      PROVE  Carrying'
  <2>1. Known(q) /\ HashOf(q) = HashOf(req[r])
    BY <1>2, <1>3 DEF Known, HashOf
  <2>2. Carried(r, q) /\ Served(q)
    BY <1>2, <1>3, <2>1 DEF Carried, Served, Fresh
  <2>3. QED BY <1>1, <1>2, <1>3, <2>2, OnTheWay
<1>4. ASSUME NEW q, Same(q), Hashed(q), Go(r, q), q.pc = "done", ~q.in.stream, NEW h \in DOMAIN cache,
             q.shown.how \in {"hit", "similar"}, q.shown.answer = cache[h],
             q.shown.how = "hit" => q.hash = h,
             q.shown.how = "similar" => Stored(h, q.who)
      PROVE  Carrying'
  <2>1. HashOf(q) = HashOf(req[r])
    BY <1>4 DEF HashOf
  <2>2. Carried(r, q)
    BY <1>2, <1>4, <2>1 DEF Carried, Fresh
  <2>3. Stands(cache[h].from, h)
    BY DEF Carrying
  <2>4. Served(q)
    BY <1>2, <1>4, <2>3 DEF Served
  <2>5. QED BY <1>1, <1>2, <1>4, <2>2, <2>4, OnTheWay
<1>5. CASE LookupCache(r)
  <2>1. PICK q : q = [req[r] EXCEPT !.hash = HashOf(req[r])]
    OBVIOUS
  <2>2. PICK miss : miss = [q EXCEPT !.pc = "similar"]
    OBVIOUS
  <2>3. PICK by : by = [req[r] EXCEPT !.pc = "upstream"]
    OBVIOUS
  <2>4. PICK s : s = [how |-> "hit", status |-> cache[q.hash].status, answer |-> cache[q.hash]]
    OBVIOUS
  <2>5. PICK hit : hit = [q EXCEPT !.pc = "done", !.shown = s]
    OBVIOUS
  <2>6. \/ Go(r, by)
        \/ ~req[r].in.stream /\ Go(r, miss)
        \/ ~req[r].in.stream /\ q.hash \in DOMAIN cache /\ Go(r, hit)
    BY <1>5, <2>1, <2>2, <2>3, <2>4, <2>5 DEF LookupCache, Serve
  <2>7. req[r].hash = None
    BY <1>1, <1>5 DEF Carried, LookupCache
  <2>8. DOMAIN q = DOMAIN Idle /\ q.hash = HashOf(req[r]) /\ Same(q) /\ q.shown = None
    BY <2>1, <1>2, IdleIs
  <2>9. Same(by) /\ by.hash = None /\ by.pc = "upstream" /\ by.shown = None
    BY <2>3, <2>7, <1>2, IdleIs
  <2>10. Same(miss) /\ miss.hash = HashOf(req[r]) /\ miss.pc = "similar" /\ miss.shown = None
    BY <2>2, <2>8, IdleIs
  <2>11. /\ Same(hit) /\ hit.hash = q.hash /\ hit.hash = HashOf(req[r]) /\ hit.pc = "done"
         /\ hit.shown.how = "hit" /\ hit.shown.answer = cache[q.hash] /\ hit.in = req[r].in
    BY <2>4, <2>5, <2>8, IdleIs
  <2>12. CASE Go(r, by)
    <3>1. Hashed(by)
      BY <2>9
    <3> HIDE DEF Same, Hashed
    <3>2. QED BY <2>9, <2>12, <3>1, <1>3
  <2>13. CASE ~req[r].in.stream /\ Go(r, miss)
    <3>1. Hashed(miss) /\ ~miss.in.stream
      BY <2>10, <2>13
    <3> HIDE DEF Same, Hashed
    <3>2. QED BY <2>10, <2>13, <3>1, <1>3
  <2>14. CASE ~req[r].in.stream /\ q.hash \in DOMAIN cache /\ Go(r, hit)
    <3>1. Hashed(hit) /\ ~hit.in.stream
      BY <2>11, <2>14
    <3> HIDE DEF Same, Hashed
    <3>2. QED BY <2>11, <2>14, <3>1, <1>4
  <2>15. QED BY <2>6, <2>12, <2>13, <2>14
<1>6. CASE LookupSimilar(r)
  <2>1. ~req[r].in.stream /\ req[r].hash # None => req[r].hash = HashOf(req[r])
    BY <1>1, <1>6 DEF Carried, LookupSimilar
  <2>2. ~req[r].in.stream
    BY <1>1, <1>6 DEF Carried, LookupSimilar
  <2>3. CASE Go(r, [req[r] EXCEPT !.pc = "upstream"])
    <3>1. PICK q : q = [req[r] EXCEPT !.pc = "upstream"]
      OBVIOUS
    <3>2. Same(q) /\ q.hash = req[r].hash /\ q.pc = "upstream" /\ q.shown = None
      BY <3>1, <1>2, IdleIs
    <3>3. Hashed(q)
      BY <3>2, <2>1, <2>2
    <3>4. Go(r, q)
      BY <2>3, <3>1
    <3> HIDE DEF Same, Hashed
    <3>5. QED BY <3>2, <3>3, <3>4, <1>3
  <2>4. CASE \E h \in Similar(req[r].who) \cap DOMAIN cache : Serve(r, req[r], h, "similar")
    <3>1. PICK h \in Similar(req[r].who) \cap DOMAIN cache : Serve(r, req[r], h, "similar")
      BY <2>4
    <3>2. PICK s : s = [how |-> "similar", status |-> cache[h].status, answer |-> cache[h]]
      OBVIOUS
    <3>3. PICK q : q = [req[r] EXCEPT !.pc = "done", !.shown = s]
      OBVIOUS
    <3>4. Go(r, q)
      BY <3>1, <3>2, <3>3 DEF Serve
    <3>5. /\ Same(q) /\ q.hash = req[r].hash /\ q.pc = "done"
          /\ q.shown.how = "similar" /\ q.shown.answer = cache[h]
      BY <3>2, <3>3, <1>2, IdleIs
    <3>6. Hashed(q) /\ ~q.in.stream
      BY <3>5, <2>1, <2>2
    <3>7. h \in DOMAIN cache /\ h \in DOMAIN vectors /\ vectors[h] = req[r].who
      BY <3>1 DEF Similar
    <3>8. Stored(h, req[r].who)
      BY <3>7 DEF Carrying
    <3>9. Stored(h, q.who)
      BY <3>5, <3>8
    <3> HIDE DEF Same, Hashed
    <3>10. QED BY <3>4, <3>5, <3>6, <3>7, <3>9, <1>4
  <2>5. QED BY <1>6, <2>3, <2>4 DEF LookupSimilar
<1>7. QED BY <1>5, <1>6 DEF Lookup

LEMMA UpstreamCarrying == ASSUME Carrying, NEW r \in Request, Upstream(r) PROVE Carrying'
<1>1. Carried(r, req[r]) /\ req[r].pc = "upstream" /\ Elsewhere
  BY DEF Carrying, Upstream
<1>2. /\ DOMAIN req[r] = DOMAIN Idle /\ Known(req[r])
      /\ Bodied(req[r].bytes, req[r].who) /\ Bodied(req[r].parsed, req[r].who) /\ req[r].shown = None
      /\ req[r].redacted /\ "memory" \notin req[r].bytes.added => req[r].bytes.text # "pii"
      /\ req[r].hash # None => req[r].hash = HashOf(req[r]) /\ ~req[r].in.track /\ ~req[r].in.stream
  BY <1>1 DEF Carried
<1>3. PICK p : p = [req[r] EXCEPT !.sent = req[r].bytes]
  OBVIOUS
<1> DEFINE Same(q) == /\ DOMAIN q = DOMAIN Idle /\ q.sent = q.bytes /\ q.in = req[r].in
                      /\ q.bytes = req[r].bytes /\ q.parsed = req[r].parsed /\ q.who = req[r].who
                      /\ q.rest = req[r].rest /\ q.redacted = req[r].redacted /\ q.hash = req[r].hash
<1>4. Same(p) /\ Known(p) /\ p.shown = None
  BY <1>2, <1>3, IdleIs DEF Known
<1>5. ASSUME NEW q, Same(q), Go(r, q),
             \/ q.pc = "done" /\ q.shown.how = "error"
             \/ q.pc = "respond" /\ q.shown = None /\ q.resp # None
      PROVE  Carrying'
  <2>1. Known(q) /\ HashOf(q) = HashOf(req[r])
    BY <1>2, <1>5 DEF Known, HashOf
  <2>2. Carried(r, q) /\ Served(q)
    BY <1>2, <1>5, <2>1 DEF Carried, Served, Fresh
  <2>3. QED BY <1>1, <1>5, <2>2, OnTheWay
<1>6. CASE Go(r, [p EXCEPT !.pc = "done", !.shown = Error(502)])
  <2>1. PICK q : q = [p EXCEPT !.pc = "done", !.shown = Error(502)]
    OBVIOUS
  <2>2. Same(q) /\ q.pc = "done" /\ q.shown = Error(502)
    BY <2>1, <1>4, IdleIs
  <2>3. q.shown.how = "error"
    BY <2>2 DEF Error
  <2>4. Go(r, q)
    BY <1>6, <2>1
  <2> HIDE DEF Same
  <2>5. QED BY <2>2, <2>3, <2>4, <1>5
<1>7. CASE \E resp \in Responses(p) : Go(r, [p EXCEPT !.pc = "respond", !.resp = resp])
  <2>1. PICK resp \in Responses(p) : Go(r, [p EXCEPT !.pc = "respond", !.resp = resp])
    BY <1>7
  <2>2. resp # None
    BY <1>4, ResponsesName, SomebodyIsNotNone
  <2>3. PICK q : q = [p EXCEPT !.pc = "respond", !.resp = resp]
    OBVIOUS
  <2>4. Same(q) /\ q.pc = "respond" /\ q.shown = None /\ q.resp # None
    BY <2>2, <2>3, <1>4, IdleIs
  <2>5. Go(r, q)
    BY <2>1, <2>3
  <2> HIDE DEF Same
  <2>6. QED BY <2>4, <2>5, <1>5
<1>8. QED BY <1>3, <1>6, <1>7 DEF Upstream

LEMMA AnswerCarrying == ASSUME Carrying, NEW r \in Request, Stream(r) \/ Respond(r) PROVE Carrying'
<1>1. Carried(r, req[r]) /\ req[r].pc = "respond" /\ Elsewhere
  BY DEF Carrying, Stream, Respond
<1>2. /\ DOMAIN req[r] = DOMAIN Idle /\ Known(req[r]) /\ req[r].sent = req[r].bytes /\ req[r].resp # None
      /\ Bodied(req[r].bytes, req[r].who) /\ Bodied(req[r].parsed, req[r].who)
      /\ req[r].redacted /\ "memory" \notin req[r].bytes.added => req[r].bytes.text # "pii"
      /\ req[r].hash # None => req[r].hash = HashOf(req[r]) /\ ~req[r].in.track /\ ~req[r].in.stream
  BY <1>1 DEF Carried
<1>3. ASSUME NEW s, NEW q, q = [req[r] EXCEPT !.pc = "conclude", !.shown = s], Go(r, q),
             s.how \in {"live", "error"}, s.how = "live" => s.answer.from = r
      PROVE  Carrying'
  <2>1. /\ DOMAIN q = DOMAIN Idle /\ q.pc = "conclude" /\ q.shown = s /\ q.sent = q.bytes /\ q.in = req[r].in
        /\ q.bytes = req[r].bytes /\ q.parsed = req[r].parsed /\ q.who = req[r].who
        /\ q.rest = req[r].rest /\ q.redacted = req[r].redacted /\ q.hash = req[r].hash /\ q.resp # None
    BY <1>2, <1>3, IdleIs
  <2>2. Known(q) /\ HashOf(q) = HashOf(req[r])
    BY <1>2, <2>1 DEF Known, HashOf
  <2>3. Carried(r, q) /\ Served(q)
    BY <1>2, <1>3, <2>1, <2>2 DEF Carried, Served, Fresh
  <2>4. QED BY <1>1, <1>3, <2>3, OnTheWay
<1>4. CASE Stream(r)
  <2>1. PICK a : a = [from |-> r, status |-> req[r].resp.status, checked |-> FALSE]
    OBVIOUS
  <2>2. PICK s : s = [how |-> "live", status |-> 200, answer |-> a]
    OBVIOUS
  <2>3. PICK q : q = [req[r] EXCEPT !.pc = "conclude", !.shown = s]
    OBVIOUS
  <2>4. s.how = "live" /\ s.answer.from = r
    BY <2>1, <2>2
  <2>5. Go(r, q)
    BY <1>4, <2>1, <2>2, <2>3 DEF Stream
  <2>6. QED BY <2>3, <2>4, <2>5, <1>3
<1>5. CASE Respond(r)
  <2>1. PICK a : a = [from |-> r, status |-> req[r].resp.status, checked |-> Gated(req[r])]
    OBVIOUS
  <2>2. PICK s : s = [how |-> "live", status |-> a.status, answer |-> a]
    OBVIOUS
  <2>3. PICK q : q = [req[r] EXCEPT !.pc = "conclude", !.shown = s]
    OBVIOUS
  <2>4. PICK p : p = [req[r] EXCEPT !.pc = "conclude", !.shown = Error(502)]
    OBVIOUS
  <2>5. s.how = "live" /\ s.answer.from = r
    BY <2>1, <2>2
  <2>6. Error(502).how = "error"
    BY DEF Error
  <2>7. Go(r, q) \/ Go(r, p)
    BY <1>5, <2>1, <2>2, <2>3, <2>4 DEF Respond
  <2>8. QED BY <2>3, <2>4, <2>5, <2>6, <2>7, <1>3
<1>6. QED BY <1>4, <1>5

\* The end of a request: from now on it stands under its hash, and its vector and
\* what was learnt of it are on record.
LEMMA ConcludeCarrying == ASSUME Carrying, NEW r \in Request, Conclude(r) PROVE Carrying'
<1>1. Carried(r, req[r]) /\ req[r].pc = "conclude" /\ vectors' = vectors
  BY DEF Carrying, Conclude
<1>2. /\ DOMAIN req[r] = DOMAIN Idle /\ req[r].sent = req[r].bytes /\ req[r].resp # None
      /\ Bodied(req[r].bytes, req[r].who) /\ req[r].shown.how \in {"live", "error"}
      /\ req[r].shown.how = "live" => req[r].shown.answer.from = r
      /\ req[r].redacted /\ "memory" \notin req[r].bytes.added => req[r].bytes.text # "pii"
      /\ req[r].hash # None => req[r].hash = HashOf(req[r]) /\ ~req[r].in.track /\ ~req[r].in.stream
  BY <1>1 DEF Carried
<1>3. PICK q : q = [req[r] EXCEPT !.pc = "done"]
  OBVIOUS
<1>4. Go(r, q)
  BY <1>3 DEF Conclude
<1>5. /\ DOMAIN q = DOMAIN Idle /\ q.pc = "done" /\ q.shown = req[r].shown /\ q.sent = q.bytes
      /\ q.in = req[r].in /\ q.bytes = req[r].bytes /\ q.who = req[r].who /\ q.redacted = req[r].redacted
      /\ q.hash = req[r].hash /\ q.resp = req[r].resp
  BY <1>2, <1>3, IdleIs
<1>6. Carried(r, q) /\ Served(q)
  <2>1. HashOf(q) = HashOf(req[r])
    BY <1>5 DEF HashOf
  <2>2. QED BY <1>2, <1>5, <2>1 DEF Carried, Served, Fresh
<1>7. DOMAIN req' = Request /\ req'[r] = q /\ \A s \in Request \ {r} : req'[s] = req[s]
  BY <1>4 DEF Go, Carrying
<1>8. /\ \A s, h : Stands(s, h) => Stands(s, h)'
      /\ \A h, w : Stored(h, w) => Stored(h, w)'
      /\ \A f : Learnt(f) => Learnt(f)'
  BY <1>1, <1>4, StandsOn
<1>9. ASSUME NEW s \in Request PROVE Carried(s, req[s])' /\ Served(req[s])'
  <2>1. Carried(s, req'[s]) /\ Served(req'[s])
    BY <1>6, <1>7 DEF Carrying
  <2>2. Carried(s, req[s])'
    BY <2>1 DEF Carried, HashOf, Known, Bodied
  <2>3. Served(req[s])'
    BY <2>1, <1>8 DEF Served
  <2>4. QED BY <2>2, <2>3
<1>10. \/ cache' = cache /\ pending' = pending
       \/ /\ req[r].shown.how = "live" /\ req[r].hash # None
          /\ cache' = [g \in DOMAIN cache \cup {req[r].hash} |->
                         IF g = req[r].hash THEN req[r].shown.answer ELSE cache[g]]
          /\ pending' = pending \cup {[hash |-> req[r].hash, who |-> req[r].resp.named]}
  BY DEF Conclude, Keep
<1>11. ASSUME NEW h \in DOMAIN cache' PROVE Stands(cache[h].from, h)'
  <2>1. CASE h \in DOMAIN cache /\ cache'[h] = cache[h]
    BY <2>1, <1>8 DEF Carrying
  <2>2. CASE req[r].shown.how = "live" /\ req[r].hash # None /\ h = req[r].hash /\ cache'[h] = req[r].shown.answer
    <3>1. cache'[h].from = r
      BY <2>2, <1>2
    <3>2. req'[r].pc = "done" /\ req'[r].hash = h /\ req'[r].sent = req'[r].bytes
      BY <2>2, <1>5, <1>7
    <3>3. QED BY <2>2, <3>1, <3>2 DEF Stands
  <2>3. QED BY <1>10, <1>11, <2>1, <2>2
<1>12. ASSUME NEW p \in pending' PROVE Stored(p.hash, p.who)'
  <2>1. CASE p \in pending
    BY <2>1, <1>8 DEF Carrying
  <2>2. CASE p = [hash |-> req[r].hash, who |-> req[r].resp.named]
    <3>1. p.hash = req[r].hash /\ p.who = req[r].resp.named
      BY <2>2
    <3>2. req'[r].pc = "done" /\ req'[r].hash = p.hash /\ req'[r].resp # None /\ req'[r].resp.named = p.who
      BY <3>1, <1>2, <1>5, <1>7
    <3>3. QED BY <3>2 DEF Stored
  <2>3. QED BY <1>10, <1>12, <2>1, <2>2
<1>13. (\A h \in DOMAIN vectors : Stored(h, vectors[h]))'
  BY <1>1, <1>8 DEF Carrying
<1>14. ASSUME NEW f \in facts' PROVE Learnt(f)'
  <2>1. CASE f \in facts
    BY <2>1, <1>8 DEF Carrying
  <2>2. CASE f = [of |-> r, text |-> req[r].bytes.text]
    <3>1. f.of = r /\ f.text = req[r].bytes.text
      BY <2>2
    <3>2. QED BY <3>1, <1>5, <1>7 DEF Learnt
  <2>3. facts' = facts \/ facts' = facts \cup {[of |-> r, text |-> req[r].bytes.text]}
    BY DEF Conclude
  <2>4. QED BY <1>14, <2>1, <2>2, <2>3
<1>15. QED BY <1>7, <1>9, <1>11, <1>12, <1>13, <1>14 DEF Carrying

\* Nothing that is said of requests depends on the caches.
LEMMA ForgetCarrying == ASSUME Carrying, NEW h \in DOMAIN cache, Forget(h) PROVE Carrying'
<1>1. req' = req /\ pending' = pending /\ vectors' = vectors /\ facts' = facts
      /\ cache' = [g \in DOMAIN cache \ {h} |-> cache[g]]
  BY DEF Forget
<1>2. \A g \in DOMAIN cache' : g \in DOMAIN cache /\ cache'[g] = cache[g]
  BY <1>1
<1>3. QED BY <1>1, <1>2 DEF Carrying, Carried, Served, Stands, Stored, Learnt, HashOf, Known, Bodied

LEMMA StoreVectorCarrying == ASSUME Carrying, NEW p \in pending, StoreVector(p) PROVE Carrying'
<1>1. /\ req' = req /\ pending' \subseteq pending /\ cache' = cache /\ facts' = facts
      /\ vectors' = [h \in DOMAIN vectors \cup {p.hash} |-> IF h = p.hash THEN p.who ELSE vectors[h]]
  BY DEF StoreVector
<1>2. /\ \A s, h : Stands(s, h) <=> Stands(s, h)'
      /\ \A h, w : Stored(h, w) <=> Stored(h, w)'
      /\ \A f : Learnt(f) <=> Learnt(f)'
  BY <1>1 DEF Stands, Stored, Learnt
<1>3. Stored(p.hash, p.who)
  BY DEF Carrying
<1>4. ASSUME NEW h \in DOMAIN vectors' PROVE Stored(h, vectors[h])'
  <2>1. CASE h = p.hash
    BY <1>1, <1>2, <1>3, <2>1
  <2>2. CASE h # p.hash
    <3>1. h \in DOMAIN vectors /\ vectors'[h] = vectors[h]
      BY <1>1, <2>2
    <3>2. QED BY <1>2, <3>1 DEF Carrying
  <2>3. QED BY <2>1, <2>2
<1>5. ASSUME NEW s \in Request PROVE Carried(s, req[s])' /\ Served(req[s])'
  BY <1>1, <1>2 DEF Carrying, Carried, Served, HashOf, Known, Bodied
<1>6. QED BY <1>1, <1>2, <1>4, <1>5 DEF Carrying

LEMMA NextCarrying == Carrying /\ [Next]_vars => Carrying'
<1> SUFFICES ASSUME Carrying, [Next]_vars PROVE Carrying'
  OBVIOUS
<1>1. ASSUME NEW r \in Request, \E in \in Arrivals : Arrive(r, in) PROVE Carrying'
  BY <1>1, ArriveCarrying
<1>2. ASSUME NEW r \in Request, Gate(r) \/ Edit(r) \/ Lookup(r) PROVE Carrying'
  BY <1>2, GateCarrying, EditCarrying, LookupCarrying
<1>3. ASSUME NEW r \in Request, Call(r) PROVE Carrying'
  BY <1>3, UpstreamCarrying, AnswerCarrying, ConcludeCarrying DEF Call
<1>4. ASSUME NEW h \in DOMAIN cache, Forget(h) PROVE Carrying'
  BY <1>4, ForgetCarrying
<1>5. ASSUME NEW p \in pending, StoreVector(p) PROVE Carrying'
  BY <1>5, StoreVectorCarrying
<1>6. CASE UNCHANGED vars
  <2>1. /\ req' = req /\ cache' = cache /\ pending' = pending /\ vectors' = vectors /\ facts' = facts
    BY <1>6 DEF vars
  <2>2. /\ \A s, h : Stands(s, h) <=> Stands(s, h)'
        /\ \A h, w : Stored(h, w) <=> Stored(h, w)'
        /\ \A f : Learnt(f) <=> Learnt(f)'
    BY <2>1 DEF Stands, Stored, Learnt
  <2>3. ASSUME NEW s \in Request PROVE Carried(s, req[s])' /\ Served(req[s])'
    BY <2>1, <2>2 DEF Carrying, Carried, Served, HashOf, Known, Bodied
  <2>4. QED BY <2>1, <2>2, <2>3 DEF Carrying
<1>7. QED BY <1>1, <1>2, <1>3, <1>4, <1>5, <1>6 DEF Next

LEMMA CarryingHolds == Spec => []Carrying
  BY InitCarrying, NextCarrying, PTL DEF Spec

\* What redaction took out of a request neither leaves nor is learnt from it, unless
\* memory was added to it, which marshals the parsed form again (handler.go:751-793).
THEOREM RedactedStaysRedacted == Spec => []RedactedUnlessRemembered
<1>1. ASSUME Carrying, NEW r \in Request, req[r].redacted, "memory" \notin req[r].bytes.added
      PROVE  /\ req[r].sent # None => req[r].sent.text # "pii"
             /\ [of |-> r, text |-> "pii"] \notin facts
  <2>1. Carried(r, req[r])
    BY <1>1 DEF Carrying
  <2>2. req[r].bytes.text # "pii" /\ req[r].sent \in {None, req[r].bytes}
    BY <2>1, <1>1 DEF Carried
  <2>3. ASSUME [of |-> r, text |-> "pii"] \in facts PROVE FALSE
    <3>1. Learnt([of |-> r, text |-> "pii"])
      BY <2>3, <1>1 DEF Carrying
    <3>2. QED BY <2>2, <3>1 DEF Learnt
  <2>4. QED BY <2>2, <2>3
<1>2. Carrying => RedactedUnlessRemembered
  BY <1>1 DEF RedactedUnlessRemembered
<1>3. QED BY <1>2, CarryingHolds, PTL

\* Whatever is served from a cache was produced for this very request, or for one
\* whose vector the same provider and model filed; neither streams nor the
\* meter-only endpoint give or take (handler.go:795-866).
THEOREM HitsAreForTheirRequests == Spec => []HitIsForThisRequest
<1>1. ASSUME Carrying, NEW r \in Request, req[r].shown # None, req[r].shown.how \in {"hit", "similar"},
             NEW s, s = req[r].shown.answer.from
      PROVE  /\ IF req[r].shown.how = "hit"
                THEN req[s].who = req[r].who /\ req[s].sent = req[r].bytes
                ELSE \E x \in Request : req[x].hash = req[s].hash /\ req[x].resp # None
                                          /\ req[x].resp.named = req[r].who
             /\ \A x \in {r, s} : ~req[x].in.track /\ ~req[x].in.stream
  <2>1. Carried(r, req[r]) /\ Served(req[r])
    BY <1>1 DEF Carrying
  <2>2. req[r].pc = "done"
    BY <2>1, <1>1 DEF Carried
  <2>3. PICK h : /\ Stands(s, h)
                 /\ req[r].shown.how = "hit" => req[r].hash = h
                 /\ req[r].shown.how = "similar" => Stored(h, req[r].who)
    BY <2>1, <2>2, <1>1 DEF Served
  <2>4. ~req[r].in.track /\ ~req[r].in.stream
    BY <2>1, <2>2, <1>1 DEF Served
  <2>5. s \in Request /\ h # None /\ req[s].hash = h /\ req[s].sent = req[s].bytes
    BY <2>3 DEF Stands
  <2>6. Carried(s, req[s])
    BY <2>5, <1>1 DEF Carrying
  <2>7. /\ ~req[s].in.track /\ ~req[s].in.stream
        /\ req[s].hash = HashOf(req[s]) /\ Bodied(req[s].bytes, req[s].who)
    BY <2>5, <2>6 DEF Carried
  <2>8. CASE req[r].shown.how = "hit"
    <3>1. req[r].hash = HashOf(req[r]) /\ Bodied(req[r].bytes, req[r].who)
      BY <2>1, <2>3, <2>5, <2>8 DEF Carried
    <3>2. HashOf(req[r]) = HashOf(req[s])
      BY <2>3, <2>5, <2>7, <2>8, <3>1
    <3>3. /\ req[r].who = req[s].who /\ req[r].bytes.text = req[s].bytes.text
          /\ req[r].bytes.added = req[s].bytes.added
      BY <3>2 DEF HashOf
    <3>4. req[r].bytes = req[s].bytes
      BY <3>1, <3>3, <2>7 DEF Bodied
    <3>5. QED BY <2>4, <2>5, <2>7, <2>8, <3>3, <3>4
  <2>9. CASE req[r].shown.how = "similar"
    <3>1. Stored(req[s].hash, req[r].who)
      BY <2>3, <2>5, <2>9
    <3>2. QED BY <2>4, <2>7, <2>9, <3>1 DEF Stored
  <2>10. QED BY <2>8, <2>9, <1>1
<1>2. Carrying => HitIsForThisRequest
  BY <1>1 DEF HitIsForThisRequest
<1>3. QED BY <1>2, CarryingHolds, PTL
=============================================================================
