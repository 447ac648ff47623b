--------------------------- MODULE RequestPipeline ---------------------------
(***************************************************************************)
(* A request through handleRequest (proxy/handler.go:412-1020): who serves  *)
(* it, the gates in their order, redaction, memory, the two caches, the     *)
(* upstream call, the answer, and what is recorded of it.                   *)
(*                                                                          *)
(* The handler keeps the request twice: bodyBytes, which is what leaves,    *)
(* and reqData, the parsed form.  Most steps edit reqData and marshal it    *)
(* again; redaction edits bodyBytes only.  Requests meet in the caches.     *)
(* Settings are read where they are used and may change between, so each    *)
(* use of one is a choice.                                                  *)
(***************************************************************************)
EXTENDS Integers, FiniteSets, Sequences

CONSTANTS
    Request,    \* requests, one goroutine each
    Arrivals,   \* what a request can be
    Route,      \* model asked for -> who serves it, None if nobody knows it
    Results,    \* outcomes of the rule engine
    Fallback,   \* whom SelectFallback may name
    Modes,      \* configurations of the two detectors
    None

\* Whoever may be asked, and what the handler learns of an answer of theirs: who
\* gave it, its status, and who is named for it in the record.
Named   == ({Route[m] : m \in DOMAIN Route} \ {None}) \cup Fallback
             \cup UNION {{res.to[k] : k \in DOMAIN res.to} : res \in Results}
Target  == [provider : {w.provider : w \in Named}, model : {w.model : w \in Named}]
Reply   == [by : Target, status : {200, 400}, named : Target]
Input   == [model : DOMAIN Route, text : {"plain", "pii"}, exempt : BOOLEAN,
            track : BOOLEAN, stream : BOOLEAN, cacheable : BOOLEAN]   \* cacheable: the exact cache is on for it
Act     == {"none", "block", "override", "prompt", "chain", "url"}
Mode    == {"off", "flag", "block"}

ASSUME PipelineConstants ==
    /\ Named \subseteq Target /\ None \notin Target \cup Reply
    /\ Arrivals \subseteq Input
    /\ Modes \subseteq [jail : Mode, rails : Mode]
    /\ \A res \in Results : res.act \in Act
    /\ \A res \in Results : res.to \in Seq(Target)
    /\ \A res \in Results : res.act \in {"override", "chain"} => Len(res.to) > 0

VARIABLES
    mode,     \* the detectors, as the process was started
    req,      \* request -> what its goroutine has in hand
    cache,    \* the exact cache: hash -> answer
    pending,  \* vectors that detached goroutines are to store: [hash, who]
    vectors,  \* the semantic cache: hash -> whom its vector is filed under
    facts,    \* what memory extraction has kept: [of : Request, text : Text]
    log       \* request -> records of it (persistAndBroadcast)

vars == <<mode, req, cache, pending, vectors, facts, log>>

Text   == {"plain", "pii", "clean"}
\* An answer: the request whose upstream call produced it, its status, and whether
\* the output gate was asked about it.
Answer == [from : Request, status : {200, 400}, checked : BOOLEAN]
Error(status) == [how |-> "error", status |-> status, answer |-> None]

Idle == [pc |-> "idle", in |-> None, who |-> None, bytes |-> None, parsed |-> None,
         jail |-> FALSE, rails |-> FALSE, rule |-> "none", rest |-> <<>>,
         redacted |-> FALSE, hash |-> None, sent |-> None, resp |-> None, shown |-> None]

Init ==
    /\ mode \in Modes
    /\ req = [r \in Request |-> Idle]
    /\ cache = [h \in {} |-> None] /\ vectors = [h \in {} |-> None] /\ pending = {} /\ facts = {}
    /\ log = [r \in Request |-> <<>>]

Go(r, next) == req' = [req EXCEPT ![r] = next]
Elsewhere == UNCHANGED <<cache, pending, vectors, facts>>

\* persistAndBroadcast: one record, of the request as it stands.
Record(r, status, who, hit, rule) ==
    log' = [log EXCEPT ![r] = Append(@, [status |-> status, who |-> who, hit |-> hit,
              rule |-> rule, redacted |-> req[r].redacted])]

\* Answer with an error of the proxy's own, and record it.
Refuse(r, status, rule) ==
    /\ Go(r, [req[r] EXCEPT !.pc = "done", !.shown = Error(status)])
    /\ Record(r, status, req[r].who, FALSE, rule)

-----------------------------------------------------------------------------
(* The gates *)

\* Parsing, routing and counting.  A model that nobody knows is refused without a
\* record; the meter-only endpoint goes straight upstream.
Arrive(r, in) ==
    /\ req[r].pc = "idle"
    /\ LET who  == Route[in.model]
           body == [model |-> who.model, text |-> in.text, added |-> {}]
       IN IF who = None
          THEN Go(r, [Idle EXCEPT !.pc = "done", !.in = in, !.shown = Error(400)])
          ELSE Go(r, [Idle EXCEPT !.pc = IF in.track THEN "upstream" ELSE "jail",
                        !.in = in, !.who = who, !.bytes = body, !.parsed = body])
    /\ UNCHANGED <<mode, log>> /\ Elsewhere

\* What NeMo Guard may say; an error lets the request pass.
Scores == IF mode.jail = "off" THEN {FALSE} ELSE BOOLEAN

Classify(r) ==
    /\ req[r].pc = "jail"
    /\ \E found \in Scores :
         Go(r, [req[r] EXCEPT !.pc = "rails", !.jail = found])
    /\ UNCHANGED <<mode, log>> /\ Elsewhere

Verdicts == {"pass", "violation", "error"}

\* The guardrails input gate: an error counts as a violation in block mode.
GuardInput(r) ==
    /\ req[r].pc = "rails"
    /\ \E verdict \in IF mode.rails = "off" \/ req[r].in.exempt THEN {"pass"} ELSE Verdicts :
         Go(r, [req[r] EXCEPT !.pc = "rules",
                !.rails = verdict = "violation" \/ (verdict = "error" /\ mode.rails = "block")])
    /\ UNCHANGED <<mode, log>> /\ Elsewhere

\* The request with another model or prompt in it: the parsed form is marshalled.
Rewritten(q, parsed) == [q EXCEPT !.pc = "gate", !.parsed = parsed, !.bytes = parsed]

\* What a matched rule does: block and an exceeded rate limit end the request,
\* the others rewrite it and it goes on.
ApplyRule(r, res) ==
    LET q == [req[r] EXCEPT !.rule = res.act] IN
    CASE res.act = "block" ->
           /\ Go(r, [q EXCEPT !.pc = "done", !.shown = Error(403)])
           /\ Record(r, 403, q.who, FALSE, res.act)
      [] res.act = "prompt" ->
           Go(r, Rewritten(q, [q.parsed EXCEPT !.added = @ \cup {"prompt"}])) /\ UNCHANGED log
      [] res.act \in {"override", "chain"} ->
           LET who == [res.to[1] EXCEPT !.provider = IF res.act = "override" THEN q.who.provider ELSE @]
           IN /\ Go(r, Rewritten([q EXCEPT !.who = who, !.rest = Tail(res.to)],
                                 [q.parsed EXCEPT !.model = who.model]))
              /\ UNCHANGED log
      [] OTHER -> Go(r, [q EXCEPT !.pc = "gate"]) /\ UNCHANGED log

Rules(r) ==
    /\ req[r].pc = "rules"
    /\ \E res \in Results : ApplyRule(r, res)
    /\ UNCHANGED mode /\ Elsewhere

AutoBlock_Unmatched(r) ==   \* mutant: a rule that matched settles the matter
    /\ req[r].pc = "gate"
    /\ IF req[r].rule = "none" /\
          ((req[r].jail /\ mode.jail = "block") \/ (req[r].rails /\ mode.rails = "block"))
       THEN Refuse(r, 403, "none")
       ELSE Go(r, [req[r] EXCEPT !.pc = "redact"]) /\ UNCHANGED log
    /\ UNCHANGED mode /\ Elsewhere

\* The default blocks, for what no rule has blocked; recorded without the rule.
AutoBlock(r) ==
    /\ req[r].pc = "gate"
    /\ IF (req[r].jail /\ mode.jail = "block") \/ (req[r].rails /\ mode.rails = "block")
       THEN Refuse(r, 403, "none")
       ELSE Go(r, [req[r] EXCEPT !.pc = "redact"]) /\ UNCHANGED log
    /\ UNCHANGED mode /\ Elsewhere

-----------------------------------------------------------------------------
(* What may be added to and taken out of the body *)

\* RedactRequestBody: the body without what the patterns find in it.
Redacted(body) == IF body.text = "pii" THEN [body EXCEPT !.text = "clean"] ELSE body

\* PII redaction, when it is on and does not fail: the bytes only.
Redact(r) ==
    /\ req[r].pc = "redact"
    /\ \E body \in {req[r].bytes, Redacted(req[r].bytes)} :
         Go(r, [req[r] EXCEPT !.pc = "memory", !.bytes = body, !.redacted = (body # req[r].bytes)])
    /\ UNCHANGED <<mode, log>> /\ Elsewhere

Memory_Always(r) ==   \* mutant: marshals again although nothing was found
    /\ req[r].pc = "memory"
    /\ \E found \in BOOLEAN :
         LET added == IF found THEN req[r].parsed.added \cup {"memory"} ELSE req[r].parsed.added
             body  == [req[r].parsed EXCEPT !.added = added]
         IN Go(r, [req[r] EXCEPT !.pc = "lookup", !.parsed = body, !.bytes = body])
    /\ UNCHANGED <<mode, log>> /\ Elsewhere

\* What the agent's memory holds goes into the parsed form, which is marshalled.
Memory(r) ==
    /\ req[r].pc = "memory"
    /\ \E found \in BOOLEAN :
         LET body == [req[r].parsed EXCEPT !.added = @ \cup {"memory"}]
         IN Go(r, IF found
                  THEN [req[r] EXCEPT !.pc = "lookup", !.parsed = body, !.bytes = body]
                  ELSE [req[r] EXCEPT !.pc = "lookup"])
    /\ UNCHANGED <<mode, log>> /\ Elsewhere

-----------------------------------------------------------------------------
(* The caches.  At any moment an entry may expire, be evicted or be flushed *)
(* (Forget; module ResponseCache has the details).                         *)

HashOf_Parsed(q) ==   \* mutant: hashes the parsed form
    [who |-> q.who, text |-> q.parsed.text, added |-> q.parsed.added]

\* BuildRequestHash(provider, model, bodyBytes), as far as messages and system
\* prompt go; what the hash leaves out (max_tokens and such) has no place here.
HashOf(q) == [who |-> q.who, text |-> q.bytes.text, added |-> q.bytes.added]

Serve(r, q, h, how) ==
    /\ Go(r, [q EXCEPT !.pc = "done",
              !.shown = [how |-> how, status |-> cache[h].status, answer |-> cache[h]]])
    /\ Record(r, cache[h].status, q.who, TRUE, q.rule)

LookupCache(r) ==
    /\ req[r].pc = "lookup"
    /\ LET q == [req[r] EXCEPT !.hash = HashOf(req[r])] IN
       IF req[r].in.stream \/ ~req[r].in.cacheable
       THEN Go(r, [req[r] EXCEPT !.pc = "upstream"]) /\ UNCHANGED log
       ELSE IF q.hash \in DOMAIN cache
       THEN Serve(r, q, q.hash, "hit")
       ELSE Go(r, [q EXCEPT !.pc = "similar"]) /\ UNCHANGED log
    /\ UNCHANGED mode /\ Elsewhere

\* SearchHybrid: any vector of this provider and model may be near enough.
Similar(who) == {h \in DOMAIN vectors : vectors[h] = who}

\* A hash that the exact cache has forgotten is a miss.
LookupSimilar(r) ==
    /\ req[r].pc = "similar"
    /\ \/ \E h \in Similar(req[r].who) \cap DOMAIN cache : Serve(r, req[r], h, "similar")
       \/ Go(r, [req[r] EXCEPT !.pc = "upstream"]) /\ UNCHANGED log
    /\ UNCHANGED mode /\ Elsewhere

Forget(h) ==
    /\ h \in DOMAIN cache
    /\ cache' = [g \in DOMAIN cache \ {h} |-> cache[g]]
    /\ UNCHANGED <<mode, req, pending, vectors, facts, log>>

\* The goroutine may find the semantic cache off or the embedding failed: a vector
\* that stays pending for ever.
StoreVector(p) ==
    /\ p \in pending
    /\ pending' = pending \ {p}
    /\ vectors' = [h \in DOMAIN vectors \cup {p.hash} |-> IF h = p.hash THEN p.who ELSE vectors[h]]
    /\ UNCHANGED <<mode, req, cache, facts, log>>

-----------------------------------------------------------------------------
(* Upstream, the answer, and the end *)

Response(by, status, named) == [by |-> by, status |-> status, named |-> named]

Responses_Unnamed(q) ==   \* mutant: who stood in is not named
    {Response(w, 200, q.who) : w \in {q.who} \cup {q.rest[k] : k \in DOMAIN q.rest} \cup Fallback}

\* executeUpstreamRequest as its caller sees it (module Upstream has the inside):
\* the primary, or who stood in for it and is named, or the last failure of a
\* chain, which nobody is named for; or no response at all.
Responses(q) ==
    LET chain == {q.rest[k] : k \in DOMAIN q.rest} IN
    {Response(q.who, 200, q.who)}
    \cup {Response(w, 200, w) : w \in chain}
    \cup {Response(w, 400, q.who) : w \in chain \cup {q.who}}
    \cup {Response(w, s, w) : w \in Fallback, s \in {200, 400}}

Upstream(r) ==
    /\ req[r].pc = "upstream"
    /\ LET q == [req[r] EXCEPT !.sent = req[r].bytes] IN
       \/ /\ Go(r, [q EXCEPT !.pc = "done", !.shown = Error(502)])
          /\ Record(r, 502, q.who, FALSE, q.rule)
       \/ /\ \E resp \in Responses(q) : Go(r, [q EXCEPT !.pc = "respond", !.resp = resp])
          /\ UNCHANGED log
    /\ UNCHANGED mode /\ Elsewhere

\* The output gate is for answers that are no errors.
Gated(q) == mode.rails # "off" /\ ~q.in.track /\ ~q.in.exempt /\ q.resp.status < 400

\* A stream is passed on as it comes, with the default status and no output gate.
Stream(r) ==
    /\ req[r].pc = "respond" /\ req[r].in.stream
    /\ Go(r, [req[r] EXCEPT !.pc = "conclude",
              !.shown = [how |-> "live", status |-> 200, answer |-> [from |-> r,
                 status |-> req[r].resp.status, checked |-> FALSE]]])
    /\ UNCHANGED <<mode, log>> /\ Elsewhere

Respond(r) ==
    /\ req[r].pc = "respond" /\ ~req[r].in.stream
    /\ LET q == req[r]
           answer == [from |-> r, status |-> q.resp.status, checked |-> Gated(q)]
       IN \/ Go(r, [q EXCEPT !.pc = "conclude",
                    !.shown = [how |-> "live", status |-> answer.status, answer |-> answer]])
          \/ Go(r, [q EXCEPT !.pc = "conclude", !.shown = Error(502)])   \* cannot be read
    /\ UNCHANGED <<mode, log>> /\ Elsewhere

Keep_Raw(q) ==   \* mutant: keeps the answer as it came from upstream
    [q.shown.answer EXCEPT !.checked = FALSE]

\* What goes into the cache is what was shown.
Keep(q) == q.shown.answer

\* Cache store, memory extraction, record.  A stream, an error and an answer that
\* could not be read are not kept.
Conclude(r) ==
    /\ req[r].pc = "conclude"
    /\ LET q    == req[r]
           good == q.shown.how = "live" /\ ~q.in.stream /\ q.resp.status = 200
       IN /\ IF good /\ q.hash # None
             THEN /\ cache' = [h \in DOMAIN cache \cup {q.hash} |->
                                 IF h = q.hash THEN Keep(q) ELSE cache[h]]
                  /\ pending' = pending \cup {[hash |-> q.hash, who |-> q.resp.named]}
             ELSE UNCHANGED <<cache, pending>>
          /\ \/ /\ good /\ ~q.in.track
                /\ facts' = facts \cup {[of |-> r, text |-> q.bytes.text]}
             \/ UNCHANGED facts
          /\ Record(r, q.resp.status, q.resp.named, FALSE, q.rule)
    /\ Go(r, [req[r] EXCEPT !.pc = "done"])
    /\ UNCHANGED <<mode, vectors>>

Gate(r)   == Classify(r) \/ GuardInput(r) \/ Rules(r) \/ AutoBlock(r)
Edit(r)   == Redact(r) \/ Memory(r)
Lookup(r) == LookupCache(r) \/ LookupSimilar(r)
Call(r)   == Upstream(r) \/ Stream(r) \/ Respond(r) \/ Conclude(r)

Next ==
    \/ \E r \in Request : (\E in \in Arrivals : Arrive(r, in)) \/ Gate(r) \/ Edit(r) \/ Lookup(r) \/ Call(r)
    \/ \E h \in DOMAIN cache : Forget(h)
    \/ \E p \in pending : StoreVector(p)

Spec == Init /\ [][Next]_vars

-----------------------------------------------------------------------------
(* Properties *)

\* What a detector in block mode or a rule has condemned, the unreachable service
\* in block mode included ("Input is FAIL-CLOSED in block mode", handler.go:599),
\* leaves no trace but its record: nobody is called, nothing is served from a
\* cache, kept in one, or learnt; whatever else a rule may say of it.
Condemned(r) ==
    \/ req[r].rule = "block"
    \/ req[r].rails /\ mode.rails = "block"
    \/ req[r].jail /\ mode.jail = "block"
StoppedGoesNowhere ==
    \A r \in Request : Condemned(r) =>
        /\ req[r].sent = None
        /\ req[r].shown # None => req[r].shown.how = "error" /\ req[r].shown.status = 403
        /\ \A h \in DOMAIN cache : cache[h].from # r
        /\ \A f \in facts : f.of # r

\* The record says what the client saw (handler.go:1011): one record for every
\* request whose model is known, with the status shown, hits marked as such, and
\* a good answer put down to who gave it.  Two kinds are left out because the
\* code records the provider's status where the client got another: an answer
\* whose body broke off (502), and a stream (always 200).
RecordMatchesAnswer ==
    \A r \in Request : LET q == req[r] IN
        IF q.pc # "done" \/ q.who = None THEN log[r] = <<>>
        ELSE /\ Len(log[r]) = 1
             /\ log[r][1].hit <=> q.shown.how \in {"hit", "similar"}
             /\ \/ log[r][1].status = q.shown.status
                \/ q.resp # None /\ (q.in.stream \/ q.shown.how = "error")
             /\ (q.resp # None /\ q.resp.status = 200) => log[r][1].who = q.resp.by

\* An exact hit answers this request: the one that was sent upstream for it had
\* the same messages, redacted or not as these are, with the same additions, and
\* was meant for the same provider and model.  A similar one is kept under the
\* hash of a request that this provider and model answered.  Neither the
\* meter-only endpoint nor streams touch the caches.
HitIsForThisRequest ==
    \A r \in Request : req[r].shown # None /\ req[r].shown.how \in {"hit", "similar"} =>
        LET s == req[r].shown.answer.from IN
        /\ IF req[r].shown.how = "hit"
           THEN req[s].who = req[r].who /\ req[s].sent = req[r].bytes
           ELSE \E x \in Request : req[x].hash = req[s].hash /\ req[x].resp # None
                                     /\ req[x].resp.named = req[r].who
        /\ \A x \in {r, s} : ~req[x].in.track /\ ~req[x].in.stream

\* An answer that anybody but an exempt agent gets has been through the output
\* gate, if there is one, also when it comes from a cache; unless an exempt agent
\* put it there.
CheckedUnlessSpared ==
    mode.rails # "off" =>
      \A r \in Request : LET q == req[r] IN
        (/\ q.shown # None /\ q.shown.how # "error" /\ q.shown.answer.status < 400
         /\ ~q.in.exempt /\ ~q.in.track /\ ~q.in.stream)
        => q.shown.answer.checked \/ req[q.shown.answer.from].in.exempt

\* What was redacted neither leaves nor is kept, as long as no memory was added.
RedactedUnlessRemembered ==
    \A r \in Request : req[r].redacted /\ "memory" \notin req[r].bytes.added =>
        /\ req[r].sent # None => req[r].sent.text # "pii"
        /\ [of |-> r, text |-> "pii"] \notin facts

\* "PII/secret scanning before prompts leave your network" (README.md:14): a
\* request that is recorded as redacted left redacted.
RedactedIsSentRedacted ==
    \A r \in Request : req[r].redacted /\ req[r].sent # None => req[r].sent.text # "pii"
=============================================================================
