----------------------------- MODULE MCRuleEngine -----------------------------
(* Small instances of RuleEngine. *)
EXTENDS RuleEngine
CONSTANTS block, limit, bad, q1, q2, u1, u2, poller
\* `block` and `limit` have one priority, so that ids break the tie; `bad` comes
\* first but does not compile.
Priorities == [b \in Body |-> IF b = bad THEN 2 ELSE 1]
Fit  == [b \in Body |-> IF b = block THEN {q1} ELSE {q1, q2}]
Acts == [b \in Body |-> IF b = limit THEN "rate_limit" ELSE "other"]
OneRule == <<[body |-> block, enabled |-> TRUE]>>
=============================================================================
