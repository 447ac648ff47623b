-------------------------- MODULE MCRequestPipeline --------------------------
(* Small instances of RequestPipeline. *)
EXTENDS RequestPipeline, TLC
CONSTANTS r1, r2
Who(p, m) == [provider |-> p, model |-> m]
\* "m1" is a built-in model, "c" has the prefix of a custom provider.
Routes == [m \in {"m1", "c", "nobody"} |->
             CASE m = "m1" -> Who("home", "m1") [] m = "c" -> Who("custom", "c") [] OTHER -> None]
In(m, t, exempt, track, stream, cacheable) ==
    [model |-> m, text |-> t, exempt |-> exempt, track |-> track, stream |-> stream,
     cacheable |-> cacheable]
Usual == {In("m1", "pii", x, FALSE, FALSE, TRUE) : x \in BOOLEAN}
All == Usual \cup {In("m1", "plain", FALSE, TRUE, FALSE, TRUE), In("c", "plain", FALSE, FALSE, TRUE, TRUE),
                   In("m1", "plain", TRUE, FALSE, FALSE, FALSE), In("nobody", "plain", FALSE, FALSE, FALSE, TRUE)}
Result(act, to) == [act |-> act, to |-> to]
Rulings == {Result(act, <<>>) : act \in {"none", "block", "prompt"}}
             \cup {Result("override", <<Who("home", "m2")>>),
                   Result("chain", <<Who("custom", "c"), Who("other", "o")>>)}
Others == {Who("other", "o")}
Settings == {[jail |-> "block", rails |-> "flag"], [jail |-> "off", rails |-> "block"]}
Symmetric == Permutations(Request)
=============================================================================
