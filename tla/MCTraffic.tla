------------------------------ MODULE MCTraffic ------------------------------
(* Small instances of Traffic, with one of its three moving in each behaviour. *)
EXTENDS Traffic, TLC
CONSTANTS p1, p2, p3, x, Req, Cost, Tok
NoChains == {<<>>}
SomeChains == {<<>>, <<p1>>, <<p1, p2>>, <<p2, p3>>, <<p3>>}
SomeTiers  == {<<>>, <<p1, p2>>, <<p1>>}
Limits == [req |-> Req, cost |-> Cost, tok |-> Tok]
Symmetry == Permutations(Request) \cup Permutations(Sid) \cup Permutations(Topic)
=============================================================================
