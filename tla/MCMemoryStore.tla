---------------------------- MODULE MCMemoryStore ----------------------------
(* Small instances of MemoryStore. *)
EXTENDS MemoryStore, TLC
CONSTANTS a, b, tea, coffee, chai, w1, w2
\* `tea` and `coffee` are near each other and replace each other; agent b's `chai`
\* is near `tea` and would replace it.
Said == [x \in Agent |-> IF x = a THEN {tea, coffee} ELSE {chai}]
Sameness == {<<f, f>> : f \in Fact}
Nearness == {<<tea, coffee>>, <<coffee, tea>>, <<tea, chai>>, <<chai, tea>>}
Replacing == {<<coffee, tea>>, <<tea, coffee>>, <<chai, tea>>}
Symmetric == Permutations(Worker)
=============================================================================
