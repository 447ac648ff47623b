--------------------------- MODULE MCResponseCache ---------------------------
(* Small instances of ResponseCache. *)
EXTENDS ResponseCache, TLC

CONSTANTS h1, h2, h3, a, b, c1, c2

\* Hashes, answers and goroutines are interchangeable; there are no
\* liveness properties in the runs that use this.
Symmetric == Permutations(Hash) \cup Permutations(Resp) \cup Permutations(Client)
=============================================================================
