----------------------------- MODULE CachedQuery -----------------------------
(***************************************************************************)
(* What a query result kept in memory promises its readers: an answer shows *)
(* every row whose writer has already announced it, and a row that is gone  *)
(* only if it was deleted since the last announcement.  A row that is       *)
(* written but not yet announced may or may not show.                       *)
(***************************************************************************)
EXTENDS Naturals

CONSTANT Event
VARIABLES
    rows,       \* rows in the table
    lingering,  \* rows deleted since the cached result was last invalidated
    announced,  \* rows whose writer has invalidated the cached result
    answer      \* the last answer a reader got, and the parity of their number

vars == <<rows, lingering, announced, answer>>

Init ==
    /\ rows = {} /\ lingering = {} /\ announced = {}
    /\ answer = [rows |-> {}, turn |-> 0]

Write(e) ==
    /\ rows' = rows \cup {e}
    /\ UNCHANGED <<lingering, announced, answer>>

Delete(old) ==
    /\ rows' = rows \ old /\ announced' = announced \ old
    /\ lingering' = lingering \cup old
    /\ UNCHANGED answer

\* A writer announces its row, which may be gone or was never written.
Announce(e) ==
    /\ announced' = announced \cup (rows \cap {e})
    /\ lingering' = {}
    /\ UNCHANGED <<rows, answer>>

Answer ==
    /\ \E payload \in SUBSET (rows \cup lingering) :
         /\ announced \subseteq payload
         /\ answer' = [rows |-> payload, turn |-> 1 - answer.turn]
    /\ UNCHANGED <<rows, lingering, announced>>

Next ==
    \/ \E e \in Event : Write(e) \/ Announce(e)
    \/ \E old \in SUBSET rows : Delete(old)
    \/ Answer

Spec == Init /\ [][Next]_vars
=============================================================================
