------------------------- MODULE AgentSummariesProofs -------------------------
(***************************************************************************)
(* For any set of requests: the agent totals are type correct, a valid      *)
(* cached payload is fresh, and AgentSummaries implements CachedQuery, also  *)
(* next to the live feed.                                                   *)
(*                                                                          *)
(* The argument is about h.cacheMu.  A rebuild reads the rows while it holds *)
(* the mutex, so until it publishes its result no writer can announce a row  *)
(* the query did not see, and what the prune takes from under the query is  *)
(* still lingering: BuildingFresh.  Without it ValidMeansFresh is not        *)
(* inductive, because Build copies the rows that were read steps before.     *)
(***************************************************************************)
EXTENDS MCDashboard, TLAPS

BuildingFresh ==
    building # None =>
        A!Announced \subseteq building.rows /\ building.rows \subseteq totalRows \cup lingering

TotalsInv == A!TypeOK /\ A!ValidMeansFresh /\ BuildingFresh

\* The initial state satisfies the inductive invariant.
LEMMA InitTotals == A!Init => TotalsInv
<1>1. A!Init => fired \in Nat /\ replays \in 0 .. MaxReplays
  BY SummaryAssumption DEF A!Init, A!SummaryConstants
<1>2. A!Init => A!TypeOK
  <2>1. A!Init => answer \in [rows : SUBSET Entry, turn : {0, 1}]
    BY DEF A!Init
  <2>2. A!Init => building \in A!Rebuild \cup {None} /\ saver \in [Entry -> {"new", "inserted", "done"}]
    BY DEF A!Init
  <2>3. QED
    BY <1>1, <2>1, <2>2 DEF A!Init, A!TypeOK
<1>3. A!Init => A!ValidMeansFresh /\ BuildingFresh
  BY DEF A!Init, A!ValidMeansFresh, BuildingFresh
<1>4. QED
  BY <1>2, <1>3 DEF TotalsInv

\* Every step preserves it.
LEMMA NextTotals == TotalsInv /\ [A!Next]_A!vars => TotalsInv'
<1> SUFFICES ASSUME TotalsInv, [A!Next]_A!vars PROVE TotalsInv'
  OBVIOUS
<1> USE SummaryAssumption DEF A!SummaryConstants, TotalsInv, A!TypeOK, A!ValidMeansFresh, BuildingFresh, A!Announced,
        A!Rebuild, A!cache, A!timer, A!sent
<1>1. ASSUME NEW e \in Entry, A!Insert(e) PROVE TotalsInv'
  BY <1>1 DEF A!Insert
<1>2. ASSUME NEW e \in Entry, A!Invalidate(e) PROVE TotalsInv'
  BY <1>2 DEF A!Invalidate
<1>3. CASE A!Prune
  BY <1>3 DEF A!Prune
<1>4. CASE A!TimerFires
  <2>1. fired' \in Nat
    BY <1>4 DEF A!TimerFires
  <2>2. QED
    BY <1>4, <2>1 DEF A!TimerFires
<1>5. ASSUME NEW by \in {"timer", "replay"}, A!UseCached(by) PROVE TotalsInv'
  BY <1>5 DEF A!UseCached, A!Caller, A!Return
<1>6. ASSUME NEW by \in {"timer", "replay"}, A!Query(by) PROVE TotalsInv'
  <2>1. A!TypeOK'
    BY <1>6 DEF A!Query, A!Caller
  <2>2. A!ValidMeansFresh' /\ BuildingFresh'
    BY <1>6 DEF A!Query
  <2>3. QED
    BY <2>1, <2>2
<1>7. CASE A!Build
  BY <1>7 DEF A!Build, A!Return
<1>8. ASSUME NEW payload \in SUBSET Entry, A!Show(payload) PROVE TotalsInv'
  BY <1>8 DEF A!Show
<1>9. CASE UNCHANGED A!vars
  BY <1>9 DEF A!vars
<1>10. QED
  BY <1>1, <1>2, <1>3, <1>4, <1>5, <1>6, <1>7, <1>8, <1>9 DEF A!Next

\* Of PartsSpec, the steps of the totals.
LEMMA TotalsOfParts == PartsSpec => A!Init /\ [][A!Next]_A!vars
<1>1. PartsInit => A!Init
  BY DEF PartsInit
<1>2. [PartsNext]_<<part, vars, totalVars>> => [A!Next]_A!vars
  <2>1. UNCHANGED totalVars => UNCHANGED A!vars
    BY DEF totalVars, A!vars, A!cache, A!timer, A!sent
  <2>2. QED
    BY <2>1 DEF PartsNext
<1>3. QED
  BY <1>1, <1>2, PTL DEF PartsSpec

\* The totals are type correct whatever fails and is pruned.
LEMMA SummariesTypeOK == PartsSpec => []A!TypeOK
<1>1. TotalsInv => A!TypeOK
  BY DEF TotalsInv
<1>2. QED
  BY <1>1, InitTotals, NextTotals, TotalsOfParts, PTL

\* A cached payload that counts as valid (Hub.cacheValid and Hub.cachedAgents)
\* misses no announced request that is still in the table, and what it counts
\* beyond the table was pruned since the last announcement.
THEOREM SummariesFresh == PartsSpec => []ValidMeansFresh
<1>1. TotalsInv => ValidMeansFresh
  BY DEF TotalsInv, ValidMeansFresh
<1>2. QED
  BY <1>1, InitTotals, NextTotals, TotalsOfParts, PTL

\* Every step of the cache is a step of CachedQuery or leaves its view alone:
\* what agentSummaryPayload returns never misses an announced request, and
\* counts a pruned one only until the next request is announced.
THEOREM SummariesImplementCachedQuery == PartsSpec => ImplementsCachedQuery
<1>1. A!Init => A!Promise!Init
  BY DEF A!Init, A!Promise!Init, A!Announced
<1>2. TotalsInv /\ [A!Next]_A!vars => [A!Promise!Next]_A!Promise!vars
  <2> SUFFICES ASSUME TotalsInv, [A!Next]_A!vars
               PROVE  [A!Promise!Next]_A!Promise!vars
    OBVIOUS
  <2> USE DEF TotalsInv, A!TypeOK, A!Promise!Next, A!Promise!vars, A!Promise!Write,
              A!Promise!Delete, A!Promise!Announce, A!Promise!Answer, A!Announced, A!cache, A!timer, A!sent
  <2>0. CASE A!Prune
    <3>1. PICK old \in SUBSET totalRows : totalRows' = totalRows \ old /\ lingering' = lingering \cup old
      BY <2>0 DEF A!Prune
    <3>2. A!Promise!Delete(old)
      BY <2>0, <3>1 DEF A!Prune
    <3>3. QED BY <3>1, <3>2
  <2>1. ASSUME NEW e \in Entry, A!Insert(e)
        PROVE  UNCHANGED A!Promise!vars \/ A!Promise!Write(e)
    BY <2>1 DEF A!Insert
  <2>2. ASSUME NEW e \in Entry, A!Invalidate(e)
        PROVE  UNCHANGED A!Promise!vars \/ A!Promise!Announce(e)
    BY <2>2 DEF A!Invalidate
  <2>3. CASE A!TimerFires
    BY <2>3 DEF A!TimerFires
  <2>4. ASSUME NEW by \in {"timer", "replay"}, A!UseCached(by) PROVE A!Promise!Answer
    BY <2>4 DEF A!UseCached, A!Return, A!ValidMeansFresh
  <2>5. ASSUME NEW by \in {"timer", "replay"}, A!Query(by)
        PROVE  UNCHANGED A!Promise!vars
    BY <2>5 DEF A!Query
  <2>6. CASE A!Build
    BY <2>6 DEF A!Build, A!Return, BuildingFresh
  <2>7. ASSUME NEW payload \in SUBSET Entry, A!Show(payload)
        PROVE  UNCHANGED A!Promise!vars
    BY <2>7 DEF A!Show
  <2>8. CASE UNCHANGED A!vars
    BY <2>8 DEF A!vars
  <2>9. QED
    BY <2>0, <2>1, <2>2, <2>3, <2>4, <2>5, <2>6, <2>7, <2>8 DEF A!Next
<1>3. QED
  BY <1>1, <1>2, InitTotals, NextTotals, TotalsOfParts, PTL
    DEF ImplementsCachedQuery, A!ImplementsCachedQuery, A!Promise!Spec
=============================================================================
