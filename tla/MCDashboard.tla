----------------------------- MODULE MCDashboard -----------------------------
(***************************************************************************)
(* Small instances of what feeds the dashboard: the live feed              *)
(* (DashboardHub) and the agent totals (AgentSummaries).  Each behaviour    *)
(* exercises one of the two; the other stands still.                        *)
(***************************************************************************)
EXTENDS DashboardHub, TLC
CONSTANTS
  e1, e2, e3, c1,
  Entry, None, MaxReplays      \* of AgentSummaries
VARIABLES
  part,                        \* the one this behaviour is about
  totalRows, lingering, saver, cacheValid, cached, building, armed, fired,
  ready, replays, answer, covered, missed

A == INSTANCE AgentSummaries
       WITH Event <- Entry, rows <- totalRows, writer <- saver, shown <- covered

ASSUME SummaryAssumption == A!SummaryConstants

totalVars == <<totalRows, lingering, saver, cacheValid, cached, building, armed, fired,
               ready, replays, answer, covered, missed>>

PartsInit == part \in {"hub", "totals"} /\ Init /\ A!Init

PartsNext ==
  /\ UNCHANGED part
  /\ \/ part = "hub" /\ Next /\ UNCHANGED totalVars
     \/ part = "totals" /\ A!Next /\ UNCHANGED vars

\* What stands still could take a step only of its writers or its clients, to
\* which neither owes one.
PartsSpec ==
  /\ PartsInit /\ [][PartsNext]_<<part, vars, totalVars>>
  /\ Fairness /\ A!Fairness

-----------------------------------------------------------------------------
(* The properties of AgentSummaries; DashboardHub's are those of the module   *)

\* A valid cached total counts every announced request.
ValidMeansFresh == A!ValidMeansFresh

\* The totals the readers get are those CachedQuery allows.
ImplementsCachedQuery == A!ImplementsCachedQuery

\* The totals sent to the dashboards catch up with the table.
EventuallyShown == A!EventuallyShown
=============================================================================
