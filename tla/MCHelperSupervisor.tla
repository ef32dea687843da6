------------------------- MODULE MCHelperSupervisor -------------------------
(* HelperSupervisor with the plans of four modes: scan with the weather     *)
(* channel riding along, the same on a SpyServer, nothing to scan, and a    *)
(* scan with more lanes.  It shares no state with the history of what a     *)
(* helper heard: each behaviour is one of the process, or of the history.   *)
EXTENDS HelperSupervisor, ActivityHistory

CONSTANTS rtl, spy

VARIABLE part

Plan(groups, shape, source, closeCall, same) ==
  [groups |-> groups, shape |-> shape, source |-> source,
   closeCall |-> closeCall, same |-> same]

MCConfigs ==
  { Plan(TRUE, 1, rtl, TRUE, TRUE), Plan(TRUE, 2, spy, FALSE, FALSE),
    Plan(FALSE, 1, rtl, TRUE, TRUE), Plan(TRUE, 2, rtl, TRUE, TRUE) }

\* The same scan before and after its first weather channel.
WeatherAdded == { Plan(TRUE, 1, rtl, TRUE, FALSE), Plan(TRUE, 1, rtl, TRUE, TRUE) }

\* The engine hops and loses its helper; the service restarts too. A page sees a restart; loses its
\* socket; dismisses.
Calm == [k \in Upsets |-> 0]
MCMishaps ==
  { [Calm EXCEPT !["hop"] = 2, !["respawn"] = 1],
    [Calm EXCEPT !["restart"] = 1, !["respawn"] = 1, !["find"] = 1],
    [Calm EXCEPT !["page"] = 1, !["restart"] = 1],
    [Calm EXCEPT !["page"] = 1, !["socket"] = 1, !["failure"] = 1],
    [Calm EXCEPT !["page"] = 1, !["dismissal"] = 2] }

MCInit ==
  /\ part \in {"process", "history"}
  /\ Init /\ HistoryInit
  /\ part # "process" => config = Plan(FALSE, 1, rtl, TRUE, TRUE)
  /\ part # "history" => upsets = [Calm EXCEPT !["hop"] = 2, !["respawn"] = 1]

MCNext ==
  \/ part = "process" /\ Next /\ UNCHANGED <<part, historyVars>>
  \/ part = "history" /\ HistoryNext /\ UNCHANGED <<part, vars>>

\* The fairness of each, while it is the one that moves.
Fair(A) == part = "process" /\ A
MCFairness ==
  /\ WF_vars(Fair(NodeReady)) /\ WF_vars(Fair(NodeClose))
  /\ WF_vars(Fair(ReadyTimeout)) /\ WF_vars(Fair(SilenceTimeout))
  /\ WF_vars(Fair(RestartFire)) /\ WF_vars(Fair(SettleFire)) /\ WF_vars(Fair(ProvenFire))
  /\ \A p \in Pids : WF_vars(Fair(Open(p))) /\ WF_vars(Fair(Quits(p)))
  /\ WF_historyVars(part = "history" /\ PageRuns)

MCSpec == MCInit /\ [][MCNext]_<<part, vars, historyVars>> /\ MCFairness
=============================================================================
