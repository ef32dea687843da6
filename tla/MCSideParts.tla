----------------------------- MODULE MCSideParts -----------------------------
(* The radar feed, the lightning feed, the engine without the helper and the *)
(* page's map share no state: each behaviour of this module is one of any of *)
(* them, the others standing still.                                         *)
EXTENDS RadarFeed, LightningFeed, RtlFm, ActivityMap

CONSTANTS a, b, c  \* channels

VARIABLE part

sideVars == <<part, radarVars, lightningVars, rtlVars, mapVars>>

MCLists == {<<a, b>>, <<c>>, <<>>}

NoPlan == [k \in Kinds |-> 0]

\* Scans that meet lost contexts; a frame that fails and a dropped redraw; the CB stage. Traffic
\* and a socket that drops, with a lost context and a dropped redraw, with the CB stage, with
\* another channel, with a screen that changes size. Aircraft.
MCPlans ==
  { [NoPlan EXCEPT !.radar = 1, !.scans = 2, !.losses = 2],
    [NoPlan EXCEPT !.radar = 1, !.scans = 2, !.drops = 1, !.fails = 1],
    [NoPlan EXCEPT !.radar = 1, !.scans = 2, !.hides = 1],
    [NoPlan EXCEPT !.radar = 1, !.scans = 1, !.hides = 1, !.losses = 1],
    [NoPlan EXCEPT !.ups = 1, !.sockets = 1, !.losses = 1, !.drops = 1],
    [NoPlan EXCEPT !.ups = 1, !.sockets = 1, !.hides = 1],
    [NoPlan EXCEPT !.ups = 2, !.sockets = 1],
    [NoPlan EXCEPT !.ups = 1, !.sockets = 1, !.sizes = 2],
    [NoPlan EXCEPT !.flights = 2, !.sockets = 1, !.fails = 3] }

Firm(x, S) == x = CHOOSE y \in S : TRUE

MCInit ==
  /\ part \in {"radar", "lightning", "rtlfm", "map"}
  /\ RadarFeedInit /\ LightningInit /\ RtlFmInit /\ ActivityMapInit
  /\ part # "map" => Firm(left, MCPlans)
  /\ part # "rtlfm" => rx.auto

MCNext ==
  \/ /\ part = "radar" /\ RadarFeedNext
     /\ UNCHANGED <<part, lightningVars, rtlVars, mapVars>>
  \/ /\ part = "lightning" /\ LightningNext
     /\ UNCHANGED <<part, radarVars, rtlVars, mapVars>>
  \/ /\ part = "rtlfm" /\ RtlFmNext
     /\ UNCHANGED <<part, radarVars, lightningVars, mapVars>>
  \/ /\ part = "map" /\ ActivityMapNext
     /\ UNCHANGED <<part, radarVars, lightningVars, rtlVars>>

\* The fairness of each, while it is the one that moves.
Fair(name, A) == part = name /\ A

MCFairness ==
  /\ WF_radarVars(Fair("radar", Works)) /\ WF_radarVars(Fair("radar", Decodes))
  /\ WF_lightningVars(Fair("lightning", FeedRuns))
  /\ WF_rtlVars(Fair("rtlfm", Ends)) /\ WF_rtlVars(Fair("rtlfm", Dwells))
  /\ SF_rtlVars(Fair("rtlfm", HopTimer)) /\ WF_rtlVars(Fair("rtlfm", RestartTimer))
  /\ WF_mapVars(Fair("map", RadarTimer)) /\ WF_mapVars(Fair("map", StaleTimer))
  /\ WF_mapVars(Fair("map", LayerTimer)) /\ WF_mapVars(Fair("map", ResizeTimer))
  /\ WF_mapVars(Fair("map", RadarAnswers)) /\ WF_mapVars(Fair("map", AircraftPoll))
  /\ WF_mapVars(Fair("map", Reconnects)) /\ WF_mapVars(Fair("map", page.asked /\ Draw))
  /\ WF_mapVars(Fair("map", ContextComes)) /\ WF_mapVars(Fair("map", ScansAge))
  /\ WF_mapVars(Fair("map", FadeMoves)) /\ WF_mapVars(Fair("map", FrontsAge))
  /\ WF_mapVars(Fair("map", SmokeTick))

MCSpec == MCInit /\ [][MCNext]_sideVars /\ MCFairness
=============================================================================
