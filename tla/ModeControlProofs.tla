------------------------- MODULE ModeControlProofs -------------------------
(***************************************************************************)
(* Proofs about ModeControl, for every set of frequencies, alerts and       *)
(* configurations.  The inductive invariant adds to the four invariants     *)
(* below what a revert relies on: timers are armed only while breakIn is    *)
(* set, a break-in clears the monitored channel, and one that follows a     *)
(* boot that fell back came from the scan, any other from the choice.       *)
(* Then about WallStages, the page that shows the mode: its stages are the  *)
(* mode's except while a zoom runs over a live map.                         *)
(***************************************************************************)
EXTENDS ModeControl, WallStages, TLAPS

\* What a revert relies on.
RevertSafe ==
  /\ ~breakIn.on => timers = NoTimers
  /\ InBreakIn => monitor = None
  /\ InBreakIn => IF fellBack THEN breakIn.from = "scan" ELSE breakIn.from = asked.mode
  /\ ~InBreakIn /\ fellBack => mode = "scan"
  /\ asked.mode # "monitor" => asked.monitor = None
  /\ mode # "monitor" => monitor = None
  /\ fellBack => asked.mode # "scan"

Control == ModeIsChoice /\ SavedIsChoice /\ HfFollowsMode /\ RevertSafe

IInv == TypeOK /\ Control

USE DEF Modes, Preempted, ChoiceType, Off, NoTimers, NotHeard

-----------------------------------------------------------------------------
(* What the engine is told is a plan.                                       *)

\* Any tune of the sweep or none, any mode: the plan has its type.
LEMMA ScanConfigForType ==
  ASSUME NEW c \in ConfigType, NEW m \in Modes, NEW mon \in Freqs \cup {None},
         NEW h \in HfType,
         NEW hot \in BOOLEAN
  PROVE  Running(ScanConfigFor(c, m, mon, h, hot)) \in EngineType
<1> DEFINE d == [c EXCEPT !.hunts = @ /\ ~hot]
           tune == HfTune(h)
           listen == CASE m = "scan" -> d.scanned
                       [] m = "weather" -> (IF d.wx THEN {"wx"} ELSE {})
                       [] m = "monitor" -> {mon} \ {None}
                       [] OTHER -> {m}
<1>1. /\ d.scanned \in SUBSET Freqs /\ d.wx \in BOOLEAN /\ d.hunts \in BOOLEAN
      /\ d.spy \in BOOLEAN
  BY DEF ConfigType
<1>2. h.window \in 0..Windows /\ h.playing \in BOOLEAN /\ 0 \in 0..Windows
  BY WindowAssumption DEF HfType
<1>3. tune \in (0..Windows) \X BOOLEAN /\ <<0, FALSE>> \in (0..Windows) \X BOOLEAN
  BY <1>2 DEF HfTune
<1>4. listen \in SUBSET (Freqs \cup {"wx", "cb", "hf"})
  <2>1. CASE m = "scan" BY <2>1, <1>1
  <2>2. CASE m = "weather" BY <2>2
  <2>3. CASE m = "monitor" BY <2>3
  <2>4. CASE m \in {"cb", "hf"} BY <2>4
  <2> QED BY <2>1, <2>2, <2>3, <2>4
<1>5. (IF m = "hf" THEN tune ELSE <<0, FALSE>>) \in (0..Windows) \X BOOLEAN
  BY <1>3
<1>6. (m \in {"weather", "monitor", "hf"}) \in BOOLEAN /\ (d.hunts /\ m \notin {"cb", "hf"}) \in BOOLEAN
      /\ (d.spy /\ m \in {"cb", "hf"}) \in BOOLEAN
  OBVIOUS
<1> HIDE DEF tune, listen
<1>7. PlanFor(d, m, mon, tune) \in PlanType
  BY <1>4, <1>5, <1>6 DEF PlanFor, PlanType, listen
<1> QED BY <1>7 DEF Running, ScanConfigFor, tune, EngineType

(* What the sweep's own steps return.                                       *)
LEMMA HfSteps ==
  ASSUME NEW h \in HfType
  PROVE  /\ HfOff \in HfType /\ HfOff.state = "off"
         /\ HfStarted \in HfType /\ HfStarted.state = "armed"
         /\ HfPaused(h) \in HfType
         /\ HfPaused(h).state = IF h.state = "off" THEN "off" ELSE "paused"
         /\ HfResumed(h) \in HfType /\ HfResumed(h).state = "armed"
         /\ HfNext(h) \in HfType /\ HfNext(h).state = h.state
         /\ [h EXCEPT !.playing = ~@] \in HfType
         /\ [h EXCEPT !.playing = ~@].state = h.state
<1>1. 1 \in 1..Windows /\ h = [state |-> h.state, window |-> h.window, playing |-> h.playing]
  BY WindowAssumption DEF HfType
<1>2. HfOff \in HfType /\ HfStarted \in HfType  BY <1>1 DEF HfOff, HfStarted, HfType
<1>3. ASSUME NEW s \in {"off", "armed", "paused"}
      PROVE  [h EXCEPT !.state = s] \in HfType /\ [h EXCEPT !.state = s].state = s
  BY DEF HfType
<1>4. HfPaused(h) \in HfType /\ HfPaused(h).state = IF h.state = "off" THEN "off" ELSE "paused"
  <2>1. CASE h.state = "off"  BY <2>1 DEF HfPaused
  <2>2. CASE h.state # "off"  BY <2>2, <1>3 DEF HfPaused
  <2> QED  BY <2>1, <2>2
<1>5. HfResumed(h) \in HfType /\ HfResumed(h).state = "armed"  BY <1>3 DEF HfResumed
<1>6. ASSUME NEW w \in 1..Windows, NEW p \in BOOLEAN
      PROVE  /\ [h EXCEPT !.window = w, !.playing = p] \in HfType
             /\ [h EXCEPT !.window = w, !.playing = p].state = h.state
  BY DEF HfType
<1>7. (IF h.window = Windows THEN 1 ELSE h.window + 1) \in 1..Windows
  BY WindowAssumption DEF HfType
<1>8. HfNext(h) \in HfType /\ HfNext(h).state = h.state
  BY ZenonT(60), <1>6, <1>7 DEF HfNext
<1>9. [h EXCEPT !.playing = ~@] \in HfType /\ [h EXCEPT !.playing = ~@].state = h.state
  <2>1. ASSUME NEW p \in BOOLEAN
        PROVE  [h EXCEPT !.playing = p] \in HfType /\ [h EXCEPT !.playing = p].state = h.state
    BY DEF HfType
  <2>2. (~h.playing) \in BOOLEAN  OBVIOUS
  <2> QED  BY ONLY <2>1, <2>2, Zenon
<1>10. HfOff.state = "off" /\ HfStarted.state = "armed"  BY DEF HfOff, HfStarted
<1> QED  BY <1>2, <1>4, <1>5, <1>8, <1>9, <1>10

(* Any configuration a document or an edit leaves is one.                   *)
LEMMA ConfigEdits ==
  ASSUME NEW c \in ConfigType, NEW f \in Freqs
  PROVE  /\ [c EXCEPT !.scanned = @ \cup {f}, !.listed = @ \ {f}] \in ConfigType
         /\ [c EXCEPT !.scanned = @ \ {f}] \in ConfigType
         /\ [c EXCEPT !.listed = @ \cup {f}] \in ConfigType
<1>1. /\ c.scanned \cup {f} \in SUBSET Freqs /\ c.listed \ {f} \in SUBSET Freqs
      /\ c.scanned \ {f} \in SUBSET Freqs /\ c.listed \cup {f} \in SUBSET Freqs
  BY DEF ConfigType
<1>2. ASSUME NEW s \in SUBSET Freqs, NEW l \in SUBSET Freqs
      PROVE  /\ [c EXCEPT !.scanned = s, !.listed = l] \in ConfigType
             /\ [c EXCEPT !.scanned = s] \in ConfigType
             /\ [c EXCEPT !.listed = l] \in ConfigType
  BY DEF ConfigType
<1> QED  BY ZenonT(60), <1>1, <1>2

-----------------------------------------------------------------------------
(* Types.                                                                   *)

LEMMA TypeInit == Init => TypeOK
<1> SUFFICES ASSUME Init PROVE TypeOK  OBVIOUS
<1>1. config \in ConfigType /\ HfOff \in HfType
  <2>1. HfOff \in HfType  BY WindowAssumption DEF HfOff, HfType
  <2> QED  BY <2>1, ConfigAssumption DEF Init
<1>2. engine \in EngineType
  BY <1>1, ScanConfigForType DEF Init
<1>3. heard \in HeardType  BY TimeAssumption DEF Init, HeardType
<1> QED  BY <1>1, <1>2, <1>3 DEF Init, TypeOK, BreakInType, TimersType, SameType

(* A choice of the operator, and the record of it.                          *)
LEMMA ChosenType ==
  ASSUME NEW m \in Modes, NEW mon \in Freqs \cup {None}, Chosen(m, mon)
  PROVE  /\ mode' \in Modes /\ monitor' \in Freqs \cup {None}
         /\ saved' \in ChoiceType /\ asked' \in ChoiceType /\ fellBack' \in BOOLEAN
BY DEF Chosen

LEMMA BreakInOff ==
  ASSUME NEW b \in BreakInType
  PROVE  /\ [b EXCEPT !.on = FALSE] \in BreakInType
         /\ ~[b EXCEPT !.on = FALSE].on /\ [b EXCEPT !.on = FALSE].from = b.from
         /\ b.from \in Modes \ {"weather", "monitor"}
<1>1. ASSUME NEW o \in BOOLEAN
      PROVE  [b EXCEPT !.on = o] \in BreakInType /\ [b EXCEPT !.on = o].on = o
             /\ [b EXCEPT !.on = o].from = b.from
  BY DEF BreakInType
<1> QED  BY <1>1 DEF BreakInType

LEMMA TimerTypes ==
  ASSUME NEW t \in TimersType
  PROVE  /\ NoTimers \in TimersType
         /\ HeaderCancelsResume(t) \in TimersType
         /\ [t EXCEPT !.eom = Grace] \in TimersType
         /\ [revert |-> Less(t.revert), eom |-> Less(t.eom)] \in TimersType
         /\ \A a \in Alerts : BreakInTimers(a) \in TimersType
<1>1. ASSUME NEW n \in Nat \cup {Off} PROVE [t EXCEPT !.eom = n] \in TimersType
  BY DEF TimersType
<1>2. Grace \in Nat  BY TimeAssumption
<1>3. Less(t.revert) \in Nat \cup {Off} /\ Less(t.eom) \in Nat \cup {Off}
  BY DEF TimersType, Less
<1>4. \A a \in Alerts : Hold[a] \in Nat  BY TimeAssumption
<1>5. HeaderCancelsResume(t) \in TimersType  BY <1>1 DEF HeaderCancelsResume
<1>6. [t EXCEPT !.eom = Grace] \in TimersType  BY <1>1, <1>2
<1> QED  BY <1>3, <1>4, <1>5, <1>6 DEF TimersType, BreakInTimers

LEMMA HeardTypes ==
  ASSUME NEW h \in HeardType
  PROVE  /\ NotHeard \in HeardType
         /\ [h EXCEPT !.eom = FALSE] \in HeardType
         /\ [h EXCEPT !.eom = TRUE] \in HeardType
         /\ [h EXCEPT !.since = Cap(@)] \in HeardType
<1>1. MinHold \in Nat /\ 0 \in 0..MinHold  BY TimeAssumption
<1>2. ASSUME NEW n \in 0..MinHold PROVE [h EXCEPT !.since = n] \in HeardType
  BY DEF HeardType
<1>3. ASSUME NEW e \in BOOLEAN PROVE [h EXCEPT !.eom = e] \in HeardType
  BY DEF HeardType
<1>4. Cap(h.since) \in 0..MinHold  BY <1>1 DEF HeardType, Cap
<1>5. NotHeard \in HeardType  BY <1>1 DEF HeardType
<1>6. [h EXCEPT !.eom = FALSE] \in HeardType /\ [h EXCEPT !.eom = TRUE] \in HeardType
  BY <1>3, Zenon
<1>7. [h EXCEPT !.since = Cap(@)] \in HeardType  BY <1>2, <1>4
<1> QED  BY <1>5, <1>6, <1>7

(* Every step keeps the types.                                              *)
LEMMA TypeStep == TypeOK /\ [Next]_vars => TypeOK'
<1> SUFFICES ASSUME TypeOK, [Next]_vars PROVE TypeOK'  OBVIOUS
<1>t. /\ config \in ConfigType /\ mode \in Modes /\ monitor \in Freqs \cup {None}
      /\ breakIn \in BreakInType /\ timers \in TimersType /\ lastSame \in SameType
      /\ safety \in BOOLEAN /\ hf \in HfType /\ engine \in EngineType
      /\ saved \in ChoiceType /\ asked \in ChoiceType /\ fellBack \in BOOLEAN
      /\ heard \in HeardType
  BY DEF TypeOK
<1>h. HfOff \in HfType /\ HfStarted \in HfType  BY <1>t, HfSteps
<1> USE <1>t, <1>h
<1>1. ASSUME NEW m \in Modes, SetMode(m) PROVE TypeOK'
  <2>1. hf' \in HfType  BY <1>1 DEF SetMode
  <2>2. /\ mode' \in Modes /\ monitor' \in Freqs \cup {None}
        /\ saved' \in ChoiceType /\ asked' \in ChoiceType /\ fellBack' \in BOOLEAN
    BY <1>1, ChosenType DEF SetMode
  <2>3. engine' \in EngineType  BY <1>1, <2>1, ScanConfigForType DEF SetMode
  <2>4. breakIn' \in BreakInType /\ timers' \in TimersType /\ heard' \in HeardType
    BY <1>1, BreakInOff, TimerTypes, HeardTypes DEF SetMode
  <2> QED  BY <1>1, <2>1, <2>2, <2>3, <2>4 DEF SetMode, TypeOK
<1>2. ASSUME NEW f \in Freqs, SetMonitor(f) PROVE TypeOK'
  <2>1. /\ mode' \in Modes /\ monitor' \in Freqs \cup {None}
        /\ saved' \in ChoiceType /\ asked' \in ChoiceType /\ fellBack' \in BOOLEAN
    BY <1>2, ChosenType DEF SetMonitor
  <2>2. engine' \in EngineType  BY <1>2, ScanConfigForType DEF SetMonitor
  <2> QED  BY <1>2, <2>1, <2>2 DEF SetMonitor, TypeOK, sameVars
<1>3. CASE StopMonitor
  <2>1. /\ mode' \in Modes /\ monitor' \in Freqs \cup {None}
        /\ saved' \in ChoiceType /\ asked' \in ChoiceType /\ fellBack' \in BOOLEAN
    BY <1>3, ChosenType DEF StopMonitor
  <2>2. engine' \in EngineType  BY <1>3, ScanConfigForType DEF StopMonitor
  <2> QED  BY <1>3, <2>1, <2>2 DEF StopMonitor, TypeOK, sameVars
<1>4. CASE StartScan
  <2>1. engine' \in EngineType  BY <1>4, ScanConfigForType DEF StartScan
  <2> QED  BY <1>4, <2>1 DEF StartScan, TypeOK, sameVars, choiceVars
<1>5. CASE StopScan
  <2>1. engine' \in EngineType  BY <1>5 DEF StopScan, EngineType
  <2> QED  BY <1>5, <2>1 DEF StopScan, TypeOK, sameVars, choiceVars
<1>6. ASSUME NEW h \in HfType, Apply(h) PROVE TypeOK'
  <2>1. engine' \in EngineType  BY <1>6, ScanConfigForType DEF Apply
  <2> QED  BY <1>6, <2>1 DEF Apply, TypeOK, sameVars, choiceVars
<1>7. CASE SkipHf \/ HfTick \/ HfSurvey
  <2>1. HfNext(hf) \in HfType /\ [hf EXCEPT !.playing = ~@] \in HfType  BY HfSteps
  <2> QED  BY <1>6, <1>7, <2>1 DEF SkipHf, HfTick, HfSurvey
<1>8. ASSUME NEW c \in ConfigType, Reload(c) PROVE TypeOK'
  <2>1. engine' \in EngineType  BY <1>8, ScanConfigForType DEF Reload
  <2> QED  BY <1>8, <2>1 DEF Reload, TypeOK, sameVars, choiceVars
<1>9. ASSUME NEW f \in Freqs, AddChannel(f) \/ DeleteChannel(f) PROVE TypeOK'
  BY ZenonT(60), <1>8, <1>9, ConfigEdits DEF AddChannel, DeleteChannel
<1>10. CASE PutWeatherChannel
  <2>1. [config EXCEPT !.wx = TRUE] \in ConfigType  BY DEF ConfigType
  <2> QED  BY <1>8, <1>10, <2>1 DEF PutWeatherChannel
<1>11. ASSUME NEW c \in Configs, PutConfig(c) PROVE TypeOK'
  <2> DEFINE orphan == mode = "monitor" /\ monitor # None /\ monitor \notin KnownFreqs(c)
             m == IF orphan THEN "scan" ELSE mode
             mon == IF orphan THEN None ELSE monitor
  <2>1. c \in ConfigType /\ m \in Modes /\ mon \in Freqs \cup {None}  BY ConfigAssumption
  <2>2. /\ mode' \in Modes /\ monitor' \in Freqs \cup {None}
        /\ saved' \in ChoiceType /\ asked' \in ChoiceType /\ fellBack' \in BOOLEAN
    <3>1. CASE orphan  BY <1>11, <3>1, ChosenType DEF PutConfig
    <3>2. CASE ~orphan  BY <1>11, <3>2 DEF PutConfig, choiceVars
    <3> QED  BY <3>1, <3>2
  <2>3. engine' = Running(ScanConfigFor(c, m, mon, hf, safety)) \/ engine' = engine
    BY <1>11 DEF PutConfig
  <2> HIDE DEF m, mon
  <2>4. engine' \in EngineType  BY <2>1, <2>3, ScanConfigForType
  <2> QED  BY <1>11, <2>1, <2>2, <2>4 DEF PutConfig, TypeOK, sameVars
<1>12. ASSUME NEW f \in Freqs, FileDiscovery(f) PROVE TypeOK'
  <2>1. config' \in ConfigType  BY ZenonT(60), <1>12, ConfigEdits DEF FileDiscovery
  <2> QED  BY <1>12, <2>1 DEF FileDiscovery, TypeOK, sameVars, choiceVars
<1>13. ASSUME NEW a \in Alerts, SameHeader(a) PROVE TypeOK'
  <2>1. lastSame' \in SameType /\ HfPaused(hf) \in HfType
    BY <1>13, TimeAssumption, HfSteps DEF SameHeader, SameType
  <2>2. timers' \in TimersType /\ heard' \in HeardType
    BY <1>13, TimerTypes, HeardTypes DEF SameHeader, Heard
  <2> DEFINE acts == a \in Covered /\ (a \in Tests => ShowTests)
             breaks == acts /\ a \notin Tests /\ mode \in Preempted /\ config.wx
  <2>3. CASE breaks
    <3>1. /\ breakIn' = [on |-> TRUE, from |-> mode] /\ mode \in Preempted
          /\ hf' = IF mode = "hf" THEN HfPaused(hf) ELSE hf
          /\ mode' = "weather" /\ monitor' = None
          /\ engine' = Running(ScanConfigFor(config, "weather", None, hf', safety))
      BY <1>13, <2>3 DEF SameHeader
    <3>2. hf' \in HfType  BY <2>1, <3>1
    <3>3. engine' \in EngineType  BY <3>1, <3>2, ScanConfigForType
    <3>4. breakIn' \in BreakInType  BY <3>1 DEF BreakInType
    <3> QED  BY <1>13, <2>1, <2>2, <3>1, <3>2, <3>3, <3>4 DEF SameHeader, TypeOK, choiceVars
  <2>4. CASE ~breaks
    BY <1>13, <2>1, <2>2, <2>4 DEF SameHeader, TypeOK, choiceVars
  <2> QED  BY <2>3, <2>4
<1>14. CASE SameEom
  <2>1. timers' \in TimersType /\ heard' \in HeardType
    BY <1>14, TimerTypes, HeardTypes DEF SameEom
  <2> QED  BY <1>14, <2>1 DEF SameEom, TypeOK, choiceVars
<1>15. CASE Sample
  <2>1. safety' \in BOOLEAN  BY <1>15 DEF Sample
  <2>2. engine' \in EngineType  BY <1>15, <2>1, ScanConfigForType DEF Sample
  <2> QED  BY <1>15, <2>1, <2>2 DEF Sample, TypeOK, sameVars, choiceVars
<1>16. CASE Tick
  <2>1. timers' \in TimersType /\ heard' \in HeardType
    BY <1>16, TimerTypes, HeardTypes DEF Tick
  <2>2. lastSame' \in SameType
    <3>1. ASSUME NEW n \in Nat PROVE [lastSame EXCEPT !.left = n] \in SameType  BY DEF SameType
    <3>2. lastSame.left \in Nat /\ (~(lastSame.left <= 1) => lastSame.left - 1 \in Nat)
      BY DEF SameType
    <3>3. [raw |-> None, left |-> 0] \in SameType  BY DEF SameType
    <3> QED  BY <1>16, <3>1, <3>2, <3>3 DEF Tick
  <2> QED  BY <1>16, <2>1, <2>2 DEF Tick, TypeOK, choiceVars
<1>17. CASE Revert
  <2>1. breakIn' \in BreakInType /\ timers' \in TimersType /\ heard' \in HeardType
    BY <1>17, BreakInOff, TimerTypes, HeardTypes DEF Revert
  <2>2. mode' \in Modes  BY <1>17, BreakInOff DEF Revert, Resumed
  <2>3. CASE mode # "weather"
    BY <1>17, <2>1, <2>2, <2>3 DEF Revert, TypeOK, choiceVars
  <2>4. CASE mode = "weather"
    <3>1. /\ hf' = IF mode' = "hf" THEN HfResumed(hf) ELSE hf
          /\ engine' = Running(ScanConfigFor(config, mode', None, hf', safety))
      BY <1>17, <2>4 DEF Revert
    <3>2. HfResumed(hf) \in HfType  BY HfSteps
    <3>3. hf' \in HfType  BY <3>1, <3>2
    <3>4. engine' \in EngineType  BY <2>2, <3>1, <3>3, ScanConfigForType
    <3> QED  BY <1>17, <2>1, <2>2, <3>3, <3>4 DEF Revert, TypeOK, choiceVars
  <2> QED  BY <2>3, <2>4
<1>18. CASE Restart
  <2>1. /\ mode' \in Modes /\ monitor' \in Freqs \cup {None} /\ fellBack' \in BOOLEAN
        /\ breakIn' \in BreakInType /\ lastSame' \in SameType /\ safety' = FALSE
    BY <1>18 DEF Restart, BreakInType, SameType, Runnable
  <2>2. hf' \in HfType /\ timers' \in TimersType /\ heard' \in HeardType
    BY <1>18, TimerTypes, HeardTypes DEF Restart
  <2>3. engine' = Running(ScanConfigFor(config, mode', monitor', hf', FALSE))
    BY <1>18 DEF Restart
  <2>4. engine' \in EngineType  BY <2>1, <2>2, <2>3, ScanConfigForType
  <2> QED  BY <1>18, <2>1, <2>2, <2>4 DEF Restart, TypeOK
<1>19. CASE UNCHANGED vars  BY <1>19 DEF vars, TypeOK
<1> QED
  BY <1>1, <1>2, <1>3, <1>4, <1>5, <1>7, <1>9, <1>10, <1>11, <1>12, <1>13, <1>14, <1>15, <1>16,
     <1>17, <1>18, <1>19 DEF Next, OperatorStep, RadioStep

-----------------------------------------------------------------------------
(* Control: one step per action, grouped by what the action can disturb.    *)

LEMMA ControlInit == Init => Control
BY DEF Init, Control, ModeIsChoice, SavedIsChoice, HfFollowsMode, RevertSafe, InBreakIn,
       HfOff

(* A step that leaves the mode, the choice, the break-in and its timers     *)
(* alone, and the state of the sweep.                                       *)
LEMMA ControlKept ==
  ASSUME Control, UNCHANGED <<mode, monitor, breakIn, timers, choiceVars>>,
         hf'.state = hf.state
  PROVE  Control'
BY DEF Control, ModeIsChoice, SavedIsChoice, HfFollowsMode, RevertSafe, InBreakIn, choiceVars

(* The operator chooses a mode: nothing of the past matters but the timers. *)
LEMMA ControlChosen ==
  ASSUME Control, NEW m \in Modes, NEW mon \in Freqs \cup {None}, Chosen(m, mon),
         m # "weather" \/ ~breakIn'.on,
         m # "monitor" => mon = None,
         hf'.state = IF m = "hf" THEN "armed" ELSE "off",
         ~breakIn'.on => timers' = NoTimers
  PROVE  Control'
BY DEF Control, Chosen, ModeIsChoice, SavedIsChoice, HfFollowsMode, RevertSafe, InBreakIn

LEMMA ControlStep == IInv /\ [Next]_vars => Control'
<1> SUFFICES ASSUME TypeOK, Control, [Next]_vars PROVE Control'  BY DEF IInv
<1>h. /\ HfOff.state = "off" /\ HfStarted.state = "armed" /\ HfNext(hf).state = hf.state
      /\ [hf EXCEPT !.playing = ~@].state = hf.state /\ HfResumed(hf).state = "armed"
      /\ HfPaused(hf).state = IF hf.state = "off" THEN "off" ELSE "paused"
  BY HfSteps DEF TypeOK
<1>b. /\ ~[breakIn EXCEPT !.on = FALSE].on
      /\ breakIn.from \in Modes \ {"weather", "monitor"}
  BY BreakInOff DEF TypeOK
<1>1. ASSUME NEW m \in Modes, SetMode(m) PROVE Control'
  <2>1. hf'.state = (IF m = "hf" THEN "armed" ELSE "off")  BY <1>1, <1>h DEF SetMode
  <2>2. Chosen(m, None) /\ ~breakIn'.on /\ timers' = NoTimers  BY <1>1, <1>b DEF SetMode
  <2> QED  BY <2>1, <2>2, ControlChosen
<1>2. ASSUME NEW f \in Freqs, SetMonitor(f) PROVE Control'
  <2>1. ~breakIn'.on => timers' = NoTimers
    BY <1>2 DEF SetMonitor, sameVars, Control, RevertSafe
  <2>2. Chosen("monitor", f) /\ hf'.state = "off"  BY <1>2, <1>h DEF SetMonitor
  <2> QED  BY <2>1, <2>2, ControlChosen
<1>3. CASE StopMonitor
  <2>1. ~breakIn'.on => timers' = NoTimers
    BY <1>3 DEF StopMonitor, sameVars, Control, RevertSafe
  <2>2. Chosen("scan", None) /\ hf'.state = "off"  BY <1>3, <1>h DEF StopMonitor
  <2> QED  BY <2>1, <2>2, ControlChosen
<1>4. CASE StartScan \/ StopScan \/ Sample
  BY <1>4, ControlKept DEF StartScan, StopScan, Sample, sameVars
<1>5. CASE SkipHf \/ HfTick \/ HfSurvey
  BY <1>5, <1>h, ControlKept DEF SkipHf, HfTick, HfSurvey, Apply, sameVars
<1>6. ASSUME NEW c, Reload(c) PROVE Control'
  BY <1>6, ControlKept DEF Reload, sameVars
<1>7. ASSUME NEW f \in Freqs, AddChannel(f) \/ DeleteChannel(f) \/ FileDiscovery(f)
      PROVE  Control'
  BY <1>6, <1>7, ControlKept DEF AddChannel, DeleteChannel, FileDiscovery, sameVars
<1>8. CASE PutWeatherChannel  BY <1>6, <1>8 DEF PutWeatherChannel
<1>9. ASSUME NEW c \in Configs, PutConfig(c) PROVE Control'
  <2> DEFINE orphan == mode = "monitor" /\ monitor # None /\ monitor \notin KnownFreqs(c)
  <2>1. CASE orphan
    <3>1. Chosen("scan", None) /\ UNCHANGED <<breakIn, timers, hf>>
      BY <1>9, <2>1 DEF PutConfig, sameVars
    <3>2. hf.state = "off"
      BY <2>1 DEF Control, HfFollowsMode, InBreakIn, TypeOK, HfType
    <3> QED  BY <3>1, <3>2, ControlChosen DEF Control, RevertSafe
  <2>2. CASE ~orphan
    BY <1>9, <2>2, ControlKept DEF PutConfig, sameVars
  <2> QED  BY <2>1, <2>2
<1>10. ASSUME NEW a \in Alerts, SameHeader(a) PROVE Control'
  <2> DEFINE acts == a \in Covered /\ (a \in Tests => ShowTests)
             breaks == acts /\ a \notin Tests /\ mode \in Preempted /\ config.wx
  <2>1. CASE breaks
    <3>1. /\ breakIn' = [on |-> TRUE, from |-> mode] /\ mode' = "weather" /\ monitor' = None
          /\ hf' = IF mode = "hf" THEN HfPaused(hf) ELSE hf
          /\ mode \in Preempted /\ UNCHANGED choiceVars
      BY <1>10, <2>1 DEF SameHeader
    <3>2. (mode = "hf" => hf'.state = "paused") /\ (mode # "hf" => hf'.state = "off")
      BY <3>1, <1>h DEF Control, HfFollowsMode, InBreakIn, TypeOK, HfType
    <3> QED
      BY <3>1, <3>2 DEF Control, ModeIsChoice, SavedIsChoice, HfFollowsMode, RevertSafe,
         InBreakIn, choiceVars
  <2>2. CASE ~breaks
    <3>1. UNCHANGED <<mode, monitor, breakIn, hf, choiceVars>>
      BY <1>10, <2>2 DEF SameHeader
    <3>2. ~breakIn.on => timers' = NoTimers
      BY <1>10, <2>2 DEF SameHeader, HeaderCancelsResume, Control, RevertSafe
    <3> QED
      BY <3>1, <3>2 DEF Control, ModeIsChoice, SavedIsChoice, HfFollowsMode, RevertSafe,
         InBreakIn, choiceVars
  <2> QED  BY <2>1, <2>2
<1>11. CASE SameEom
  BY <1>11 DEF SameEom, Control, ModeIsChoice, SavedIsChoice, HfFollowsMode, RevertSafe,
     InBreakIn, choiceVars
<1>12. CASE Tick
  <2>1. UNCHANGED <<mode, monitor, breakIn, hf, choiceVars>>  BY <1>12 DEF Tick
  <2>2. ~breakIn.on => timers' = NoTimers  BY <1>12 DEF Tick, Less, Control, RevertSafe
  <2> QED
    BY <2>1, <2>2 DEF Control, ModeIsChoice, SavedIsChoice, HfFollowsMode, RevertSafe,
       InBreakIn, choiceVars
<1>13. CASE Revert
  <2>1. ~breakIn'.on /\ timers' = NoTimers /\ UNCHANGED <<monitor, choiceVars>>
    BY <1>13, <1>b DEF Revert
  <2>2. breakIn.on  BY <1>13 DEF Revert, Control, RevertSafe
  <2>3. CASE mode # "weather"
    BY <1>13, <2>1, <2>3 DEF Revert, Control, ModeIsChoice, SavedIsChoice, HfFollowsMode,
       RevertSafe, InBreakIn, choiceVars
  <2>4. CASE mode = "weather"
    <3>1. mode' = breakIn.from /\ hf' = IF mode' = "hf" THEN HfResumed(hf) ELSE hf
      BY <1>13, <2>4 DEF Revert, Resumed
    <3>2. hf'.state = IF mode' = "hf" THEN "armed" ELSE "off"
      BY <3>1, <1>h, <2>2, <2>4 DEF Control, HfFollowsMode, InBreakIn, TypeOK, HfType
    <3> QED
      BY <1>b, <2>1, <2>2, <2>4, <3>1, <3>2 DEF Control, ModeIsChoice, SavedIsChoice,
         HfFollowsMode, RevertSafe, InBreakIn, choiceVars
  <2> QED  BY <2>3, <2>4
<1>14. CASE Restart
  <2>1. /\ mode' = (IF Runnable(config, saved) THEN saved.mode ELSE "scan")
        /\ monitor' = (IF mode' = "monitor" THEN saved.monitor ELSE None)
        /\ ~breakIn'.on /\ timers' = NoTimers
        /\ fellBack' = ~Runnable(config, saved) /\ UNCHANGED <<saved, asked>>
    BY <1>14 DEF Restart
  <2>2. hf'.state = IF mode' = "hf" THEN "armed" ELSE "off"
    BY <1>14, <1>h DEF Restart
  <2>3. ~Runnable(config, saved) => saved.mode # "scan"  BY DEF Runnable
  <2>4. saved.mode # "monitor" => saved.monitor = None
    BY DEF Control, SavedIsChoice, RevertSafe
  <2> QED
    BY <2>1, <2>2, <2>3, <2>4 DEF Control, ModeIsChoice, SavedIsChoice, HfFollowsMode,
       RevertSafe, InBreakIn
<1>15. CASE UNCHANGED vars
  BY <1>15, ControlKept DEF vars, choiceVars
<1> QED
  BY <1>1, <1>2, <1>3, <1>4, <1>5, <1>7, <1>8, <1>9, <1>10, <1>11, <1>12, <1>13, <1>14, <1>15
     DEF Next, OperatorStep, RadioStep

-----------------------------------------------------------------------------
LEMMA Invariant == Spec => []IInv
<1>1. Init => IInv  BY TypeInit, ControlInit DEF IInv
<1>2. IInv /\ [Next]_vars => IInv'  BY TypeStep, ControlStep DEF IInv
<1> QED  BY <1>1, <1>2, PTL DEF Spec

\* Type correctness of the mode machine, for any alerts, documents and clocks.
THEOREM ModeTypes == Spec => []TypeOK
<1>1. IInv => TypeOK  BY DEF IInv
<1> QED  BY <1>1, Invariant, PTL

\* The radio does what the operator last asked for, however requests, headers, reverts
\* and restarts interleave, and a boot that cannot run the saved mode scans.
THEOREM ChoiceStands == Spec => []ModeIsChoice
<1>1. IInv => ModeIsChoice  BY DEF IInv, Control
<1> QED  BY <1>1, Invariant, PTL

\* mode.json holds the operator's last choice, and never a break-in.
THEOREM ChoiceSurvives == Spec => []SavedIsChoice
<1>1. IInv => SavedIsChoice  BY DEF IInv, Control
<1> QED  BY <1>1, Invariant, PTL

\* The shortwave sweep is armed exactly in shortwave mode, paused exactly under a
\* break-in that came from it.
THEOREM SweepFollows == Spec => []HfFollowsMode
<1>1. IInv => HfFollowsMode  BY DEF IInv, Control
<1> QED  BY <1>1, Invariant, PTL

-----------------------------------------------------------------------------
(* The break-in is never cut short: the safety net counts down while the    *)
(* time since the break-in counts up, and a resume is armed only by the end *)
(* of the last message.                                                     *)

Counted ==
  breakIn.on =>
    /\ timers.revert = Off \/ heard.since >= MinHold \/ timers.revert + heard.since >= MinHold
    /\ timers.eom # Off => heard.eom

LEMMA CountedStep == IInv /\ Counted /\ [Next]_vars => Counted'
<1> SUFFICES ASSUME TypeOK, Control, Counted, [Next]_vars PROVE Counted'  BY DEF IInv
<1>t. timers \in TimersType /\ heard \in HeardType /\ MinHold \in Nat \ {0} /\ Grace \in Nat
  BY TimeAssumption DEF TypeOK
<1>b. ~[breakIn EXCEPT !.on = FALSE].on  BY BreakInOff DEF TypeOK
<1>1. CASE UNCHANGED sameVars  BY <1>1 DEF sameVars, Counted
<1>2. CASE ~breakIn'.on  BY <1>2 DEF Counted
<1>3. ASSUME NEW a \in Alerts, SameHeader(a) PROVE Counted'
  <2> DEFINE acts == a \in Covered /\ (a \in Tests => ShowTests)
             breaks == acts /\ a \notin Tests /\ mode \in Preempted /\ config.wx
  <2>1. CASE breaks
    <3>1. timers' = BreakInTimers(a) /\ heard' = NotHeard  BY <1>3, <2>1 DEF SameHeader
    <3>2. Hold[a] \in Nat /\ Hold[a] >= MinHold  BY TimeAssumption
    <3> QED  BY <1>t, <3>1, <3>2 DEF BreakInTimers, Counted
  <2>2. CASE ~breaks /\ acts /\ breakIn.on
    <3>1. /\ timers' = HeaderCancelsResume(timers) /\ heard' = Heard /\ breakIn' = breakIn
      BY <1>3, <2>2 DEF SameHeader
    <3>2. /\ timers'.eom = Off /\ timers'.revert = timers.revert
          /\ heard'.since = heard.since
      BY <1>t, <3>1 DEF HeaderCancelsResume, Heard, TimersType, HeardType
    <3> QED  BY <3>1, <3>2 DEF Counted
  <2>3. CASE ~breaks /\ ~acts
    BY <1>3, <2>3 DEF SameHeader, Counted
  <2>4. CASE ~breaks /\ ~breakIn.on
    BY <1>3, <2>4 DEF SameHeader, Counted
  <2> QED  BY <2>1, <2>2, <2>3, <2>4
<1>4. CASE SameEom
  <2>1. /\ timers' = [timers EXCEPT !.eom = Grace] /\ heard' = [heard EXCEPT !.eom = TRUE]
        /\ breakIn' = breakIn
    BY <1>4 DEF SameEom
  <2>2. timers'.revert = timers.revert /\ heard'.since = heard.since /\ heard'.eom
    BY <1>t, <2>1 DEF TimersType, HeardType
  <2> QED  BY <2>1, <2>2 DEF Counted
<1>5. CASE Tick
  <2>1. CASE breakIn.on
    <3>1. /\ timers' = [revert |-> Less(timers.revert), eom |-> Less(timers.eom)]
          /\ heard' = [heard EXCEPT !.since = Cap(@)]
          /\ timers.revert # 0 /\ timers.eom # 0
      BY <1>5, <2>1 DEF Tick
    <3>2. /\ timers'.revert = Less(timers.revert) /\ timers'.eom = Less(timers.eom)
          /\ heard'.since = Cap(heard.since) /\ heard'.eom = heard.eom
      BY <1>t, <3>1 DEF TimersType, HeardType
    <3>3. /\ timers.revert \in Nat \cup {Off} /\ timers.eom \in Nat \cup {Off}
          /\ heard.since \in 0..MinHold
      BY <1>t DEF TimersType, HeardType
    <3> QED  BY <1>t, <2>1, <3>1, <3>2, <3>3 DEF Less, Cap, Counted
  <2>2. CASE ~breakIn.on  BY <1>5, <2>2 DEF Tick, Counted
  <2> QED  BY <2>1, <2>2
<1>6. CASE UNCHANGED vars  BY <1>6 DEF vars, Counted
<1>7. ASSUME NEW m \in Modes, SetMode(m) PROVE ~breakIn'.on  BY <1>7, <1>b DEF SetMode
<1>8. (Revert => ~breakIn'.on) /\ (Restart => ~breakIn'.on)
  <2>1. ASSUME Revert PROVE ~breakIn'.on  BY <1>b, <2>1 DEF Revert
  <2>2. ASSUME Restart PROVE ~breakIn'.on  BY SMTT(60), <2>2 DEF Restart
  <2> QED  BY <2>1, <2>2
<1>9. ASSUME \/ \E f \in Freqs : SetMonitor(f) \/ AddChannel(f) \/ DeleteChannel(f)
             \/ \E f \in Freqs : FileDiscovery(f)
             \/ \E c \in Configs : PutConfig(c)
             \/ StopMonitor \/ StartScan \/ StopScan \/ SkipHf \/ HfTick \/ HfSurvey
             \/ PutWeatherChannel \/ Sample
      PROVE  UNCHANGED sameVars
  BY ZenonT(60), <1>9 DEF SetMonitor, StopMonitor, StartScan, StopScan, SkipHf, HfTick, HfSurvey, Apply,
     PutConfig, AddChannel, DeleteChannel, Reload, PutWeatherChannel, FileDiscovery, Sample
<1> QED
  BY <1>1, <1>2, <1>3, <1>4, <1>5, <1>6, <1>7, <1>8, <1>9 DEF Next, OperatorStep, RadioStep

\* An alert that breaks in holds the radio until the end of its message or the end of
\* its safety net, whatever other alerts, requests and timers come in between.
THEOREM BreakInHolds == Spec => []NeverCutShort
<1>1. Init => Counted  BY DEF Init, Counted
<1>2. IInv /\ Counted => NeverCutShort
  BY TimeAssumption DEF IInv, TypeOK, TimersType, HeardType, Counted, NeverCutShort, InBreakIn,
     TimerDue
<1> QED  BY <1>1, <1>2, CountedStep, Invariant, PTL DEF Spec

\* The operator's choice outlives alerts, sweep, thermal trips and restarts.
THEOREM ChoiceTheorem == Spec => []ChoiceKept
<1>1. ModeIsChoice /\ SavedIsChoice /\ HfFollowsMode /\ NeverCutShort => ChoiceKept  BY DEF ChoiceKept
<1> QED  BY <1>1, ChoiceStands, ChoiceSurvives, SweepFollows, BreakInHolds, PTL

-----------------------------------------------------------------------------
(* What the end of a break-in rests on, fairness of the timers apart: its   *)
(* net is armed from its first moment to its last, nothing puts it off, and *)
(* time does not pass once it is due.                                       *)

\* A break-in has its safety net, whatever the operator does meanwhile.
NetArmed == breakIn.on => timers.revert \in Nat

\* No later header, end of message or request puts the net of a break-in off, and each
\* tick brings it nearer.
NetNearer ==
  InBreakIn /\ InBreakIn' =>
    /\ timers'.revert <= timers.revert
    /\ Tick => timers'.revert < timers.revert
NetRunsDown == [][NetNearer]_vars

\* A step keeps the break-in's timers, ends the break-in, or is one of the three that move the net.
LEMMA NetMoves ==
  ASSUME TypeOK, Control, [Next]_vars
  PROVE  \/ UNCHANGED <<breakIn, timers>> /\ ~Tick
         \/ ~breakIn'.on /\ ~Tick
         \/ \E a \in Alerts : SameHeader(a) /\ ~Tick
         \/ SameEom /\ ~Tick
         \/ Tick
<1>b. ~[breakIn EXCEPT !.on = FALSE].on  BY BreakInOff DEF TypeOK
<1>1. ASSUME NEW m \in Modes, SetMode(m) PROVE ~breakIn'.on  BY <1>1, <1>b DEF SetMode
<1>2. (Revert => ~breakIn'.on) /\ (Restart => ~breakIn'.on)
  <2>1. ASSUME Revert PROVE ~breakIn'.on  BY <1>b, <2>1 DEF Revert
  <2>2. ASSUME Restart PROVE ~breakIn'.on  BY SMTT(60), <2>2 DEF Restart
  <2> QED  BY <2>1, <2>2
<1>3. ASSUME \/ \E f \in Freqs : SetMonitor(f) \/ AddChannel(f) \/ DeleteChannel(f)
             \/ \E f \in Freqs : FileDiscovery(f)
             \/ \E c \in Configs : PutConfig(c)
             \/ StopMonitor \/ StartScan \/ StopScan \/ SkipHf \/ HfTick \/ HfSurvey
             \/ PutWeatherChannel \/ Sample
      PROVE  UNCHANGED <<breakIn, timers>>
  BY ZenonT(60), <1>3 DEF SetMonitor, StopMonitor, StartScan, StopScan, SkipHf, HfTick, HfSurvey, Apply,
     PutConfig, AddChannel, DeleteChannel, Reload, PutWeatherChannel, FileDiscovery, Sample, sameVars
<1>4. UNCHANGED vars => UNCHANGED <<breakIn, timers>>  BY DEF vars
<1> QED  BY <1>1, <1>2, <1>3, <1>4 DEF Next, OperatorStep, RadioStep

\* What each of the three makes of the net.
LEMMA NetSteps ==
  ASSUME TypeOK, NetArmed
  PROVE  /\ \A a \in Alerts : SameHeader(a) =>
              \/ timers'.revert \in Nat /\ mode \in Preempted
              \/ breakIn' = breakIn /\ timers'.revert = timers.revert
         /\ SameEom => breakIn' = breakIn /\ timers'.revert = timers.revert
         /\ Tick => /\ breakIn' = breakIn
                    /\ breakIn.on => timers'.revert \in Nat /\ timers'.revert < timers.revert
<1>t. timers \in TimersType  BY DEF TypeOK
<1>1. ASSUME NEW a \in Alerts, SameHeader(a)
      PROVE  \/ timers'.revert \in Nat /\ mode \in Preempted
             \/ breakIn' = breakIn /\ timers'.revert = timers.revert
  <2>1. ASSUME mode \in Preempted, timers' = BreakInTimers(a) PROVE timers'.revert \in Nat
    <3>1. Hold[a] \in Nat  BY TimeAssumption
    <3> QED  BY <2>1, <3>1 DEF BreakInTimers
  <2>2. HeaderCancelsResume(timers).revert = timers.revert
    BY <1>t DEF HeaderCancelsResume, TimersType
  <2> QED  BY <1>1, <2>1, <2>2 DEF SameHeader
<1>2. ASSUME SameEom PROVE breakIn' = breakIn /\ timers'.revert = timers.revert
  BY <1>t, <1>2 DEF SameEom, TimersType
<1>3. ASSUME Tick
      PROVE  breakIn' = breakIn /\ (breakIn.on => timers'.revert \in Nat /\ timers'.revert < timers.revert)
  <2>1. breakIn' = breakIn /\ timers.revert # 0 /\ timers'.revert = Less(timers.revert)
    BY <1>3 DEF Tick
  <2> QED  BY <2>1 DEF NetArmed, Less
<1> QED  BY <1>1, <1>2, <1>3

LEMMA NetStep == IInv /\ NetArmed /\ [Next]_vars => NetArmed' /\ NetNearer
<1> SUFFICES ASSUME TypeOK, Control, NetArmed, [Next]_vars PROVE NetArmed' /\ NetNearer  BY DEF IInv
<1>1. CASE UNCHANGED <<breakIn, timers>> /\ ~Tick
  BY <1>1 DEF NetArmed, NetNearer, InBreakIn
<1>2. CASE ~breakIn'.on /\ ~Tick
  BY <1>2 DEF NetArmed, NetNearer, InBreakIn
<1>3. ASSUME NEW a \in Alerts, SameHeader(a), ~Tick PROVE NetArmed' /\ NetNearer
  <2>1. CASE timers'.revert \in Nat /\ mode \in Preempted
    BY <2>1 DEF NetArmed, NetNearer, InBreakIn
  <2>2. CASE breakIn' = breakIn /\ timers'.revert = timers.revert
    BY <1>3, <2>2 DEF NetArmed, NetNearer, InBreakIn
  <2> QED  BY <1>3, <2>1, <2>2, NetSteps
<1>4. CASE SameEom /\ ~Tick
  <2>1. breakIn' = breakIn /\ timers'.revert = timers.revert  BY <1>4, NetSteps
  <2> QED  BY <1>4, <2>1 DEF NetArmed, NetNearer, InBreakIn
<1>5. CASE Tick
  <2>1. breakIn' = breakIn /\ (breakIn.on => timers'.revert \in Nat /\ timers'.revert < timers.revert)
    BY <1>5, NetSteps
  <2> QED  BY <2>1 DEF NetArmed, NetNearer, InBreakIn
<1> QED  BY <1>1, <1>2, <1>3, <1>4, <1>5, NetMoves

\* A break-in cannot be put off for ever: its safety net is armed all the while and only runs
\* down, however many alerts, ends of messages and requests come in between.
THEOREM NetTheorem == Spec => []NetArmed /\ NetRunsDown
<1>1. Init => NetArmed  BY DEF Init, NetArmed
<1>2. IInv /\ NetArmed /\ [Next]_vars => NetArmed' /\ [NetNearer]_vars  BY NetStep
<1> QED  BY <1>1, <1>2, Invariant, PTL DEF Spec, NetRunsDown

-----------------------------------------------------------------------------
LEMMA ShedPlan ==
  ASSUME NEW c \in ConfigType, NEW m, NEW mon, NEW h
  PROVE  ~Running(ScanConfigFor(c, m, mon, h, TRUE)).plan.hunts
<1>1. ~[c EXCEPT !.hunts = @ /\ ~TRUE].hunts
  <2>1. ASSUME NEW b \in BOOLEAN PROVE [c EXCEPT !.hunts = b].hunts = b  BY DEF ConfigType
  <2>2. (c.hunts /\ ~TRUE) = FALSE  OBVIOUS
  <2> QED  BY <2>1, <2>2, Zenon
<1> DEFINE d == [c EXCEPT !.hunts = @ /\ ~TRUE]
<1> HIDE DEF d
<1>2. ~d.hunts  BY <1>1 DEF d
<1>3. ~PlanFor(d, m, mon, HfTune(h)).hunts  BY <1>2 DEF PlanFor
<1> QED  BY <1>3 DEF Running, ScanConfigFor, d

\* A hot box never gets a plan that hunts, by any path that gives the engine one.
THEOREM ShedHolds == Spec => ShedOnEveryTune
<1> DEFINE Shed == safety' /\ engine' # engine /\ engine'.on => ~engine'.plan.hunts
<1>1. TypeOK /\ TypeOK' /\ [Next]_vars => Shed
  <2> SUFFICES ASSUME TypeOK, TypeOK', [Next]_vars, safety', engine' # engine, engine'.on
               PROVE  ~engine'.plan.hunts
    OBVIOUS
  <2>t. config \in ConfigType /\ config' \in ConfigType /\ engine \in EngineType
    BY DEF TypeOK
  <2>1. CASE ~StopScan /\ ~Restart
    <3>1. \E c \in ConfigType : \E m, mon, h :
            engine' = Running(ScanConfigFor(c, m, mon, h, safety'))
      <4>1. ASSUME NEW m \in Modes, SetMode(m)
            PROVE engine' = Running(ScanConfigFor(config, m, None, hf', safety'))
        BY <4>1 DEF SetMode
      <4>2. ASSUME NEW f \in Freqs, SetMonitor(f)
            PROVE engine' = Running(ScanConfigFor(config, "monitor", f, HfOff, safety'))
        BY <4>2 DEF SetMonitor
      <4>3. ASSUME StopMonitor
            PROVE engine' = Running(ScanConfigFor(config, "scan", None, HfOff, safety'))
        BY <4>3 DEF StopMonitor
      <4>4. ASSUME StartScan
            PROVE engine' = Running(ScanConfigFor(config, mode, monitor, hf, safety'))
        BY <4>4 DEF StartScan
      <4>5. ASSUME NEW h, Apply(h)
            PROVE engine' = Running(ScanConfigFor(config, "hf", None, h, safety'))
        BY <4>5 DEF Apply
      <4>6. ASSUME NEW c, Reload(c)
            PROVE engine' = Running(ScanConfigFor(config', mode, monitor, hf, safety'))
        BY <4>6 DEF Reload
      <4>7. ASSUME NEW c \in Configs, PutConfig(c)
            PROVE \E m, mon : engine' = Running(ScanConfigFor(config', m, mon, hf, safety'))
        BY <4>7 DEF PutConfig
      <4>8. ASSUME NEW a \in Alerts, SameHeader(a)
            PROVE engine' = Running(ScanConfigFor(config, "weather", None, hf', safety'))
        BY <4>8 DEF SameHeader
      <4>9. ASSUME Revert
            PROVE engine' = Running(ScanConfigFor(config, mode', None, hf', safety'))
        BY <4>9 DEF Revert
      <4>10. ASSUME Sample
             PROVE engine' = Running(ScanConfigFor(config, mode, monitor, hf, safety'))
        BY <4>10 DEF Sample
      <4>11. ~SameEom /\ ~Tick /\ ~(\E f \in Freqs : FileDiscovery(f)) /\ ~UNCHANGED vars
        BY DEF SameEom, Tick, FileDiscovery, vars
      <4> QED
        BY ZenonT(60), <2>t, <2>1, <4>1, <4>2, <4>3, <4>4, <4>5, <4>6, <4>7, <4>8, <4>9, <4>10, <4>11
           DEF Next, OperatorStep, RadioStep, SkipHf, HfTick, HfSurvey, AddChannel,
               DeleteChannel, PutWeatherChannel
    <3> QED  BY <3>1, ShedPlan
  <2>2. CASE StopScan
    <3>1. ~engine'.on  BY <2>2, <2>t DEF StopScan, EngineType
    <3> QED  BY <3>1
  <2>3. CASE Restart  BY <2>3 DEF Restart
  <2> QED  BY <2>1, <2>2, <2>3
<1> QED  BY <1>1, ModeTypes, PTL DEF Spec, ShedOnEveryTune

-----------------------------------------------------------------------------
(* The engine is on what the mode says.  Inductive with Control: a step of   *)
(* the sweep is one of shortwave mode, and a revert lands in a mode with no  *)
(* monitored channel.  A document that keeps the plan keeps the engine; one  *)
(* that drops the monitored channel leaves an orphan.                        *)

\* Two plans that differ in the hunt alone.
SameStation(p, q) ==
  p.listen = q.listen /\ p.monitor = q.monitor /\ p.spy = q.spy /\ p.tune = q.tune

\* What the engine should be on, the hunt apart.
Station(c, m, mon, h) == PlanFor(c, m, mon, HfTune(h))

OnStation == engine.on => Orphaned \/ SameStation(engine.plan, Station(config, mode, monitor, hf))

\* A plan that was just computed is on its station, hot or not.
LEMMA PlannedIsOn ==
  ASSUME NEW c \in ConfigType, NEW m, NEW mon, NEW h, NEW hot
  PROVE  SameStation(ScanConfigFor(c, m, mon, h, hot), Station(c, m, mon, h))
<1> DEFINE d == [c EXCEPT !.hunts = @ /\ ~hot]
<1>1. d.scanned = c.scanned /\ d.wx = c.wx /\ d.spy = c.spy
  BY DEF ConfigType
<1> HIDE DEF d
<1>2. /\ PlanFor(d, m, mon, HfTune(h)).listen = PlanFor(c, m, mon, HfTune(h)).listen
      /\ PlanFor(d, m, mon, HfTune(h)).monitor = PlanFor(c, m, mon, HfTune(h)).monitor
      /\ PlanFor(d, m, mon, HfTune(h)).spy = PlanFor(c, m, mon, HfTune(h)).spy
      /\ PlanFor(d, m, mon, HfTune(h)).tune = PlanFor(c, m, mon, HfTune(h)).tune
  BY <1>1 DEF PlanFor
<1> QED  BY <1>2 DEF SameStation, Station, ScanConfigFor, d

\* So an engine that was just tuned is on its station.
LEMMA RetunedIsOn ==
  ASSUME NEW hot, config' \in ConfigType,
         engine' = Running(ScanConfigFor(config', mode', monitor', hf', hot))
  PROVE  OnStation'
<1>1. engine'.plan = ScanConfigFor(config', mode', monitor', hf', hot)
  BY DEF Running
<1>2. SameStation(engine'.plan, Station(config', mode', monitor', hf'))
  BY <1>1, PlannedIsOn
<1> QED  BY <1>2 DEF OnStation

\* Only the monitor mode looks at the monitored channel, and only shortwave at the sweep.
LEMMA StationIgnores ==
  ASSUME NEW c, NEW m, NEW mon, NEW non, NEW h, m # "monitor"
  PROVE  Station(c, m, mon, h) = Station(c, m, non, h)
BY DEF Station, PlanFor

\* An engine that was left alone is on its station when nothing it goes by has changed.
LEMMA LeftAlone ==
  ASSUME OnStation, UNCHANGED <<engine, mode>>,
         Station(config', mode', monitor', hf') = Station(config, mode, monitor, hf)
  PROVE  OnStation'
BY DEF OnStation, Orphaned

LEMMA OnStationStep == IInv /\ OnStation /\ [Next]_vars => OnStation'
<1> SUFFICES ASSUME TypeOK, TypeOK', Control, OnStation, [Next]_vars PROVE OnStation'
  BY TypeStep DEF IInv
<1>t. /\ config \in ConfigType /\ config' \in ConfigType /\ mode \in Modes /\ hf \in HfType
      /\ monitor \in Freqs \cup {None} /\ breakIn \in BreakInType /\ engine \in EngineType
  BY DEF TypeOK
<1>1. ASSUME NEW m \in Modes, SetMode(m) PROVE OnStation'
  <2>1. engine' = Running(ScanConfigFor(config', mode', monitor', hf', safety))
    BY <1>1 DEF SetMode, Chosen
  <2> QED  BY <1>t, <2>1, RetunedIsOn
<1>2. ASSUME NEW f \in Freqs, SetMonitor(f) PROVE OnStation'
  <2>1. engine' = Running(ScanConfigFor(config', mode', monitor', hf', safety))
    BY <1>2 DEF SetMonitor, Chosen
  <2> QED  BY <1>t, <2>1, RetunedIsOn
<1>3. CASE StopMonitor
  <2>1. engine' = Running(ScanConfigFor(config', mode', monitor', hf', safety))
    BY <1>3 DEF StopMonitor, Chosen
  <2> QED  BY <1>t, <2>1, RetunedIsOn
<1>4. CASE StartScan
  <2>1. engine' = Running(ScanConfigFor(config', mode', monitor', hf', safety))
    BY <1>4 DEF StartScan
  <2> QED  BY <1>t, <2>1, RetunedIsOn
<1>5. CASE StopScan
  <2>1. ~engine'.on  BY <1>5, <1>t DEF StopScan, EngineType
  <2> QED  BY <2>1 DEF OnStation
<1>6. ASSUME NEW h, mode = "hf", Apply(h) PROVE OnStation'
  <2>1. CASE engine.on
    <3>1. /\ engine' = Running(ScanConfigFor(config', "hf", None, h, safety))
          /\ hf' = h /\ mode' = "hf"
      BY <1>6, <2>1 DEF Apply
    <3>2. SameStation(engine'.plan, Station(config', "hf", None, h))
      BY <1>t, <3>1, PlannedIsOn DEF Running
    <3>3. Station(config', "hf", None, h) = Station(config', "hf", monitor', h)
      BY StationIgnores
    <3> QED  BY <3>1, <3>2, <3>3 DEF OnStation
  <2>2. CASE ~engine.on  BY <1>6, <2>2 DEF Apply, OnStation
  <2> QED  BY <2>1, <2>2
<1>7. CASE SkipHf \/ HfTick \/ HfSurvey
  <2>1. mode = "hf"  BY <1>7 DEF SkipHf, HfTick, HfSurvey, Control, HfFollowsMode
  <2> QED  BY <1>6, <1>7, <2>1 DEF SkipHf, HfTick, HfSurvey
<1>8. ASSUME NEW c, Reload(c) PROVE OnStation'
  <2>1. engine' = Running(ScanConfigFor(config', mode', monitor', hf', safety))
    BY <1>8 DEF Reload
  <2> QED  BY <1>t, <2>1, RetunedIsOn
<1>9. ASSUME NEW c \in Configs, PutConfig(c) PROVE OnStation'
  <2> DEFINE orphan == mode = "monitor" /\ monitor # None /\ monitor \notin KnownFreqs(c)
             m == IF orphan THEN "scan" ELSE mode
             mon == IF orphan THEN None ELSE monitor
             plan(d) == PlanFor(d, m, mon, HfTune(HfOff))
  <2>1. config' = c /\ hf' = hf /\ mode' = m /\ monitor' = mon
    BY <1>9 DEF PutConfig, Chosen
  <2>2. CASE ScanChanged(plan(config), plan(c))
    <3>1. engine' = Running(ScanConfigFor(config', mode', monitor', hf', safety))
      BY <1>9, <2>1, <2>2 DEF PutConfig
    <3> QED  BY <1>t, <3>1, RetunedIsOn
  <2>3. CASE ~ScanChanged(plan(config), plan(c)) /\ ~orphan
    <3>1. engine' = engine /\ mode' = mode /\ monitor' = monitor
      BY <1>9, <2>3 DEF PutConfig, choiceVars
    <3>2. PlanFor(config, mode, monitor, HfTune(HfOff)) = PlanFor(c, mode, monitor, HfTune(HfOff))
      BY <2>3 DEF ScanChanged
    <3>3. SameStation(Station(c, mode, monitor, hf), Station(config, mode, monitor, hf))
      BY <3>2 DEF SameStation, Station, PlanFor
    <3> QED  BY <2>1, <3>1, <3>3 DEF OnStation, Orphaned, SameStation
  <2>4. CASE ~ScanChanged(plan(config), plan(c)) /\ orphan
    <3>1. engine' = engine /\ mode' = "scan"
      BY <1>9, <2>1, <2>4 DEF PutConfig
    <3>2. ASSUME engine.on PROVE Orphaned'
      <4>1. SameStation(engine.plan, Station(config, "monitor", monitor, hf))
        BY <2>4, <3>2 DEF OnStation, Orphaned
      <4>2. monitor \in Freqs /\ {monitor} \ {None} = {monitor}
        BY <1>t, <2>4
      <4>3. engine.plan.monitor /\ engine.plan.listen = {monitor}
        BY <4>1, <4>2 DEF SameStation, Station, PlanFor
      <4> QED  BY <3>1, <4>2, <4>3 DEF Orphaned
    <3> QED  BY <3>1, <3>2 DEF OnStation
  <2> QED  BY <2>2, <2>3, <2>4
<1>10. ASSUME NEW f \in Freqs, FileDiscovery(f) PROVE OnStation'
  <2>1. UNCHANGED <<engine, mode, monitor, hf>> /\ config' = [config EXCEPT !.listed = @ \cup {f}]
    BY <1>10 DEF FileDiscovery
  <2>2. config'.scanned = config.scanned /\ config'.wx = config.wx /\ config'.spy = config.spy
        /\ config'.hunts = config.hunts
    BY <1>t, <2>1 DEF ConfigType
  <2>3. Station(config', mode', monitor', hf') = Station(config, mode, monitor, hf)
    BY <2>1, <2>2 DEF Station, PlanFor
  <2> QED  BY <2>1, <2>3, LeftAlone
<1>11. ASSUME NEW a \in Alerts, SameHeader(a) PROVE OnStation'
  <2> DEFINE acts == a \in Covered /\ (a \in Tests => ShowTests)
             breaks == acts /\ a \notin Tests /\ mode \in Preempted /\ config.wx
  <2>1. CASE breaks
    <3>1. engine' = Running(ScanConfigFor(config', mode', monitor', hf', safety))
      BY <1>11, <2>1 DEF SameHeader
    <3> QED  BY <1>t, <3>1, RetunedIsOn
  <2>2. CASE ~breaks
    <3>1. UNCHANGED <<config, hf, mode, monitor, engine>>
      BY <1>11, <2>2 DEF SameHeader
    <3> QED  BY <3>1, LeftAlone
  <2> QED  BY <2>1, <2>2
<1>12. CASE Sample
  <2>1. UNCHANGED <<config, mode, monitor, hf>>  BY <1>12 DEF Sample
  <2>2. CASE engine' = engine  BY <2>1, <2>2, LeftAlone
  <2>3. CASE engine' # engine
    <3>1. engine' = Running(ScanConfigFor(config', mode', monitor', hf', safety'))
      BY <1>12, <2>1, <2>3 DEF Sample
    <3> QED  BY <1>t, <3>1, RetunedIsOn
  <2> QED  BY <2>2, <2>3
<1>13. CASE Revert
  <2>1. UNCHANGED <<config, monitor>>  BY <1>13 DEF Revert
  <2>2. CASE mode # "weather"
    <3>1. UNCHANGED <<mode, hf, engine>>  BY <1>13, <2>2 DEF Revert
    <3> QED  BY <2>1, <3>1, LeftAlone
  <2>3. CASE mode = "weather"
    <3>1. /\ engine' = Running(ScanConfigFor(config', mode', None, hf', safety))
          /\ mode' = breakIn.from
      BY <1>13, <2>1, <2>3 DEF Revert, Resumed
    <3>2. mode' # "monitor"  BY <1>t, <3>1 DEF BreakInType
    <3>3. SameStation(engine'.plan, Station(config', mode', None, hf'))
      BY <1>t, <3>1, PlannedIsOn DEF Running
    <3>4. Station(config', mode', None, hf') = Station(config', mode', monitor', hf')
      BY <3>2, StationIgnores
    <3> QED  BY <3>3, <3>4 DEF OnStation
  <2> QED  BY <2>2, <2>3
<1>14. CASE Restart
  <2>1. engine' = Running(ScanConfigFor(config', mode', monitor', hf', FALSE))
    BY <1>14 DEF Restart
  <2> QED  BY <1>t, <2>1, RetunedIsOn
<1>15. CASE Tick \/ SameEom \/ UNCHANGED vars
  <2>1. UNCHANGED <<config, mode, monitor, hf, engine>>  BY <1>15 DEF Tick, SameEom, vars
  <2> QED  BY <2>1, LeftAlone
<1> QED
  BY ZenonT(60), <1>1, <1>2, <1>3, <1>4, <1>5, <1>7, <1>8, <1>9, <1>10, <1>11, <1>12, <1>13, <1>14, <1>15
     DEF Next, OperatorStep, RadioStep, AddChannel, DeleteChannel, PutWeatherChannel

\* Whichever request, break-in, revert, sweep step, trip or restart came last, in whatever order:
\* a running engine is on what the mode, the document and the sweep say, the hunt apart.
THEOREM EngineTheorem == Spec => []EngineOnMode
<1>1. Init => OnStation
  <2> SUFFICES ASSUME Init PROVE OnStation  OBVIOUS
  <2>1. config \in ConfigType  BY ConfigAssumption DEF Init
  <2>2. engine.plan = ScanConfigFor(config, mode, monitor, hf, FALSE)  BY DEF Init, Running
  <2> QED  BY <2>1, <2>2, PlannedIsOn DEF OnStation
<1>2. IInv /\ OnStation => EngineOnMode
  <2> SUFFICES ASSUME TypeOK, OnStation, engine.on, ~Orphaned
               PROVE  LET plan == ScanConfigFor(config, mode, monitor, hf, safety)
                      IN  [engine.plan EXCEPT !.hunts = plan.hunts] = plan
    BY DEF IInv, EngineOnMode
  <2> DEFINE plan == ScanConfigFor(config, mode, monitor, hf, safety)
             p == engine.plan
             q == Station(config, mode, monitor, hf)
  <2>1. Running(plan) \in EngineType /\ engine \in EngineType /\ config \in ConfigType
    BY ScanConfigForType DEF TypeOK
  <2>2. plan \in PlanType /\ p \in PlanType
    BY <2>1 DEF EngineType, Running
  <2>3. SameStation(p, q) /\ SameStation(plan, q)
    BY <2>1, PlannedIsOn DEF OnStation
  <2> HIDE DEF plan, p, q
  <2>4. SameStation(p, plan)  BY <2>3 DEF SameStation
  <2>5. [p EXCEPT !.hunts = plan.hunts] = plan
    BY <2>2, <2>4 DEF SameStation, PlanType
  <2> QED  BY <2>5 DEF plan, p
<1> QED  BY <1>1, <1>2, OnStationStep, Invariant, PTL DEF Spec


-----------------------------------------------------------------------------
(***************************************************************************)
(* Proofs about the wall page's stages: in the middle of a change of mind   *)
(* no stage is blank, and what it shows is drawn once.                      *)
(***************************************************************************)

WallFields ==
  {"seen", "mode", "breakIn", "map", "cbOn", "cbTimer", "cbLive", "cbHit", "rings", "hfOn", "hfStage", "hfWait",
   "hfZoom", "greyTimer", "zoomDone", "pictures", "plays", "error", "log", "logLoaded", "heardDue", "known", "hit",
   "fading", "lost", "under", "key", "traces", "line", "fades", "dirty"}

\* A picture is awaited by a zoom that was asked for.
Picture(p) == DOMAIN p = {"id", "what", "dir"} /\ p.what = "picture" /\ p.dir \in {"out", "in"}

\* The stages are the mode's, but for the Atlas while the wall zooms in on the map; a zoom goes over a
\* map that runs, out to the Atlas or in from it; and what is in view is drawn.
StageRight(w) ==
  LET z == w.zoomDone
      inView == ~w.cbOn /\ (~w.hfStage \/ w.hfWait \/ w.hfZoom)
  IN  /\ {w.cbOn, w.hfOn, w.hfStage, w.hfWait, w.hfZoom, w.cbTimer, w.greyTimer} \subseteq BOOLEAN
      /\ \A p \in w.pictures : Picture(p)
      /\ z = NoZoom \/ (z.what \in {"picture", "run"} /\ z.dir \in {"out", "in"} /\ w.map = "live")
      /\ (w.hfOn <=> w.mode = "hf") /\ (w.cbOn <=> w.mode = "cb")
      /\ (z.dir = "out" => w.hfOn) /\ (z.dir = "in" => ~w.hfOn /\ ~w.cbOn)
      /\ (w.map = "paused" => ~inView) /\ (w.map = "live" /\ z = NoZoom => inView)
      /\ (w.hfStage <=> w.hfOn \/ z.dir = "in") /\ (w.hfWait <=> z.dir = "out") /\ (w.hfZoom <=> z.what = "run")
      /\ (w.cbTimer <=> w.cbOn) /\ (w.greyTimer <=> w.hfOn)

\* On the Atlas the line is the station that is hit or fading; away from it the line is gone, or goes
\* with the zoom.
LineDrawn(w) ==
  /\ {w.known, w.under, w.fades, w.dirty} \subseteq BOOLEAN /\ w.log \subseteq Stations
  /\ w.hfOn =>
       /\ w.line = IF w.hit # NoStation THEN w.hit ELSE w.fading
       /\ w.fades => w.hit = NoStation
       /\ ~w.known => w.hit = NoStation
       /\ w.key # << >> => w.traces = w.key[1] \ {w.key[2]}
  /\ ~w.hfOn => w.hit = NoStation /\ w.fading = NoStation /\ ~w.known /\ w.key = << >>
  /\ ~w.hfOn /\ w.zoomDone.dir # "in" => w.line = NoStation /\ ~w.fades

\* The traces are of the log but for the line, since the last paint.
TracesDrawn(w) == w.hfOn /\ ~w.dirty => w.traces = w.log \ {IF w.under THEN NoStation ELSE w.line}

LineRight(w) == LineDrawn(w) /\ TracesDrawn(w)

\* The rings are on while the dial knows its channel to be live, and no error to cover it.
RingsRight(w) ==
  /\ {w.cbHit, w.cbLive, w.error} \subseteq BOOLEAN
  /\ w.rings = "on" <=> w.cbHit
  /\ ~w.cbOn => ~w.cbHit
  /\ w.cbOn /\ ~w.dirty => (w.cbHit <=> w.cbLive /\ ~w.error)

WallRight(w) == DOMAIN w = WallFields /\ StageRight(w) /\ LineRight(w) /\ RingsRight(w)

\* What each of the three is about.
SameZoom(q, p) ==
  /\ q.hfWait = p.hfWait /\ q.hfZoom = p.hfZoom /\ q.zoomDone = p.zoomDone /\ q.pictures = p.pictures
SameStage(q, p) ==
  /\ q.mode = p.mode /\ q.cbOn = p.cbOn /\ q.hfOn = p.hfOn /\ q.hfStage = p.hfStage
  /\ q.cbTimer = p.cbTimer /\ q.greyTimer = p.greyTimer /\ SameZoom(q, p)
SameHit(q, p) ==
  /\ q.known = p.known /\ q.hit = p.hit /\ q.fading = p.fading /\ q.under = p.under
  /\ q.key = p.key /\ q.traces = p.traces /\ q.log = p.log
SameLine(q, p) == SameHit(q, p) /\ q.line = p.line /\ q.fades = p.fades
SameRings(q, p) == q.cbHit = p.cbHit /\ q.rings = p.rings /\ q.cbLive = p.cbLive /\ q.error = p.error

LEMMA ZoomPlain ==
  /\ NoZoom.what = "none" /\ NoZoom.dir = "none"
  /\ \A z : z.what \in {"picture", "run"} => z # NoZoom
BY DEF NoZoom

\* A page whose stages, line and rings are another's is right when that is, and may be dirtier.
LEMMA RightAlike ==
  ASSUME NEW p, NEW q, WallRight(p), DOMAIN q = WallFields, SameStage(q, p), q.map = p.map, SameLine(q, p),
         SameRings(q, p), q.dirty \in BOOLEAN, q.dirty \/ q.dirty = p.dirty
  PROVE  WallRight(q)
<1>1. StageRight(q)
  BY Zenon DEF WallRight, StageRight, SameStage, SameZoom
<1>2. LineRight(q)
  BY Zenon DEF WallRight, LineRight, LineDrawn, TracesDrawn, SameStage, SameZoom, SameLine, SameHit
<1>3. RingsRight(q)
  BY Zenon DEF WallRight, RingsRight, SameStage, SameRings
<1> QED BY <1>1, <1>2, <1>3 DEF WallRight

\* The map runs while no stage covers it, if it has mounted.
MapOf(map, cb, hf0) == IF map \notin {"live", "paused"} THEN map ELSE IF ~cb /\ ~hf0 THEN "live" ELSE "paused"

LEMMA MapSyncs ==
  ASSUME NEW p, DOMAIN p = WallFields
  PROVE  LET q == SyncMap(p)
         IN  /\ DOMAIN q = WallFields /\ SameStage(q, p) /\ SameLine(q, p) /\ SameRings(q, p) /\ q.dirty = p.dirty
             /\ q.map = MapOf(p.map, p.cbOn, p.hfOn)
BY DEF SyncMap, MapShouldRun, MapOf, WallFields, SameStage, SameZoom, SameLine, SameHit, SameRings

\* No zoom under way: the stages are the mode's.
LEMMA StageAtRest ==
  ASSUME NEW q, q.zoomDone = NoZoom, {q.cbOn, q.hfOn} \subseteq BOOLEAN, \A p \in q.pictures : Picture(p),
         q.hfOn <=> q.mode = "hf", q.cbOn <=> q.mode = "cb", q.hfWait = FALSE, q.hfZoom = FALSE,
         q.hfStage = q.hfOn, q.cbTimer = q.cbOn, q.greyTimer = q.hfOn, q.map = MapOf(q.map, q.cbOn, q.hfOn)
  PROVE  StageRight(q)
<1>1. NoZoom.what # "run" /\ NoZoom.dir # "out" /\ NoZoom.dir # "in"
  BY DEF NoZoom
<1>2. (q.map = "paused" => q.cbOn \/ q.hfOn) /\ (q.map = "live" => ~q.cbOn /\ ~q.hfOn)
  BY DEF MapOf
<1> QED BY <1>1, <1>2, Zenon DEF StageRight

LEMMA LineAlike ==
  ASSUME NEW p, NEW q, LineRight(p), SameLine(q, p), q.hfOn = p.hfOn, q.dirty = p.dirty,
         ~p.hfOn => q.zoomDone.dir = p.zoomDone.dir
  PROVE  LineRight(q)
BY Zenon DEF LineRight, LineDrawn, TracesDrawn, SameLine, SameHit

\* A zoom that is finished leaves the stages of the mode, and the map as they cover it.
Rested(q, p) ==
  /\ WallRight(q) /\ q.zoomDone = NoZoom /\ q.mode = p.mode /\ q.cbOn = p.cbOn /\ q.hfOn = p.hfOn
  /\ q.dirty = p.dirty /\ (p.map \in {"live", "paused"} => q.map \in {"live", "paused"})

LEMMA ZoomFinished == ASSUME NEW w, WallRight(w) PROVE Rested(FinishZoom(w), w)
<1> DEFINE z == w.zoomDone
<1> DEFINE a == [w EXCEPT !.zoomDone = NoZoom, !.hfZoom = IF z.what = "run" THEN FALSE ELSE @]
<1>1. CASE z = NoZoom
  BY <1>1 DEF FinishZoom, Rested
<1>2. CASE z # NoZoom
  <2>1. z.what \in {"picture", "run"} /\ z.dir \in {"out", "in"} /\ w.map = "live"
    BY <1>2 DEF WallRight, StageRight
  <2>2. FinishZoom(w) = AfterZoom(a, z.dir)
    BY <1>2 DEF FinishZoom
  <2>3. /\ DOMAIN a = WallFields /\ a.zoomDone = NoZoom /\ a.hfZoom = FALSE /\ a.hfWait = w.hfWait /\ a.mode = w.mode
        /\ a.cbOn = w.cbOn /\ a.hfOn = w.hfOn /\ a.hfStage = w.hfStage /\ a.cbTimer = w.cbTimer /\ a.greyTimer = w.greyTimer
        /\ a.pictures = w.pictures /\ a.map = "live" /\ SameLine(a, w) /\ SameRings(a, w) /\ a.dirty = w.dirty
    <3>1. w.hfZoom = (z.what = "run")
      BY Zenon DEF WallRight, StageRight
    <3>2. (IF z.what = "run" THEN FALSE ELSE w.hfZoom) = FALSE
      BY <3>1
    <3> QED BY <2>1, <3>2 DEF WallRight, WallFields, SameLine, SameHit, SameRings
  <2> HIDE DEF a
  <2>4. CASE z.dir = "out"
    <3> DEFINE b == [a EXCEPT !.hfWait = FALSE]
    <3> DEFINE q == SyncMap(b)
    <3>1. /\ DOMAIN b = WallFields /\ b.hfWait = FALSE /\ b.hfZoom = a.hfZoom /\ b.zoomDone = a.zoomDone /\ b.mode = a.mode
          /\ b.cbOn = a.cbOn /\ b.hfOn = a.hfOn /\ b.hfStage = a.hfStage /\ b.cbTimer = a.cbTimer /\ b.greyTimer = a.greyTimer
          /\ b.pictures = a.pictures /\ b.map = a.map /\ SameLine(b, a) /\ SameRings(b, a) /\ b.dirty = a.dirty
      BY <2>3 DEF WallFields, SameLine, SameHit, SameRings
    <3> HIDE DEF b
    <3>2. /\ DOMAIN q = WallFields /\ SameStage(q, b) /\ SameLine(q, b) /\ SameRings(q, b) /\ q.dirty = b.dirty
          /\ q.map = MapOf(b.map, b.cbOn, b.hfOn)
      BY <3>1, MapSyncs
    <3> HIDE DEF q
    <3>3. w.hfOn /\ ~w.cbOn /\ w.hfStage
      BY <2>4, Zenon DEF WallRight, StageRight
    <3>4. q.map = "paused"
      BY <2>3, <3>1, <3>2, <3>3 DEF MapOf
    <3>5. StageRight(q)
      <4>1. /\ q.zoomDone = NoZoom /\ q.cbOn = w.cbOn /\ q.hfOn = w.hfOn /\ q.pictures = w.pictures /\ q.mode = w.mode
            /\ q.hfWait = FALSE /\ q.hfZoom = FALSE /\ q.hfStage = w.hfStage /\ q.cbTimer = w.cbTimer /\ q.greyTimer = w.greyTimer
        BY <2>3, <3>1, <3>2, Zenon DEF SameStage, SameZoom
      <4>2. /\ {w.cbOn, w.hfOn, w.hfStage, w.cbTimer, w.greyTimer} \subseteq BOOLEAN /\ \A p \in w.pictures : Picture(p)
            /\ (w.hfOn <=> w.mode = "hf") /\ (w.cbOn <=> w.mode = "cb") /\ (w.cbTimer <=> w.cbOn) /\ (w.greyTimer <=> w.hfOn)
        BY Zenon DEF WallRight, StageRight
      <4>3. w.hfStage = w.hfOn /\ w.cbTimer = w.cbOn /\ w.greyTimer = w.hfOn
        BY <3>3, <4>2
      <4>4. q.map = MapOf(q.map, q.cbOn, q.hfOn)
        BY <3>3, <3>4, <4>1 DEF MapOf
      <4> QED BY <4>1, <4>2, <4>3, <4>4, StageAtRest
    <3>6. LineRight(q)
      <4>1. LineRight(w) /\ SameLine(q, w) /\ q.hfOn = w.hfOn /\ q.dirty = w.dirty
        BY <2>3, <3>1, <3>2, Zenon DEF WallRight, SameStage, SameLine, SameHit
      <4> QED BY <3>3, <4>1, LineAlike
    <3>7. RingsRight(q)
      <4>1. SameRings(q, w) /\ q.cbOn = w.cbOn /\ q.dirty = w.dirty
        <5>1. q.cbHit = b.cbHit /\ q.rings = b.rings /\ q.cbLive = b.cbLive /\ q.error = b.error /\ q.cbOn = b.cbOn /\ q.dirty = b.dirty
          BY <3>2, Zenon DEF SameStage, SameRings
        <5>2. b.cbHit = a.cbHit /\ b.rings = a.rings /\ b.cbLive = a.cbLive /\ b.error = a.error /\ b.cbOn = a.cbOn /\ b.dirty = a.dirty
          BY <3>1, Zenon DEF SameRings
        <5>3. a.cbHit = w.cbHit /\ a.rings = w.rings /\ a.cbLive = w.cbLive /\ a.error = w.error /\ a.cbOn = w.cbOn /\ a.dirty = w.dirty
          BY <2>3, Zenon DEF SameRings
        <5> QED BY <5>1, <5>2, <5>3, Zenon DEF SameRings
      <4>2. RingsRight(w)
        BY Zenon DEF WallRight
      <4> QED BY <4>1, <4>2, Zenon DEF RingsRight, SameRings
    <3>8. FinishZoom(w) = q
      BY <2>2, <2>4 DEF AfterZoom, b, q
    <3> QED BY <2>3, <3>1, <3>2, <3>4, <3>5, <3>6, <3>7, <3>8 DEF Rested, WallRight, SameStage, SameZoom
  <2>5. CASE z.dir = "in"
    <3> DEFINE q == [Wipe(a) EXCEPT !.hfStage = FALSE]
    <3>1. /\ DOMAIN q = WallFields /\ q.hfWait = a.hfWait /\ q.hfZoom = a.hfZoom /\ q.zoomDone = a.zoomDone /\ q.mode = a.mode
          /\ q.cbOn = a.cbOn /\ q.hfOn = a.hfOn /\ q.hfStage = FALSE /\ q.cbTimer = a.cbTimer /\ q.greyTimer = a.greyTimer
          /\ q.pictures = a.pictures /\ q.map = a.map /\ SameHit(q, a) /\ q.line = NoStation /\ q.fades = FALSE
          /\ SameRings(q, a) /\ q.dirty = a.dirty
      BY <2>3 DEF Wipe, WallFields, SameHit, SameRings
    <3> HIDE DEF q
    <3>2. ~w.hfOn /\ ~w.cbOn /\ ~w.hfWait
      BY <2>5, Zenon DEF WallRight, StageRight
    <3>3. StageRight(q)
      <4>1. /\ q.zoomDone = NoZoom /\ q.cbOn = w.cbOn /\ q.hfOn = w.hfOn /\ q.pictures = w.pictures /\ q.mode = w.mode
            /\ q.hfWait = w.hfWait /\ q.hfZoom = FALSE /\ q.hfStage = FALSE /\ q.cbTimer = w.cbTimer
            /\ q.greyTimer = w.greyTimer /\ q.map = "live"
        BY <2>3, <3>1, Zenon
      <4>2. /\ {w.cbOn, w.hfOn, w.hfWait, w.cbTimer, w.greyTimer} \subseteq BOOLEAN /\ \A p \in w.pictures : Picture(p)
            /\ (w.hfOn <=> w.mode = "hf") /\ (w.cbOn <=> w.mode = "cb") /\ (w.cbTimer <=> w.cbOn) /\ (w.greyTimer <=> w.hfOn)
        BY Zenon DEF WallRight, StageRight
      <4>3. w.hfOn = FALSE /\ w.hfWait = FALSE /\ w.cbTimer = w.cbOn /\ w.greyTimer = w.hfOn
        BY <3>2, <4>2
      <4>4. q.map = MapOf(q.map, q.cbOn, q.hfOn)
        BY <3>2, <4>1 DEF MapOf
      <4> QED BY <4>1, <4>2, <4>3, <4>4, StageAtRest
    <3>4. LineRight(q)
      BY <2>3, <3>1, <3>2, Zenon DEF WallRight, LineRight, LineDrawn, TracesDrawn, SameLine, SameHit
    <3>5. RingsRight(q)
      BY <2>3, <3>1, Zenon DEF WallRight, RingsRight, SameRings
    <3>6. FinishZoom(w) = q
      BY <2>2, <2>5 DEF AfterZoom, q
    <3> QED BY <2>3, <3>1, <3>3, <3>4, <3>5, <3>6 DEF Rested, WallRight
  <2> QED BY <2>1, <2>4, <2>5
<1> QED BY <1>1, <1>2

-----------------------------------------------------------------------------
(* A status that comes. *)

\* Between two steps of it the stages are the old mode's or the new one's, with no zoom under way.
Between(v) ==
  /\ DOMAIN v = WallFields /\ {v.cbOn, v.hfOn} \subseteq BOOLEAN /\ \A p \in v.pictures : Picture(p)
  /\ v.zoomDone = NoZoom /\ v.hfWait = FALSE /\ v.hfZoom = FALSE /\ v.hfStage = v.hfOn
  /\ v.cbTimer = v.cbOn /\ v.greyTimer = v.hfOn /\ v.map = MapOf(v.map, v.cbOn, v.hfOn)
  /\ LineDrawn(v) /\ RingsRight(v)

LEMMA RestedBetween == ASSUME NEW q, WallRight(q), q.zoomDone = NoZoom PROVE Between(q)
<1>1. NoZoom.what # "run" /\ NoZoom.dir # "out" /\ NoZoom.dir # "in"
  BY DEF NoZoom
<1>2. /\ {q.cbOn, q.hfOn, q.hfStage, q.hfWait, q.hfZoom, q.cbTimer, q.greyTimer} \subseteq BOOLEAN
      /\ \A p \in q.pictures : Picture(p)
      /\ ~q.hfWait /\ ~q.hfZoom /\ (q.hfStage <=> q.hfOn) /\ (q.cbTimer <=> q.cbOn) /\ (q.greyTimer <=> q.hfOn)
      /\ (q.map = "paused" => q.cbOn \/ q.hfOn) /\ (q.map = "live" => ~q.cbOn /\ ~q.hfOn)
  BY <1>1, Zenon DEF WallRight, StageRight
<1>3. q.hfWait = FALSE /\ q.hfZoom = FALSE /\ q.hfStage = q.hfOn /\ q.cbTimer = q.cbOn /\ q.greyTimer = q.hfOn
  BY <1>2
<1>4. q.map = MapOf(q.map, q.cbOn, q.hfOn)
  BY <1>2 DEF MapOf
<1>5. {q.cbOn, q.hfOn} \subseteq BOOLEAN
  BY <1>2
<1> QED BY <1>2, <1>3, <1>4, <1>5, Zenon DEF Between, WallRight, LineRight

LEMMA BetweenRight ==
  ASSUME NEW q, Between(q), q.hfOn <=> q.mode = "hf", q.cbOn <=> q.mode = "cb" PROVE StageRight(q)
BY StageAtRest DEF Between

\* setCbStage().
LEMMA CbSets ==
  ASSUME NEW v, Between(v), NEW on \in BOOLEAN
  PROVE  LET q == SetCbStage(v, on)
         IN  /\ Between(q) /\ q.cbOn = on /\ q.hfOn = v.hfOn /\ q.mode = v.mode /\ SameLine(q, v)
             /\ (q.dirty = v.dirty \/ q.dirty = TRUE) /\ (v.map \in {"live", "paused"} => q.map \in {"live", "paused"})
             /\ q.cbLive = v.cbLive
<1> DEFINE a == [v EXCEPT !.cbOn = on, !.cbTimer = on, !.dirty = TRUE,
                         !.cbHit = on /\ @, !.rings = IF on THEN @ ELSE "none"]
<1> DEFINE q == SyncMap(a)
<1>1. CASE on = v.cbOn
  BY <1>1 DEF SetCbStage, SameLine, SameHit
<1>2. CASE on # v.cbOn
  <2>1. /\ DOMAIN a = WallFields /\ a.cbOn = on /\ a.cbTimer = on /\ a.dirty = TRUE /\ a.cbHit = (on /\ v.cbHit)
        /\ a.rings = (IF on THEN v.rings ELSE "none") /\ a.cbLive = v.cbLive /\ a.error = v.error /\ a.hfOn = v.hfOn /\ a.hfStage = v.hfStage
        /\ a.greyTimer = v.greyTimer /\ SameZoom(a, v) /\ a.map = v.map /\ a.mode = v.mode /\ SameLine(a, v)
    BY DEF WallFields, SameZoom, SameLine, SameHit, Between
  <2> HIDE DEF a
  <2>2. /\ DOMAIN q = WallFields /\ SameStage(q, a) /\ SameLine(q, a) /\ SameRings(q, a) /\ q.dirty = a.dirty
        /\ q.map = MapOf(a.map, a.cbOn, a.hfOn)
    BY <2>1, MapSyncs
  <2>3. SetCbStage(v, on) = q
    BY <1>2 DEF SetCbStage, a
  <2> HIDE DEF q
  <2>4. /\ q.cbOn = on /\ q.cbTimer = on /\ q.hfOn = v.hfOn /\ q.hfStage = v.hfStage /\ q.greyTimer = v.greyTimer
        /\ q.zoomDone = v.zoomDone /\ q.hfWait = v.hfWait /\ q.hfZoom = v.hfZoom /\ q.pictures = v.pictures
        /\ q.mode = v.mode /\ SameLine(q, v) /\ q.dirty = TRUE /\ q.cbHit = (on /\ v.cbHit)
        /\ q.rings = (IF on THEN v.rings ELSE "none") /\ q.cbLive = v.cbLive /\ q.error = v.error /\ q.map = MapOf(v.map, on, v.hfOn)
    BY <2>1, <2>2, Zenon DEF SameStage, SameZoom, SameLine, SameHit, SameRings
  <2>5. q.map = MapOf(q.map, q.cbOn, q.hfOn) /\ (v.map \in {"live", "paused"} => q.map \in {"live", "paused"})
    BY <2>4 DEF MapOf
  <2>6. LineDrawn(q)
    BY <2>4, Zenon DEF Between, LineDrawn, SameLine, SameHit
  <2>7. RingsRight(q)
    <3>1. {v.cbHit, v.cbLive, v.error} \subseteq BOOLEAN /\ (v.rings = "on" <=> v.cbHit) /\ (~v.cbOn => ~v.cbHit)
      BY Zenon DEF Between, RingsRight
    <3>2. CASE on
      BY <1>2, <2>4, <3>1, <3>2 DEF RingsRight, Between
    <3>3. CASE ~on
      BY <2>4, <3>1, <3>3 DEF RingsRight
    <3> QED BY <3>2, <3>3
  <2>8. {q.cbOn, q.hfOn} \subseteq BOOLEAN
    BY <2>4, Zenon DEF Between
  <2>9. Between(q)
    BY <2>2, <2>4, <2>5, <2>6, <2>7, <2>8, Zenon DEF Between
  <2> QED BY <2>3, <2>4, <2>5, <2>9
<1> QED BY <1>1, <1>2

\* zoomWhenReady().
LEMMA ZoomAsks ==
  ASSUME NEW p, DOMAIN p = WallFields, \A x \in p.pictures : Picture(x), NEW dir \in {"out", "in"}
  PROVE  LET q == ZoomWhenReady(p, dir)
         IN  /\ DOMAIN q = WallFields /\ (\A x \in q.pictures : Picture(x))
             /\ q.zoomDone # NoZoom /\ q.zoomDone.what = "picture" /\ q.zoomDone.dir = dir
             /\ q.mode = p.mode /\ q.cbOn = p.cbOn /\ q.hfOn = p.hfOn /\ q.hfStage = p.hfStage
             /\ q.cbTimer = p.cbTimer /\ q.greyTimer = p.greyTimer /\ q.hfWait = p.hfWait /\ q.hfZoom = p.hfZoom
             /\ q.map = p.map /\ SameLine(q, p) /\ SameRings(q, p) /\ q.dirty = p.dirty
<1>1. PICK z : /\ z = [id |-> CHOOSE i \in {j \in 1 .. 9 : \A x \in p.pictures : x.id # j} : TRUE,
                       what |-> "picture", dir |-> dir]
  OBVIOUS
<1>2. Picture(z) /\ z.dir = dir /\ z # NoZoom
  BY <1>1 DEF Picture, NoZoom
<1>3. ZoomWhenReady(p, dir) = [p EXCEPT !.zoomDone = z, !.pictures = @ \cup {z}]
  BY <1>1 DEF ZoomWhenReady
<1>4. z.what = "picture"
  BY <1>1
<1> QED BY <1>2, <1>3, <1>4 DEF WallFields, SameLine, SameHit, SameRings

\* What a step of a status makes of the Atlas: right for the mode, and to be painted if it changed.
HfRight(q, v) ==
  /\ DOMAIN q = WallFields /\ StageRight(q) /\ LineDrawn(q) /\ RingsRight(q)
  /\ q.dirty = v.dirty /\ q.cbLive = v.cbLive /\ (q.hfOn = v.hfOn => q = v)

\* setHfStage(true).
LEMMA HfEnters ==
  ASSUME NEW v, Between(v), v.hfOn = FALSE, v.mode = "hf", v.cbOn = FALSE, NEW zoom,
         zoom = "out" => v.map \in {"live", "paused"}
  PROVE  HfRight(EnterHf(v, zoom), v)
<1> DEFINE e == [v EXCEPT !.hfOn = TRUE, !.hfStage = TRUE, !.greyTimer = TRUE, !.heardDue = TRUE]
<1>1. FinishZoom(v) = v
  BY DEF FinishZoom, Between
<1>2. /\ DOMAIN e = WallFields /\ e.hfOn = TRUE /\ e.hfStage = TRUE /\ e.greyTimer = TRUE /\ e.mode = v.mode
      /\ e.cbOn = v.cbOn /\ e.cbTimer = v.cbTimer /\ SameZoom(e, v) /\ e.map = v.map /\ SameLine(e, v) /\ SameRings(e, v)
      /\ e.dirty = v.dirty
  BY DEF WallFields, SameZoom, SameLine, SameHit, SameRings, Between
<1>3. NoZoom.dir # "in" /\ NoZoom.dir # "out" /\ NoZoom.what # "run"
  BY DEF NoZoom
<1>4. /\ v.line = NoStation /\ v.fades = FALSE /\ v.hit = NoStation /\ v.fading = NoStation /\ v.key = << >>
      /\ {v.known, v.under, v.dirty} \subseteq BOOLEAN /\ v.log \subseteq Stations
  <2>1. {v.known, v.under, v.dirty, v.fades} \subseteq BOOLEAN /\ ~v.fades
    BY <1>3, Zenon DEF Between, LineDrawn
  <2>2. v.fades = FALSE
    BY <2>1
  <2> QED BY <1>3, <2>1, <2>2, Zenon DEF Between, LineDrawn
<1>5. ASSUME NEW q, SameLine(q, v), q.dirty = v.dirty, q.hfOn = TRUE PROVE LineDrawn(q)
  <2>1. /\ q.line = NoStation /\ q.fades = FALSE /\ q.hit = NoStation /\ q.fading = NoStation /\ q.key = << >>
        /\ {q.known, q.under, q.dirty} \subseteq BOOLEAN /\ q.log \subseteq Stations
    BY <1>4, <1>5, Zenon DEF SameLine, SameHit
  <2> QED BY <1>5, <2>1 DEF LineDrawn
<1>6. ASSUME NEW q, SameRings(q, v), q.cbOn = v.cbOn, q.dirty = v.dirty PROVE RingsRight(q)
  BY <1>6, Zenon DEF RingsRight, SameRings, Between
<1> HIDE DEF e
<1>7. CASE zoom = "out"
  <2> DEFINE f == [e EXCEPT !.hfWait = TRUE]
  <2> DEFINE q == ZoomWhenReady(f, "out")
  <2>1. /\ DOMAIN f = WallFields /\ f.hfWait = TRUE /\ f.hfOn = TRUE /\ f.hfStage = TRUE /\ f.greyTimer = TRUE
        /\ f.mode = v.mode /\ f.cbOn = v.cbOn /\ f.cbTimer = v.cbTimer /\ f.hfZoom = FALSE /\ f.pictures = v.pictures
        /\ f.map = v.map /\ SameLine(f, v) /\ SameRings(f, v) /\ f.dirty = v.dirty
    BY <1>2 DEF WallFields, SameZoom, SameLine, SameHit, SameRings, Between
  <2> HIDE DEF f
  <2>2. \A x \in f.pictures : Picture(x)
    BY <2>1 DEF Between
  <2>3. /\ DOMAIN q = WallFields /\ (\A x \in q.pictures : Picture(x))
        /\ q.zoomDone # NoZoom /\ q.zoomDone.what = "picture" /\ q.zoomDone.dir = "out"
        /\ q.mode = f.mode /\ q.cbOn = f.cbOn /\ q.hfOn = f.hfOn /\ q.hfStage = f.hfStage
        /\ q.cbTimer = f.cbTimer /\ q.greyTimer = f.greyTimer /\ q.hfWait = f.hfWait /\ q.hfZoom = f.hfZoom
        /\ q.map = f.map /\ SameLine(q, f) /\ SameRings(q, f) /\ q.dirty = f.dirty
    BY <2>1, <2>2, ZoomAsks
  <2> HIDE DEF q
  <2>4. v.map = "live" /\ v.cbTimer = FALSE
    BY <1>7 DEF Between, MapOf
  <2>5. /\ q.mode = "hf" /\ q.cbOn = FALSE /\ q.hfOn = TRUE /\ q.hfStage = TRUE /\ q.cbTimer = FALSE
        /\ q.greyTimer = TRUE /\ q.hfWait = TRUE /\ q.hfZoom = FALSE /\ q.map = "live"
    BY <2>1, <2>3, <2>4
  <2>6. StageRight(q)
    BY <2>3, <2>5 DEF StageRight
  <2>7. SameLine(q, v) /\ SameRings(q, v) /\ q.dirty = v.dirty
    BY <2>1, <2>3, Zenon DEF SameLine, SameHit, SameRings
  <2>8. LineDrawn(q) /\ RingsRight(q)
    BY <1>5, <1>6, <2>5, <2>7
  <2>9. EnterHf(v, zoom) = q
    BY <1>1, <1>7 DEF EnterHf, e, f, q
  <2> QED BY <2>3, <2>5, <2>6, <2>7, <2>8, <2>9 DEF HfRight, SameRings
<1>8. CASE zoom # "out"
  <2> DEFINE q == SyncMap(e)
  <2>1. /\ DOMAIN q = WallFields /\ SameStage(q, e) /\ SameLine(q, e) /\ SameRings(q, e) /\ q.dirty = e.dirty
        /\ q.map = MapOf(e.map, e.cbOn, e.hfOn)
    BY <1>2, MapSyncs
  <2> HIDE DEF q
  <2>2. SameLine(q, v) /\ SameRings(q, v) /\ q.dirty = v.dirty
    BY <1>2, <2>1, Zenon DEF SameLine, SameHit, SameRings
  <2>3. /\ q.zoomDone = NoZoom /\ q.cbOn = FALSE /\ q.hfOn = TRUE /\ q.pictures = v.pictures /\ q.mode = "hf"
        /\ q.hfWait = FALSE /\ q.hfZoom = FALSE /\ q.hfStage = TRUE /\ q.cbTimer = FALSE /\ q.greyTimer = TRUE
    BY <1>2, <2>1 DEF SameStage, SameZoom, Between
  <2>4. q.map = MapOf(q.map, q.cbOn, q.hfOn)
    BY <1>2, <2>1, <2>3 DEF MapOf
  <2>5. \A x \in q.pictures : Picture(x)
    BY <2>3 DEF Between
  <2>6. {q.cbOn, q.hfOn} \subseteq BOOLEAN /\ (q.hfOn <=> q.mode = "hf") /\ (q.cbOn <=> q.mode = "cb")
    BY <2>3
  <2>7. StageRight(q)
    BY <2>3, <2>4, <2>5, <2>6, StageAtRest
  <2>8. LineDrawn(q) /\ RingsRight(q)
    BY <1>5, <1>6, <2>2, <2>3
  <2>9. EnterHf(v, zoom) = q
    BY <1>1, <1>8 DEF EnterHf, e, q
  <2> QED BY <2>1, <2>2, <2>3, <2>7, <2>8, <2>9 DEF HfRight, SameRings
<1> QED BY <1>7, <1>8

\* setHfStage(false).
LEMMA HfLeaves ==
  ASSUME NEW v, Between(v), v.hfOn = TRUE, v.mode # "hf", v.cbOn <=> v.mode = "cb", NEW zoom,
         zoom = "in" => v.map \in {"live", "paused"} /\ v.cbOn = FALSE
  PROVE  HfRight(LeaveHf(v, zoom), v)
<1> DEFINE e == [v EXCEPT !.hfOn = FALSE, !.greyTimer = FALSE, !.known = FALSE,
                          !.hit = NoStation, !.fading = NoStation, !.lost = NoStation, !.key = << >>]
<1> DEFINE l == SyncMap(e)
<1>1. FinishZoom(v) = v
  BY DEF FinishZoom, Between
<1>2. /\ DOMAIN e = WallFields /\ e.hfOn = FALSE /\ e.greyTimer = FALSE /\ e.mode = v.mode /\ e.hfStage = v.hfStage
      /\ e.cbOn = v.cbOn /\ e.cbTimer = v.cbTimer /\ SameZoom(e, v) /\ e.map = v.map /\ SameRings(e, v)
      /\ e.known = FALSE /\ e.hit = NoStation /\ e.fading = NoStation /\ e.key = << >> /\ e.under = v.under
      /\ e.log = v.log /\ e.fades = v.fades /\ e.dirty = v.dirty
  BY DEF WallFields, SameZoom, SameRings, Between
<1> HIDE DEF e
<1>3. /\ DOMAIN l = WallFields /\ SameStage(l, e) /\ SameLine(l, e) /\ SameRings(l, e) /\ l.dirty = e.dirty
      /\ l.map = MapOf(e.map, e.cbOn, e.hfOn)
  BY <1>2, MapSyncs
<1> HIDE DEF l
<1>0. /\ v.hfStage = v.hfOn /\ v.hfOn /\ v.zoomDone = NoZoom /\ v.hfWait = FALSE /\ v.hfZoom = FALSE /\ v.cbTimer = v.cbOn
      /\ v.hfOn \in BOOLEAN
  BY DEF Between
<1>g. v.hfStage = TRUE
  BY <1>0
<1>h. /\ l.hfOn = FALSE /\ l.greyTimer = FALSE /\ l.mode = v.mode /\ l.hfStage = TRUE /\ l.cbOn = v.cbOn
      /\ l.cbTimer = v.cbOn /\ l.zoomDone = NoZoom /\ l.hfWait = FALSE /\ l.hfZoom = FALSE /\ l.pictures = v.pictures
  BY <1>0, <1>g, <1>2, <1>3 DEF SameStage, SameZoom
<1>i. l.map = MapOf(v.map, v.cbOn, FALSE) /\ SameRings(l, v) /\ l.dirty = v.dirty
  BY <1>2, <1>3 DEF SameRings
<1>j. /\ l.known = FALSE /\ l.hit = NoStation /\ l.fading = NoStation /\ l.key = << >> /\ l.under = v.under
      /\ l.log = v.log /\ l.fades = v.fades
  BY <1>2, <1>3 DEF SameLine, SameHit
<1>4. /\ l.hfOn = FALSE /\ l.greyTimer = FALSE /\ l.mode = v.mode /\ l.hfStage = TRUE /\ l.cbOn = v.cbOn
      /\ l.cbTimer = v.cbOn /\ l.zoomDone = NoZoom /\ l.hfWait = FALSE /\ l.hfZoom = FALSE /\ l.pictures = v.pictures
      /\ l.map = MapOf(v.map, v.cbOn, FALSE) /\ SameRings(l, v) /\ l.dirty = v.dirty
      /\ l.known = FALSE /\ l.hit = NoStation /\ l.fading = NoStation /\ l.key = << >> /\ l.under = v.under
      /\ l.log = v.log /\ l.fades = v.fades
  BY <1>h, <1>i, <1>j
<1>5. {v.under, v.dirty, v.fades} \subseteq BOOLEAN /\ v.log \subseteq Stations /\ v.cbOn \in BOOLEAN
  BY Zenon DEF Between, LineDrawn
<1>6. ASSUME NEW q, SameRings(q, v), q.cbOn = v.cbOn, q.dirty = v.dirty PROVE RingsRight(q)
  BY <1>6, Zenon DEF RingsRight, SameRings, Between
<1>l. ASSUME NEW q, q.known = FALSE, q.hit = NoStation, q.fading = NoStation, q.key = << >>, q.under = v.under,
             q.log = v.log, q.dirty = v.dirty, q.hfOn = FALSE, q.fades \in BOOLEAN,
             q.zoomDone.dir = "in" \/ (q.line = NoStation /\ q.fades = FALSE)
      PROVE  LineDrawn(q)
  <2>1. {q.known, q.under, q.fades, q.dirty} \subseteq BOOLEAN /\ q.log \subseteq Stations
    BY <1>5, <1>l
  <2>2. ~q.hfOn /\ ~q.known /\ (q.zoomDone.dir = "in" \/ (q.line = NoStation /\ ~q.fades))
    BY <1>l
  <2> QED BY <1>l, <2>1, <2>2, Zenon DEF LineDrawn
<1>7. CASE zoom = "in"
  <2> DEFINE q == ZoomWhenReady(l, "in")
  <2>1. \A x \in l.pictures : Picture(x)
    BY <1>4 DEF Between
  <2>2. /\ DOMAIN q = WallFields /\ (\A x \in q.pictures : Picture(x))
        /\ q.zoomDone # NoZoom /\ q.zoomDone.what = "picture" /\ q.zoomDone.dir = "in"
        /\ q.mode = l.mode /\ q.cbOn = l.cbOn /\ q.hfOn = l.hfOn /\ q.hfStage = l.hfStage
        /\ q.cbTimer = l.cbTimer /\ q.greyTimer = l.greyTimer /\ q.hfWait = l.hfWait /\ q.hfZoom = l.hfZoom
        /\ q.map = l.map /\ SameLine(q, l) /\ SameRings(q, l) /\ q.dirty = l.dirty
    BY <1>3, <2>1, ZoomAsks
  <2> HIDE DEF q
  <2>3. l.map = "live"
    BY <1>4, <1>7 DEF MapOf
  <2>4. /\ q.mode # "hf" /\ q.mode # "cb" /\ q.cbOn = FALSE /\ q.hfOn = FALSE /\ q.hfStage = TRUE /\ q.cbTimer = FALSE
        /\ q.greyTimer = FALSE /\ q.hfWait = FALSE /\ q.hfZoom = FALSE /\ q.map = "live"
    BY ZenonT(60), <1>4, <1>7, <2>2, <2>3
  <2>5. StageRight(q)
    <3> DEFINE z == q.zoomDone
    <3>1. z.what \in {"picture", "run"} /\ z.dir \in {"out", "in"} /\ z.dir # "out" /\ z.dir = "in" /\ z.what # "run"
      BY <2>2
    <3>2. /\ {q.cbOn, q.hfOn, q.hfStage, q.hfWait, q.hfZoom, q.cbTimer, q.greyTimer} \subseteq BOOLEAN
          /\ ~q.cbOn /\ ~q.hfOn /\ q.hfStage /\ ~q.hfWait /\ ~q.hfZoom /\ ~q.cbTimer /\ ~q.greyTimer
          /\ q.map # "paused" /\ q.mode # "hf" /\ q.mode # "cb" /\ q.map = "live"
      BY <2>4
    <3>3. z # NoZoom /\ \A x \in q.pictures : Picture(x)
      BY <2>2
    <3> HIDE DEF z
    <3>4. /\ {q.cbOn, q.hfOn, q.hfStage, q.hfWait, q.hfZoom, q.cbTimer, q.greyTimer} \subseteq BOOLEAN
          /\ \A p \in q.pictures : Picture(p)
          /\ z = NoZoom \/ (z.what \in {"picture", "run"} /\ z.dir \in {"out", "in"} /\ q.map = "live")
      BY <3>1, <3>2, <3>3, Zenon
    <3>5. (q.hfOn <=> q.mode = "hf") /\ (q.cbOn <=> q.mode = "cb") /\ (z.dir = "out" => q.hfOn)
      BY <3>1, <3>2, Zenon
    <3>6. (z.dir = "in" => ~q.hfOn /\ ~q.cbOn) /\ (q.hfStage <=> q.hfOn \/ z.dir = "in") /\ (q.hfWait <=> z.dir = "out")
      BY <3>1, <3>2, Zenon
    <3>7. (q.hfZoom <=> z.what = "run") /\ (q.cbTimer <=> q.cbOn) /\ (q.greyTimer <=> q.hfOn)
      BY <3>1, <3>2, Zenon
    <3>8. (q.map = "live" /\ z = NoZoom => ~q.cbOn /\ (~q.hfStage \/ q.hfWait \/ q.hfZoom))
      BY <3>3, Zenon
    <3>9. (q.map = "paused" => ~(~q.cbOn /\ (~q.hfStage \/ q.hfWait \/ q.hfZoom)))
      BY <3>2, Zenon
    <3> QED BY <3>4, <3>5, <3>6, <3>7, <3>8, <3>9, Zenon DEF StageRight, z
  <2>6. SameRings(q, v) /\ q.dirty = v.dirty /\ q.cbOn = v.cbOn
    BY <1>4, <2>2, Zenon DEF SameRings
  <2>7. LineDrawn(q)
    <3>1. SameHit(q, l) /\ q.fades = l.fades
      BY <2>2, Zenon DEF SameLine
    <3>2. /\ q.known = FALSE /\ q.hit = NoStation /\ q.fading = NoStation /\ q.key = << >> /\ q.under = v.under
          /\ q.log = v.log
      BY <1>4, <3>1, Zenon DEF SameHit
    <3>3. q.dirty = v.dirty /\ q.hfOn = FALSE /\ q.zoomDone.dir = "in" /\ q.fades \in BOOLEAN
      BY <1>4, <1>5, <2>2, <2>4, <3>1
    <3> QED BY <1>l, <3>2, <3>3, Zenon
  <2>8. RingsRight(q)
    BY <1>6, <2>6
  <2>9. LeaveHf(v, zoom) = q
    BY <1>1, <1>7 DEF LeaveHf, e, l, q
  <2> QED BY <2>2, <2>4, <2>5, <2>6, <2>7, <2>8, <2>9 DEF HfRight, SameRings
<1>8. CASE zoom # "in"
  <2> DEFINE q == [Wipe(l) EXCEPT !.hfStage = FALSE]
  <2>1. /\ DOMAIN q = WallFields /\ q.hfOn = FALSE /\ q.greyTimer = FALSE /\ q.mode = l.mode /\ q.hfStage = FALSE
        /\ q.cbOn = l.cbOn /\ q.cbTimer = l.cbTimer /\ q.zoomDone = NoZoom /\ q.hfWait = FALSE /\ q.hfZoom = FALSE
        /\ q.pictures = l.pictures /\ q.map = l.map /\ SameRings(q, l) /\ q.dirty = l.dirty
        /\ q.known = FALSE /\ q.hit = NoStation /\ q.fading = NoStation /\ q.key = << >> /\ q.under = l.under
        /\ q.log = l.log /\ q.line = NoStation /\ q.fades = FALSE
    BY <1>3, <1>4 DEF Wipe, WallFields, SameRings
  <2> HIDE DEF q
  <2>2. SameRings(q, v) /\ q.dirty = v.dirty /\ q.cbOn = v.cbOn
    BY <1>4, <2>1, Zenon DEF SameRings
  <2>3. q.map = MapOf(q.map, q.cbOn, q.hfOn)
    BY <1>4, <2>1 DEF MapOf
  <2>4. \A x \in q.pictures : Picture(x)
    BY <1>4, <2>1 DEF Between
  <2>5. {q.cbOn, q.hfOn} \subseteq BOOLEAN /\ (q.hfOn <=> q.mode = "hf") /\ (q.cbOn <=> q.mode = "cb") /\ q.cbTimer = q.cbOn
    <3>1. q.hfOn = FALSE /\ q.cbOn = v.cbOn /\ q.mode = v.mode /\ q.cbTimer = v.cbOn
      BY <1>4, <2>1, Zenon
    <3>2. {q.cbOn, q.hfOn} \subseteq BOOLEAN
      BY <1>5, <3>1
    <3>3. ~q.hfOn /\ q.mode # "hf"
      BY <3>1
    <3> QED BY <3>1, <3>2, <3>3, Zenon
  <2>6. StageRight(q)
    BY <2>1, <2>3, <2>4, <2>5, StageAtRest
  <2>7. LineDrawn(q)
    <3>1. q.under = v.under /\ q.log = v.log /\ q.dirty = v.dirty /\ q.fades \in BOOLEAN
      BY <1>4, <2>1, <2>2
    <3> QED BY <1>l, <2>1, <3>1, Zenon
  <2>8. RingsRight(q)
    BY <1>6, <2>2
  <2>9. LeaveHf(v, zoom) = q
    BY <1>1, <1>8 DEF LeaveHf, AfterZoom, e, l, q
  <2> QED BY <2>1, <2>2, <2>6, <2>7, <2>8, <2>9 DEF HfRight, SameRings
<1> QED BY <1>7, <1>8

\* paintStatus().
LEMMA StatusPaints == ASSUME NEW w, WallRight(w), NEW s PROVE WallRight(PaintStatus(w, s))
<1> DEFINE zoom == ZoomFor(IF w.seen THEN w.mode ELSE NoStation, s.mode, s.breakIn, w.map \in {"live", "paused"})
<1> DEFINE a == ChangeOfMind(w, s)
<1> DEFINE v == [a EXCEPT !.seen = TRUE, !.mode = s.mode, !.breakIn = s.breakIn]
<1> DEFINE b == SetCbStage(v, s.mode = "cb")
<1> DEFINE u == SetHfStage(b, s.mode = "hf", zoom)
<1> DEFINE changed == s.mode # w.mode \/ s.breakIn # w.breakIn \/ s.plays # w.plays
<1> DEFINE r == [u EXCEPT !.plays = s.plays, !.dirty = @ \/ changed, !.heardDue = @ \/ s.plays # w.plays]
<1>1. PaintStatus(w, s) = r
  BY DEF PaintStatus
<1>2. Rested(FinishZoom(w), w)
  BY ZoomFinished
<1>3. /\ zoom = "out" => w.map \in {"live", "paused"}
      /\ zoom = "in" => w.map \in {"live", "paused"} /\ s.mode = "scan"
  BY DEF ZoomFor
<1> HIDE DEF zoom
<1>4. /\ WallRight(a) /\ a.mode = w.mode /\ a.cbOn = w.cbOn /\ a.hfOn = w.hfOn /\ a.dirty = w.dirty
      /\ (w.map \in {"live", "paused"} => a.map \in {"live", "paused"})
      /\ (s.mode # w.mode => a.zoomDone = NoZoom)
  BY <1>2 DEF ChangeOfMind, Rested
<1> HIDE DEF a
<1>5. /\ DOMAIN v = WallFields /\ v.mode = s.mode /\ v.cbOn = a.cbOn /\ v.hfOn = a.hfOn /\ v.hfStage = a.hfStage
      /\ v.cbTimer = a.cbTimer /\ v.greyTimer = a.greyTimer /\ SameZoom(v, a) /\ v.map = a.map /\ SameLine(v, a)
      /\ SameRings(v, a) /\ v.dirty = a.dirty
  BY <1>4 DEF WallRight, WallFields, SameZoom, SameLine, SameHit, SameRings
<1> HIDE DEF v
<1>6. /\ {a.cbOn, a.hfOn, a.dirty} \subseteq BOOLEAN /\ (a.hfOn <=> a.mode = "hf") /\ (a.cbOn <=> a.mode = "cb")
  BY <1>4, Zenon DEF WallRight, StageRight, LineRight, LineDrawn
<1>7. ASSUME DOMAIN u = WallFields
      PROVE  /\ DOMAIN r = WallFields /\ SameStage(r, u) /\ r.map = u.map /\ SameLine(r, u) /\ SameRings(r, u)
             /\ r.dirty = (u.dirty \/ changed)
  BY <1>7 DEF WallFields, SameStage, SameZoom, SameLine, SameHit, SameRings
<1>8. CASE s.mode = w.mode
  <2>1. SameStage(v, a)
    BY <1>4, <1>5, <1>8, Zenon DEF SameStage
  <2>2. WallRight(v)
    BY <1>4, <1>5, <1>6, <2>1, RightAlike
  <2>3. (s.mode = "cb") = v.cbOn /\ (s.mode = "hf") = v.hfOn
    BY <1>4, <1>5, <1>6, <1>8
  <2>4. b = v
    BY <2>3 DEF SetCbStage
  <2> HIDE DEF b
  <2>5. u = v
    BY <2>3, <2>4 DEF SetHfStage
  <2>6. DOMAIN u = WallFields /\ WallRight(u) /\ u.dirty \in BOOLEAN
    BY <1>4, <1>5, <1>6, <2>2, <2>5
  <2> HIDE DEF u
  <2>7. /\ DOMAIN r = WallFields /\ SameStage(r, u) /\ r.map = u.map /\ SameLine(r, u) /\ SameRings(r, u)
        /\ r.dirty = (u.dirty \/ changed)
    BY <1>7, <2>6
  <2> HIDE DEF r
  <2>8. r.dirty \in BOOLEAN /\ (r.dirty \/ r.dirty = u.dirty)
    BY <2>6, <2>7
  <2>9. WallRight(r)
    BY <2>6, <2>7, <2>8, RightAlike
  <2> QED BY <1>1, <2>9
<1>9. CASE s.mode # w.mode
  <2>1. Between(a)
    BY <1>4, <1>9, RestedBetween
  <2>2. Between(v)
    <3>1. LineDrawn(v)
      BY <1>5, <2>1, Zenon DEF Between, LineDrawn, SameZoom, SameLine, SameHit
    <3>2. RingsRight(v)
      BY <1>5, <2>1, Zenon DEF Between, RingsRight, SameRings
    <3> QED BY <1>5, <2>1, <3>1, <3>2, Zenon DEF Between, SameZoom
  <2>3. /\ Between(b) /\ b.cbOn = (s.mode = "cb") /\ b.hfOn = v.hfOn /\ b.mode = v.mode
        /\ (v.map \in {"live", "paused"} => b.map \in {"live", "paused"})
    <3>1. (s.mode = "cb") \in BOOLEAN
      OBVIOUS
    <3> QED BY <2>2, <3>1, CbSets
  <2> HIDE DEF b
  <2>4. b.hfOn \in BOOLEAN /\ b.mode = s.mode /\ DOMAIN b = WallFields /\ b.dirty \in BOOLEAN /\ RingsRight(b) /\ LineDrawn(b)
    BY <1>5, <1>6, <2>3, Zenon DEF Between, LineDrawn
  <2>5. HfRight(u, b)
    <3>1. CASE (s.mode = "hf") = b.hfOn
      <4>1. u = b
        BY <3>1 DEF SetHfStage
      <4>2. (b.hfOn <=> b.mode = "hf") /\ (b.cbOn <=> b.mode = "cb")
        BY <2>3, <2>4, <3>1
      <4> QED BY <2>3, <2>4, <4>1, <4>2, BetweenRight DEF HfRight
    <3>2. CASE s.mode = "hf" /\ ~b.hfOn
      <4>1. u = EnterHf(b, zoom)
        BY <3>2, <2>4 DEF SetHfStage
      <4>2. b.hfOn = FALSE /\ b.mode = "hf" /\ b.cbOn = FALSE /\ (zoom = "out" => b.map \in {"live", "paused"})
        BY <1>3, <1>4, <1>5, <2>3, <2>4, <3>2
      <4> QED BY <2>3, <4>1, <4>2, HfEnters
    <3>3. CASE s.mode # "hf" /\ b.hfOn
      <4>1. u = LeaveHf(b, zoom)
        BY <3>3, <2>4 DEF SetHfStage
      <4>2. /\ b.hfOn = TRUE /\ b.mode # "hf" /\ (b.cbOn <=> b.mode = "cb")
            /\ (zoom = "in" => b.map \in {"live", "paused"} /\ b.cbOn = FALSE)
        BY <1>3, <1>4, <1>5, <2>3, <2>4, <3>3
      <4> QED BY <2>3, <4>1, <4>2, HfLeaves, ZenonT(40)
    <3> QED BY <2>4, <3>1, <3>2, <3>3
  <2> HIDE DEF u
  <2>6. /\ DOMAIN r = WallFields /\ SameStage(r, u) /\ r.map = u.map /\ SameLine(r, u) /\ SameRings(r, u)
        /\ r.dirty = TRUE
    BY <1>7, <1>9, <2>5 DEF HfRight
  <2> HIDE DEF r
  <2>7. StageRight(r)
    BY <2>5, <2>6, Zenon DEF HfRight, StageRight, SameStage, SameZoom
  <2>8. LineRight(r)
    BY <2>5, <2>6, ZenonT(40) DEF HfRight, LineRight, LineDrawn, TracesDrawn, SameStage, SameZoom, SameLine, SameHit
  <2>9. RingsRight(r)
    BY <2>5, <2>6 DEF HfRight, RingsRight, SameStage, SameRings
  <2> QED BY <1>1, <2>6, <2>7, <2>8, <2>9 DEF WallRight
<1> QED BY <1>8, <1>9

-----------------------------------------------------------------------------
(* The line, the traces and the rings. *)

\* Steps of the line leave the stages and the rings.
LineStep(q, p) == DOMAIN q = WallFields /\ SameStage(q, p) /\ q.map = p.map /\ SameRings(q, p)

\* finishFade().
LEMMA FadeFinishes ==
  ASSUME NEW w, DOMAIN w = WallFields
  PROVE  LET q == FinishFade(w)
         IN  /\ LineStep(q, w)
             /\ w.fades => /\ q.line = NoStation /\ q.fades = FALSE /\ q.fading = NoStation /\ q.under = FALSE
                           /\ q.dirty = TRUE
             /\ ~w.fades => q = w
             /\ q.known = w.known /\ q.hit = w.hit /\ q.key = w.key /\ q.traces = w.traces /\ q.log = w.log
             /\ q.plays = w.plays /\ q.error = w.error
BY DEF FinishFade, Faded, Wipe, LineStep, WallFields, SameStage, SameZoom, SameRings

\* applyHit(): what is hit is the line, or the last one is while it goes out.
LEMMA HitApplies ==
  ASSUME NEW p, DOMAIN p = WallFields, p.hfOn = TRUE, LineDrawn(p), NEW next
  PROVE  LET q == ApplyHit(p, next)
         IN  /\ LineStep(q, p) /\ LineDrawn(q) /\ q.hit = next /\ q.log = p.log
<1> DEFINE action == HitAction(p.known, p.hit, next, p.lost)
<1> DEFINE v == [p EXCEPT !.known = TRUE, !.hit = next,
                     !.lost = IF ~p.error THEN NoStation ELSE IF p.hit # NoStation THEN p.hit ELSE @]
<1> DEFINE q == ApplyHit(p, next)
<1>1. /\ DOMAIN v = WallFields /\ LineStep(v, p) /\ v.known = TRUE /\ v.hit = next /\ v.fading = p.fading
      /\ v.under = p.under /\ v.key = p.key /\ v.traces = p.traces /\ v.log = p.log /\ v.line = p.line
      /\ v.fades = p.fades /\ v.dirty = p.dirty
  BY DEF LineStep, WallFields, SameStage, SameZoom, SameRings
<1>2. /\ action = "none" => (p.known /\ next = p.hit) \/ (~p.known /\ next = NoStation)
      /\ action \in {"hold", "start", "replace"} => next # NoStation
      /\ action = "end" => p.hit # NoStation /\ next = NoStation
      /\ action \in {"none", "hold", "start", "replace", "end"}
  BY DEF HitAction
<1>3. /\ {p.known, p.under, p.fades, p.dirty} \subseteq BOOLEAN /\ p.log \subseteq Stations
      /\ p.line = IF p.hit # NoStation THEN p.hit ELSE p.fading
      /\ p.fades => p.hit = NoStation
      /\ ~p.known => p.hit = NoStation
      /\ p.key # << >> => p.traces = p.key[1] \ {p.key[2]}
  BY Zenon DEF LineDrawn
<1>4. ASSUME NEW x, LineStep(x, p), {x.known, x.under, x.fades, x.dirty} \subseteq BOOLEAN, x.log = p.log, x.key = p.key,
             x.traces = p.traces, x.known = TRUE, x.hit = next,
             x.line = IF next # NoStation THEN next ELSE x.fading, x.fades => next = NoStation
      PROVE  LineDrawn(x)
  <2>1. x.hfOn = TRUE
    BY <1>4 DEF LineStep, SameStage
  <2> QED BY <1>3, <1>4, <2>1, Zenon DEF LineDrawn
<1>5. q = CASE action = "hold" -> HitHold([v EXCEPT !.fading = NoStation], next)
        [] action \in {"start", "replace"} -> [HitStart(v, next) EXCEPT !.under = next \in v.traces]
        [] action = "end" -> HitEnd([v EXCEPT !.fading = p.hit])
        [] OTHER -> v
  BY DEF ApplyHit, HitStart, HitHold, FinishFade, Faded, Wipe
<1> HIDE DEF action, v
<1>6. CASE action = "none"
  <2>1. q = v
    BY <1>5, <1>6
  <2>2. v.line = IF next # NoStation THEN next ELSE v.fading
    BY <1>1, <1>2, <1>3, <1>6
  <2>3. v.fades => next = NoStation
    BY <1>1, <1>2, <1>3, <1>6
  <2>4. {v.known, v.under, v.fades, v.dirty} \subseteq BOOLEAN
    BY <1>1, <1>3
  <2>5. LineDrawn(v)
    BY <1>1, <1>4, <2>2, <2>3, <2>4
  <2> QED BY <1>1, <2>1, <2>5
<1>7. CASE action = "hold"
  <2> DEFINE x == HitHold([v EXCEPT !.fading = NoStation], next)
  <2>1. q = x
    BY <1>5, <1>7
  <2>2. /\ LineStep(x, p) /\ x.known = TRUE /\ x.hit = next /\ x.under = p.under /\ x.key = p.key /\ x.traces = p.traces
        /\ x.log = p.log /\ x.line = next /\ x.fades = FALSE /\ x.dirty = p.dirty
    BY <1>1 DEF HitHold, LineStep, WallFields, SameStage, SameZoom, SameRings
  <2> HIDE DEF x
  <2>3. {x.known, x.under, x.fades, x.dirty} \subseteq BOOLEAN
    BY <1>3, <2>2
  <2>4. LineDrawn(x)
    BY <1>2, <1>4, <1>7, <2>2, <2>3
  <2> QED BY <2>1, <2>2, <2>4
<1>8. CASE action \in {"start", "replace"}
  <2> DEFINE y == FinishFade(v)
  <2> DEFINE x == [HitHold(y, next) EXCEPT !.under = next \in v.traces]
  <2>1. q = x
    BY <1>5, <1>8 DEF HitStart
  <2>2. /\ LineStep(y, v) /\ (v.fades => y.dirty = TRUE) /\ (~v.fades => y = v)
        /\ y.known = v.known /\ y.hit = v.hit /\ y.key = v.key /\ y.traces = v.traces /\ y.log = v.log
    BY <1>1, FadeFinishes
  <2> HIDE DEF y
  <2>3. /\ LineStep(x, y) /\ x.known = y.known /\ x.hit = y.hit /\ x.under \in BOOLEAN /\ x.key = y.key /\ x.traces = y.traces
        /\ x.log = y.log /\ x.line = next /\ x.fades = FALSE /\ x.dirty = y.dirty
    BY <2>2 DEF HitHold, LineStep, WallFields, SameStage, SameZoom, SameRings
  <2> HIDE DEF x
  <2>4. y.dirty \in BOOLEAN
    BY <1>1, <1>3, <2>2
  <2>5. {x.known, x.under, x.fades, x.dirty} \subseteq BOOLEAN
    BY <1>1, <2>2, <2>3, <2>4
  <2>6. LineStep(x, p)
    BY <1>1, <2>2, <2>3, ZenonT(40) DEF LineStep, SameStage, SameZoom, SameRings
  <2>7. LineDrawn(x)
    BY <1>1, <1>2, <1>4, <1>8, <2>2, <2>3, <2>5, <2>6
  <2> QED BY <1>1, <2>1, <2>2, <2>3, <2>6, <2>7
<1>9. CASE action = "end"
  <2> DEFINE y == [v EXCEPT !.fading = p.hit]
  <2> DEFINE x == HitEnd(y)
  <2>1. q = x
    BY <1>5, <1>9
  <2>2. /\ LineStep(y, p) /\ y.known = TRUE /\ y.hit = next /\ y.fading = p.hit /\ y.under = p.under /\ y.key = p.key
        /\ y.traces = p.traces /\ y.log = p.log /\ y.line = p.line /\ y.fades = p.fades /\ y.dirty = p.dirty
    BY <1>1 DEF LineStep, WallFields, SameStage, SameZoom, SameRings
  <2> HIDE DEF y
  <2>3. ~y.fades /\ y.line # NoStation /\ y.line = y.fading
    BY <1>2, <1>3, <1>9, <2>2
  <2>4. FinishFade(y) = y
    BY <2>3 DEF FinishFade
  <2>5. x = IF Still THEN Faded(Wipe(y)) ELSE [y EXCEPT !.fades = TRUE]
    BY <2>3, <2>4, StageAssumption DEF HitEnd, StageAssumption
  <2>6. CASE Still
    <3>1. /\ LineStep(x, y) /\ x.known = y.known /\ x.hit = y.hit /\ x.fading = NoStation /\ x.under = FALSE /\ x.key = y.key
          /\ x.traces = y.traces /\ x.log = y.log /\ x.line = NoStation /\ x.fades = FALSE /\ x.dirty = TRUE
      BY <2>2, <2>5, <2>6 DEF Faded, Wipe, LineStep, WallFields, SameStage, SameZoom, SameRings
    <3> HIDE DEF x
    <3>2. LineStep(x, p)
      BY <2>2, <3>1, Zenon DEF LineStep, SameStage, SameZoom, SameRings
    <3>3. {x.known, x.under, x.fades, x.dirty} \subseteq BOOLEAN
      BY <2>2, <3>1
    <3>4. LineDrawn(x)
      BY <1>2, <1>4, <1>9, <2>2, <3>1, <3>2, <3>3
    <3> QED BY <2>1, <2>2, <3>1, <3>2, <3>4
  <2>7. CASE ~Still
    <3>1. /\ LineStep(x, y) /\ x.known = y.known /\ x.hit = y.hit /\ x.fading = y.fading /\ x.under = y.under /\ x.key = y.key
          /\ x.traces = y.traces /\ x.log = y.log /\ x.line = y.line /\ x.fades = TRUE /\ x.dirty = y.dirty
      BY <2>2, <2>5, <2>7 DEF LineStep, WallFields, SameStage, SameZoom, SameRings
    <3> HIDE DEF x
    <3>2. LineStep(x, p)
      BY <2>2, <3>1, Zenon DEF LineStep, SameStage, SameZoom, SameRings
    <3>3. {x.known, x.under, x.fades, x.dirty} \subseteq BOOLEAN
      BY <1>3, <2>2, <3>1
    <3>4. LineDrawn(x)
      BY <1>2, <1>4, <1>9, <2>2, <2>3, <3>1, <3>2, <3>3
    <3> QED BY <2>1, <2>2, <3>1, <3>2, <3>4
  <2> QED BY <2>6, <2>7
<1> QED BY <1>2, <1>6, <1>7, <1>8, <1>9

\* paintHfLayers(): the traces are of the log but for the line.
LEMMA HfPaints ==
  ASSUME NEW p, DOMAIN p = WallFields, p.hfOn = TRUE, LineDrawn(p)
  PROVE  LET q == PaintHf(p) IN LineStep(q, p) /\ LineRight(q)
<1> DEFINE next == IF p.error THEN NoStation ELSE p.plays
<1> DEFINE v == ApplyHit(p, next)
<1> DEFINE live == IF v.under THEN NoStation ELSE IF next # NoStation THEN next ELSE v.fading
<1> DEFINE key == <<v.log, live>>
<1> DEFINE q == IF key = v.key THEN v ELSE [v EXCEPT !.key = key, !.traces = v.log \ {live}]
<1>1. PaintHf(p) = q
  BY DEF PaintHf, AtlasTraces
<1> HIDE DEF next
<1>2. LineStep(v, p) /\ LineDrawn(v) /\ v.hit = next
  BY HitApplies
<1>3. v.hfOn = TRUE
  BY <1>2 DEF LineStep, SameStage
<1> HIDE DEF v
<1>4. live = IF v.under THEN NoStation ELSE v.line
  BY <1>2, <1>3 DEF LineDrawn
<1> HIDE DEF live
<1>5. key # << >> /\ key[1] = v.log /\ key[2] = live
  OBVIOUS
<1>6. CASE key = v.key
  <2>1. v.traces = v.log \ {live}
    BY <1>2, <1>3, <1>5, <1>6 DEF LineDrawn
  <2>2. TracesDrawn(v)
    BY <1>4, <2>1 DEF TracesDrawn
  <2> QED BY <1>1, <1>2, <1>6, <2>2 DEF LineRight
<1>7. CASE key # v.key
  <2> DEFINE x == [v EXCEPT !.key = key, !.traces = v.log \ {live}]
  <2> HIDE DEF key
  <2>1. /\ LineStep(x, v) /\ x.known = v.known /\ x.hit = v.hit /\ x.fading = v.fading /\ x.under = v.under /\ x.key = key
        /\ x.traces = v.log \ {live} /\ x.log = v.log /\ x.line = v.line /\ x.fades = v.fades /\ x.dirty = v.dirty
    BY <1>2 DEF LineStep, WallFields, SameStage, SameZoom, SameRings
  <2>2. q = x
    BY <1>7
  <2> HIDE DEF x, q
  <2>3. LineStep(x, p)
    BY <1>2, <2>1, Zenon DEF LineStep, SameStage, SameZoom, SameRings
  <2>4. x.hfOn = TRUE
    BY <1>3, <2>1 DEF LineStep, SameStage
  <2>5. LineDrawn(x)
    <3>1. /\ {v.known, v.under, v.fades, v.dirty} \subseteq BOOLEAN /\ v.log \subseteq Stations
          /\ v.line = IF v.hit # NoStation THEN v.hit ELSE v.fading
          /\ (v.fades => v.hit = NoStation) /\ (~v.known => v.hit = NoStation)
      BY <1>2, <1>3, Zenon DEF LineDrawn
    <3>2. x.traces = x.key[1] \ {x.key[2]}
      BY <1>5, <2>1
    <3> QED BY <2>1, <2>4, <3>1, <3>2, Zenon DEF LineDrawn
  <2>6. TracesDrawn(x)
    BY <1>4, <2>1 DEF TracesDrawn
  <2> QED BY <1>1, <2>2, <2>3, <2>5, <2>6 DEF LineRight
<1> QED BY <1>6, <1>7

\* applyCbHit().
LEMMA CbPaints ==
  ASSUME NEW p, DOMAIN p = WallFields, {p.cbHit, p.cbLive, p.error} \subseteq BOOLEAN, p.rings = "on" <=> p.cbHit, p.cbOn = TRUE
  PROVE  LET q == PaintCb(p)
         IN  DOMAIN q = WallFields /\ SameStage(q, p) /\ q.map = p.map /\ SameLine(q, p) /\ q.dirty = p.dirty /\ RingsRight(q)
<1> DEFINE next == p.cbLive /\ ~p.error
<1> DEFINE v == [p EXCEPT !.cbHit = next]
<1>1. /\ DOMAIN v = WallFields /\ SameStage(v, p) /\ v.map = p.map /\ SameLine(v, p) /\ v.dirty = p.dirty
      /\ v.cbHit = next /\ v.rings = p.rings /\ v.cbLive = p.cbLive /\ v.error = p.error /\ v.cbOn = TRUE
  BY DEF WallFields, SameStage, SameZoom, SameLine, SameHit
<1>2. {p.cbHit, p.cbLive, p.error} \subseteq BOOLEAN /\ (next \in BOOLEAN) /\ (p.rings = "on" <=> p.cbHit)
  OBVIOUS
<1>3. PaintCb(p) = IF next /\ ~p.cbHit THEN RingsHold(v) ELSE IF ~next /\ p.cbHit THEN RingsEnd(v) ELSE v
  BY <1>2 DEF PaintCb
<1> HIDE DEF v
<1>4. \A x : /\ DOMAIN [v EXCEPT !.rings = x] = WallFields /\ SameStage([v EXCEPT !.rings = x], v)
             /\ [v EXCEPT !.rings = x].map = v.map /\ SameLine([v EXCEPT !.rings = x], v)
             /\ [v EXCEPT !.rings = x].dirty = v.dirty /\ [v EXCEPT !.rings = x].rings = x
             /\ [v EXCEPT !.rings = x].cbHit = v.cbHit /\ [v EXCEPT !.rings = x].cbLive = v.cbLive
             /\ [v EXCEPT !.rings = x].error = v.error
  BY <1>1 DEF WallFields, SameStage, SameZoom, SameLine, SameHit
<1>5. ASSUME NEW x, PaintCb(p) = [v EXCEPT !.rings = x] \/ (PaintCb(p) = v /\ x = v.rings), x = "on" <=> next
      PROVE  LET q == PaintCb(p)
             IN  DOMAIN q = WallFields /\ SameStage(q, p) /\ q.map = p.map /\ SameLine(q, p) /\ q.dirty = p.dirty /\ RingsRight(q)
  <2> DEFINE q == PaintCb(p)
  <2>1. /\ DOMAIN q = WallFields /\ SameStage(q, v) /\ q.map = v.map /\ SameLine(q, v) /\ q.dirty = v.dirty
        /\ q.rings = x /\ q.cbHit = v.cbHit /\ q.cbLive = v.cbLive /\ q.error = v.error
    <3>1. CASE q = [v EXCEPT !.rings = x]
      BY <1>4, <3>1
    <3>2. CASE q = v /\ x = v.rings
      BY <1>1, <3>2 DEF SameStage, SameZoom, SameLine, SameHit
    <3> QED BY <1>5, <3>1, <3>2
  <2> HIDE DEF q
  <2>2. SameStage(q, p) /\ q.map = p.map /\ SameLine(q, p) /\ q.dirty = p.dirty
    BY <1>1, <2>1, Zenon DEF SameStage, SameZoom, SameLine, SameHit
  <2>3. q.cbHit = next /\ q.cbLive = p.cbLive /\ q.error = p.error /\ q.cbOn = TRUE
    BY <1>1, <2>1 DEF SameStage
  <2>4. RingsRight(q)
    BY <1>2, <1>5, <2>1, <2>3 DEF RingsRight
  <2> QED BY <2>1, <2>2, <2>4 DEF q
<1>6. CASE next /\ ~p.cbHit
  <2>1. PaintCb(p) = [v EXCEPT !.rings = "on"]
    BY <1>3, <1>6 DEF RingsHold
  <2> QED BY <1>5, <1>6, <2>1
<1>7. CASE ~next /\ p.cbHit
  <2>1. PaintCb(p) = [v EXCEPT !.rings = "fading"]
    BY <1>1, <1>2, <1>3, <1>7 DEF RingsEnd
  <2>2. "fading" = "on" <=> next
    BY <1>7
  <2> QED BY <1>5, <2>1, <2>2
<1>8. CASE ~(next /\ ~p.cbHit) /\ ~(~next /\ p.cbHit)
  <2>1. PaintCb(p) = v
    BY <1>3, <1>8
  <2>2. v.rings = "on" <=> next
    BY <1>1, <1>2, <1>8
  <2> QED BY <1>5, <2>1, <2>2
<1> QED BY <1>6, <1>7, <1>8


\* A paint.
LEMMA Paints == ASSUME NEW w, WallRight(w) PROVE WallRight(Painted(w))
<1> DEFINE a == [w EXCEPT !.dirty = FALSE]
<1>1. /\ DOMAIN a = WallFields /\ SameStage(a, w) /\ a.map = w.map /\ SameLine(a, w) /\ SameRings(a, w) /\ a.dirty = FALSE
  BY DEF WallRight, WallFields, SameStage, SameZoom, SameLine, SameHit, SameRings
<1>2. Painted(w) = LET v == IF w.cbOn THEN PaintCb(a) ELSE a IN IF w.hfOn THEN PaintHf(v) ELSE v
  BY DEF Painted
<1> HIDE DEF a
<1>3. /\ {w.cbOn, w.hfOn} \subseteq BOOLEAN /\ ~(w.cbOn /\ w.hfOn) /\ {w.cbHit, w.cbLive, w.error} \subseteq BOOLEAN
      /\ (w.rings = "on" <=> w.cbHit)
  BY DEF WallRight, StageRight, RingsRight
<1>4. StageRight(a) /\ LineDrawn(a)
  <2>1. StageRight(a)
    BY <1>1, Zenon DEF WallRight, StageRight, SameStage, SameZoom
  <2>2. a.dirty \in BOOLEAN
    BY <1>1
  <2>3. LineDrawn(a)
    BY <1>1, <2>2, Zenon DEF WallRight, LineRight, LineDrawn, SameLine, SameHit, SameStage, SameZoom
  <2> QED BY <2>1, <2>3
<1>5. CASE w.hfOn
  <2> DEFINE q == PaintHf(a)
  <2>1. Painted(w) = q
    BY <1>2, <1>3, <1>5
  <2>2. a.hfOn = TRUE /\ ~a.cbOn
    BY <1>1, <1>3, <1>5 DEF SameStage
  <2>3. LineStep(q, a) /\ LineRight(q)
    BY <1>1, <1>4, <2>2, HfPaints
  <2> HIDE DEF q
  <2>4. StageRight(q)
    BY <1>4, <2>3, Zenon DEF LineStep, StageRight, SameStage, SameZoom
  <2>5. RingsRight(a)
    BY <1>1, <2>2 DEF WallRight, RingsRight, SameRings, SameStage
  <2>6. RingsRight(q)
    BY <2>2, <2>3, <2>5, Zenon DEF LineStep, RingsRight, SameRings, SameStage
  <2> QED BY <2>1, <2>3, <2>4, <2>6 DEF WallRight, LineStep
<1>6. CASE w.cbOn
  <2> DEFINE q == PaintCb(a)
  <2>1. Painted(w) = q
    BY <1>2, <1>3, <1>6
  <2>2. a.cbOn = TRUE /\ ~a.hfOn /\ {a.cbHit, a.cbLive, a.error} \subseteq BOOLEAN /\ (a.rings = "on" <=> a.cbHit)
    BY <1>1, <1>3, <1>6 DEF SameStage, SameRings
  <2>3. DOMAIN q = WallFields /\ SameStage(q, a) /\ q.map = a.map /\ SameLine(q, a) /\ q.dirty = a.dirty /\ RingsRight(q)
    BY <1>1, <2>2, CbPaints
  <2> HIDE DEF q
  <2>4. StageRight(q)
    BY <1>4, <2>3, Zenon DEF StageRight, SameStage, SameZoom
  <2>5. LineDrawn(q)
    BY <1>4, <2>3, Zenon DEF LineDrawn, SameLine, SameHit, SameStage, SameZoom
  <2>6. TracesDrawn(q)
    BY <2>2, <2>3 DEF TracesDrawn, SameStage
  <2> QED BY <2>1, <2>3, <2>4, <2>5, <2>6 DEF WallRight, LineRight
<1>7. CASE ~w.hfOn /\ ~w.cbOn
  <2>1. Painted(w) = a
    BY <1>2, <1>7
  <2>2. TracesDrawn(a) /\ RingsRight(a)
    BY <1>1, <1>7 DEF TracesDrawn, WallRight, RingsRight, SameRings, SameStage
  <2> QED BY <1>1, <1>4, <2>1, <2>2 DEF WallRight, LineRight
<1> QED BY <1>5, <1>6, <1>7

-----------------------------------------------------------------------------
(* The page. *)

ServerFields == {"mode", "breakIn", "plays", "log"}

WallInv ==
  /\ DOMAIN server = ServerFields /\ server.log \subseteq Stations
  /\ lane = Idle \/ lane.answer.log \subseteq Stations
  /\ WallRight(wall)

LEMMA FreshIsRight == WallRight(FreshPage)
<1> DEFINE p == FreshPage
<1>1. DOMAIN p = WallFields
  BY DEF FreshPage, WallFields
<1>2. /\ p.mode = "scan" /\ p.map = "loading" /\ p.cbOn = FALSE /\ p.cbTimer = FALSE /\ p.cbLive = FALSE /\ p.cbHit = FALSE
      /\ p.rings = "none" /\ p.hfOn = FALSE /\ p.hfStage = FALSE /\ p.hfWait = FALSE /\ p.hfZoom = FALSE
      /\ p.greyTimer = FALSE /\ p.zoomDone = NoZoom /\ p.pictures = {} /\ p.log = {} /\ p.known = FALSE
      /\ p.hit = NoStation /\ p.fading = NoStation /\ p.under = FALSE /\ p.key = << >> /\ p.line = NoStation
      /\ p.fades = FALSE /\ p.dirty = TRUE /\ p.error = FALSE
  BY DEF FreshPage
<1> HIDE DEF p
<1>3. p.map = MapOf(p.map, p.cbOn, p.hfOn)
  BY <1>2 DEF MapOf
<1>4. StageRight(p)
  BY <1>2, <1>3, StageAtRest
<1>5. LineRight(p) /\ RingsRight(p)
  BY <1>2 DEF LineRight, LineDrawn, TracesDrawn, RingsRight
<1> QED BY <1>1, <1>4, <1>5 DEF WallRight, p

LEMMA InitWall == WallInit => WallInv
BY FreshIsRight DEF WallInit, WallInv, ServerFields

\* A picture that has come starts the zoom that asked for it.
LEMMA ZoomStarts ==
  ASSUME NEW w, WallRight(w), NEW p, Picture(p), w.zoomDone = p PROVE WallRight(StartZoom(w, p))
<1> DEFINE z == [p EXCEPT !.what = "run"]
<1> DEFINE q == [w EXCEPT !.hfZoom = TRUE, !.zoomDone = z]
<1>1. z.what = "run" /\ z.dir = p.dir /\ z # NoZoom /\ p # NoZoom /\ p.dir \in {"out", "in"}
  BY DEF Picture, NoZoom
<1>2. /\ DOMAIN q = WallFields /\ q.hfZoom = TRUE /\ q.zoomDone = z /\ q.mode = w.mode /\ q.cbOn = w.cbOn /\ q.hfOn = w.hfOn
      /\ q.hfStage = w.hfStage /\ q.cbTimer = w.cbTimer /\ q.greyTimer = w.greyTimer /\ q.hfWait = w.hfWait
      /\ q.pictures = w.pictures /\ q.map = w.map /\ SameLine(q, w) /\ SameRings(q, w) /\ q.dirty = w.dirty
  BY DEF WallRight, WallFields, SameLine, SameHit, SameRings
<1>3. StartZoom(w, p) = q
  BY DEF StartZoom
<1> HIDE DEF z, q
<1>4. StageRight(w) /\ LineRight(w) /\ RingsRight(w)
  BY DEF WallRight
<1>5. w.map = "live"
  BY <1>1, <1>4 DEF StageRight
<1>6. StageRight(q)
  BY <1>1, <1>2, <1>4, <1>5, ZenonT(40) DEF StageRight
<1>7. LineRight(q)
  BY <1>1, <1>2, <1>4, LineAlike
<1>8. RingsRight(q)
  BY <1>2, <1>4, Zenon DEF RingsRight, SameRings
<1> QED BY <1>2, <1>3, <1>6, <1>7, <1>8 DEF WallRight

\* A line that has faded is a trace.
LEMMA FadeEnds == ASSUME NEW w, WallRight(w), w.fades PROVE WallRight(FinishFade(w))
<1> DEFINE q == FinishFade(w)
<1>1. /\ LineStep(q, w) /\ q.line = NoStation /\ q.fades = FALSE /\ q.fading = NoStation /\ q.under = FALSE
      /\ q.dirty = TRUE /\ q.known = w.known /\ q.hit = w.hit /\ q.key = w.key /\ q.traces = w.traces /\ q.log = w.log
  BY FadeFinishes DEF WallRight
<1> HIDE DEF q
<1>2. StageRight(w) /\ LineDrawn(w) /\ RingsRight(w)
  BY DEF WallRight, LineRight
<1>3. StageRight(q)
  BY <1>1, <1>2, ZenonT(40) DEF LineStep, StageRight, SameStage, SameZoom
<1>4. LineRight(q)
  BY ZenonT(60), <1>1, <1>2 DEF LineRight, LineDrawn, TracesDrawn, LineStep, SameStage, SameZoom
<1>5. RingsRight(q)
  BY <1>1, <1>2 DEF LineStep, RingsRight, SameStage, SameRings
<1> QED BY <1>1, <1>3, <1>4, <1>5 DEF WallRight, LineStep, q

\* The map's script has loaded, or has not.
LEMMA MapComes ==
  ASSUME NEW w, WallRight(w), w.map = "loading"
  PROVE  WallRight(SyncMap([w EXCEPT !.map = "live"])) /\ WallRight([w EXCEPT !.map = "failed"])
<1>1. w.zoomDone = NoZoom
  BY DEF WallRight, StageRight
<1>2. Between(w)
  BY <1>1, RestedBetween
<1>3. ASSUME NEW q, DOMAIN q = WallFields, SameStage(q, w), SameLine(q, w), SameRings(q, w), q.dirty = w.dirty,
             q.map = MapOf(q.map, q.cbOn, q.hfOn)
      PROVE  WallRight(q)
  <2>1. /\ q.zoomDone = NoZoom /\ {q.cbOn, q.hfOn} \subseteq BOOLEAN /\ (\A p \in q.pictures : Picture(p))
        /\ q.hfWait = FALSE /\ q.hfZoom = FALSE /\ q.hfStage = q.hfOn /\ q.cbTimer = q.cbOn /\ q.greyTimer = q.hfOn
    BY <1>2, <1>3, Zenon DEF Between, SameStage, SameZoom
  <2>2. (q.hfOn <=> q.mode = "hf") /\ (q.cbOn <=> q.mode = "cb")
    BY <1>3, Zenon DEF WallRight, StageRight, SameStage
  <2>3. StageRight(q)
    BY <1>3, <2>1, <2>2, StageAtRest
  <2>4. LineRight(q)
    BY <1>3, LineAlike DEF WallRight, SameStage, SameZoom
  <2>5. RingsRight(q)
    BY <1>3, Zenon DEF WallRight, RingsRight, SameStage, SameRings
  <2> QED BY <1>3, <2>3, <2>4, <2>5 DEF WallRight
<1>4. WallRight(SyncMap([w EXCEPT !.map = "live"]))
  <2> DEFINE a == [w EXCEPT !.map = "live"]
  <2> DEFINE q == SyncMap(a)
  <2>1. DOMAIN a = WallFields /\ SameStage(a, w) /\ SameLine(a, w) /\ SameRings(a, w) /\ a.dirty = w.dirty
    BY DEF WallRight, WallFields, SameStage, SameZoom, SameLine, SameHit, SameRings
  <2> HIDE DEF a
  <2>2. /\ DOMAIN q = WallFields /\ SameStage(q, a) /\ SameLine(q, a) /\ SameRings(q, a) /\ q.dirty = a.dirty
        /\ q.map = MapOf(a.map, a.cbOn, a.hfOn)
    BY <2>1, MapSyncs
  <2> HIDE DEF q
  <2>3. SameStage(q, w) /\ SameLine(q, w) /\ SameRings(q, w) /\ q.dirty = w.dirty
    BY <2>1, <2>2, Zenon DEF SameStage, SameZoom, SameLine, SameHit, SameRings
  <2>4. q.map = MapOf(q.map, q.cbOn, q.hfOn)
    BY <2>2 DEF MapOf, SameStage
  <2> QED BY <1>3, <2>2, <2>3, <2>4 DEF q, a
<1>5. WallRight([w EXCEPT !.map = "failed"])
  <2> DEFINE q == [w EXCEPT !.map = "failed"]
  <2>1. DOMAIN q = WallFields /\ SameStage(q, w) /\ SameLine(q, w) /\ SameRings(q, w) /\ q.dirty = w.dirty /\ q.map = "failed"
    BY DEF WallRight, WallFields, SameStage, SameZoom, SameLine, SameHit, SameRings
  <2> HIDE DEF q
  <2>2. q.map = MapOf(q.map, q.cbOn, q.hfOn)
    BY <2>1 DEF MapOf
  <2> QED BY <1>3, <2>1, <2>2 DEF q
<1> QED BY <1>4, <1>5

\* A picture that has come or failed is awaited no longer.
LEMMA PictureGone ==
  ASSUME NEW w, WallRight(w), NEW p PROVE WallRight([w EXCEPT !.pictures = @ \ {p}])
<1> DEFINE q == [w EXCEPT !.pictures = @ \ {p}]
<1>1. /\ DOMAIN q = WallFields /\ q.pictures = w.pictures \ {p} /\ q.zoomDone = w.zoomDone /\ q.mode = w.mode
      /\ q.cbOn = w.cbOn /\ q.hfOn = w.hfOn /\ q.hfStage = w.hfStage /\ q.cbTimer = w.cbTimer
      /\ q.greyTimer = w.greyTimer /\ q.hfWait = w.hfWait /\ q.hfZoom = w.hfZoom /\ q.map = w.map
      /\ SameLine(q, w) /\ SameRings(q, w) /\ q.dirty = w.dirty
  BY DEF WallRight, WallFields, SameLine, SameHit, SameRings
<1> HIDE DEF q
<1>2. \A x \in q.pictures : Picture(x)
  BY <1>1 DEF WallRight, StageRight
<1>3. StageRight(q)
  BY <1>1, <1>2, Zenon DEF WallRight, StageRight
<1>4. LineRight(q)
  BY <1>1, LineAlike DEF WallRight
<1>5. RingsRight(q)
  BY <1>1, Zenon DEF WallRight, RingsRight, SameRings
<1> QED BY <1>1, <1>3, <1>4, <1>5 DEF WallRight, q

\* The server's own steps leave the page alone.
LEMMA ServerChanges ==
  ASSUME WallInv, lane' = lane, wall' = wall, NEW s, server' = s, DOMAIN s = ServerFields, s.log \subseteq Stations
  PROVE  WallInv'
BY DEF WallInv, Idle

\* What an event says of the dial is painted with the next frame: until then the page is dirty.
LEMMA Dirtied ==
  ASSUME NEW w, WallRight(w), NEW q, DOMAIN q = WallFields, SameStage(q, w), q.map = w.map, SameLine(q, w),
         q.dirty = TRUE, {q.cbLive, q.error} \subseteq BOOLEAN, q.cbHit = w.cbHit, q.rings = w.rings
  PROVE  WallRight(q)
<1>1. StageRight(q)
  BY Zenon DEF WallRight, StageRight, SameStage, SameZoom
<1>2. q.dirty \in BOOLEAN
  OBVIOUS
<1>3. LineRight(q)
  <2>1. /\ q.known = w.known /\ q.hit = w.hit /\ q.fading = w.fading /\ q.under = w.under /\ q.key = w.key
        /\ q.traces = w.traces /\ q.line = w.line /\ q.fades = w.fades /\ q.log = w.log
        /\ q.hfOn = w.hfOn /\ q.zoomDone = w.zoomDone
    BY Zenon DEF SameStage, SameZoom, SameLine, SameHit
  <2>2. LineDrawn(q)
    BY <1>2, <2>1, Zenon DEF WallRight, LineRight, LineDrawn
  <2> QED BY <2>2 DEF LineRight, TracesDrawn
<1>4. RingsRight(q)
  BY DEF WallRight, RingsRight, SameStage
<1> QED BY <1>1, <1>3, <1>4 DEF WallRight

\* An event, or the log, makes the page dirty and changes no stage.
LEMMA EventSeen ==
  ASSUME NEW w, WallRight(w), NEW e \in BOOLEAN
  PROVE  /\ WallRight([w EXCEPT !.error = e, !.dirty = TRUE])
         /\ WallRight([w EXCEPT !.cbLive = ~@, !.error = e, !.dirty = TRUE])
         /\ WallRight([w EXCEPT !.heardDue = e])
         /\ \A log \in SUBSET Stations : WallRight([w EXCEPT !.log = log, !.logLoaded = TRUE, !.dirty = TRUE])
<1>1. w.dirty \in BOOLEAN
  BY DEF WallRight, LineRight, LineDrawn
<1>2. WallRight([w EXCEPT !.error = e, !.dirty = TRUE])
  <2> DEFINE q == [w EXCEPT !.error = e, !.dirty = TRUE]
  <2>1. /\ DOMAIN q = WallFields /\ SameStage(q, w) /\ q.map = w.map /\ SameLine(q, w) /\ q.dirty = TRUE
        /\ q.error = e /\ q.cbLive = w.cbLive /\ q.cbHit = w.cbHit /\ q.rings = w.rings
    BY DEF WallRight, WallFields, SameStage, SameZoom, SameLine, SameHit
  <2> HIDE DEF q
  <2>2. {q.cbLive, q.error} \subseteq BOOLEAN
    BY <2>1 DEF WallRight, RingsRight
  <2>3. WallRight(q)
    BY <2>1, <2>2, Dirtied
  <2> QED BY <2>3 DEF q
<1>3. WallRight([w EXCEPT !.heardDue = e])
  <2> DEFINE q == [w EXCEPT !.heardDue = e]
  <2>1. /\ DOMAIN q = WallFields /\ SameStage(q, w) /\ q.map = w.map /\ SameLine(q, w) /\ SameRings(q, w)
        /\ q.dirty = w.dirty
    BY DEF WallRight, WallFields, SameStage, SameZoom, SameLine, SameHit, SameRings
  <2> HIDE DEF q
  <2> QED BY <1>1, <2>1, RightAlike DEF q
<1>4. WallRight([w EXCEPT !.cbLive = ~@, !.error = e, !.dirty = TRUE])
  <2> DEFINE q == [w EXCEPT !.cbLive = ~@, !.error = e, !.dirty = TRUE]
  <2>1. /\ DOMAIN q = WallFields /\ SameStage(q, w) /\ q.map = w.map /\ SameLine(q, w) /\ q.dirty = TRUE
        /\ q.error = e /\ q.cbLive = ~w.cbLive /\ q.cbHit = w.cbHit /\ q.rings = w.rings
    BY DEF WallRight, WallFields, SameStage, SameZoom, SameLine, SameHit
  <2> HIDE DEF q
  <2>2. q.cbLive \in BOOLEAN
    BY <2>1
  <2>3. WallRight(q)
    BY <2>1, <2>2, Dirtied
  <2> QED BY <2>3 DEF q
<1>5. ASSUME NEW log \in SUBSET Stations
      PROVE  WallRight([w EXCEPT !.log = log, !.logLoaded = TRUE, !.dirty = TRUE])
  <2> DEFINE q == [w EXCEPT !.log = log, !.logLoaded = TRUE, !.dirty = TRUE]
  <2>1. /\ DOMAIN q = WallFields /\ SameStage(q, w) /\ q.map = w.map /\ SameRings(q, w) /\ q.dirty = TRUE /\ q.log = log
        /\ q.known = w.known /\ q.hit = w.hit /\ q.fading = w.fading /\ q.under = w.under /\ q.key = w.key
        /\ q.traces = w.traces /\ q.line = w.line /\ q.fades = w.fades
    BY DEF WallRight, WallFields, SameStage, SameZoom, SameRings
  <2> HIDE DEF q
  <2>2. StageRight(q)
    BY <2>1, ZenonT(40) DEF WallRight, StageRight, SameStage, SameZoom
  <2>3. q.dirty \in BOOLEAN /\ q.log \subseteq Stations
    BY <2>1
  <2>4. LineRight(q)
    BY <2>1, <2>3, ZenonT(40) DEF WallRight, LineRight, LineDrawn, TracesDrawn, SameStage, SameZoom
  <2>5. RingsRight(q)
    BY <2>1, Zenon DEF WallRight, RingsRight, SameStage, SameRings
  <2> QED BY <2>1, <2>2, <2>4, <2>5 DEF WallRight, q
<1> QED BY ZenonT(60), <1>2, <1>3, <1>4, <1>5

LEMMA PageStep == ASSUME WallInv, server' = server, lane' = lane, WallRight(wall') PROVE WallInv'
BY DEF WallInv, Idle

LEMMA NextWall == WallInv /\ [WallNext]_wallVars => WallInv'
<1> SUFFICES ASSUME WallInv, [WallNext]_wallVars PROVE WallInv'
  OBVIOUS
<1> USE DEF Page
<1>w. WallRight(wall) /\ DOMAIN server = ServerFields /\ server.log \subseteq Stations
  BY DEF WallInv
<1>1. CASE \E m \in WallModes : ModeSet(m)
  BY <1>1, <1>w, ServerChanges DEF ModeSet, Change, ServerFields
<1>2. CASE \E s \in Stations \cup {NoStation} : Plays(s)
  BY <1>2, <1>w, ServerChanges, ZenonT(40) DEF Plays, Change, ServerFields
<1>3. CASE BreakIn
  BY <1>3, <1>w, ServerChanges DEF BreakIn, Change, ServerFields
<1>4. CASE ErrorEvent
  <2>1. wall' = [wall EXCEPT !.error = ~wall.error, !.dirty = TRUE] /\ (~wall.error) \in BOOLEAN
    BY <1>4 DEF ErrorEvent, Told
  <2>2. WallRight(wall')
    BY ZenonT(60), <1>w, <2>1, EventSeen
  <2> QED BY <1>4, <2>2, PageStep DEF ErrorEvent
<1>5. CASE CbEvent
  <2> PICK e \in {FALSE, wall.error} : wall' = [wall EXCEPT !.cbLive = ~@, !.error = e, !.dirty = TRUE]
    BY <1>5 DEF CbEvent, Told
  <2>1. e \in BOOLEAN
    BY <1>w DEF WallRight, RingsRight
  <2>2. WallRight(wall')
    BY ZenonT(60), <1>w, <2>1, EventSeen
  <2> QED BY <1>5, <2>2, PageStep DEF CbEvent
<1>6. CASE AskStatus
  <2>1. lane'.answer = server /\ wall' = wall /\ server' = server
    BY <1>6 DEF AskStatus
  <2> QED BY <1>w, <2>1 DEF WallInv
<1>7. CASE AskHeard
  <2>1. WallRight(wall')
    BY ZenonT(60), <1>7, <1>w, EventSeen DEF AskHeard
  <2>2. server' = server /\ (lane' = lane \/ lane'.answer = server)
    BY <1>7 DEF AskHeard
  <2> QED BY SMTT(60), <1>w, <2>1, <2>2 DEF WallInv, Idle
<1>8. CASE Lands
  <2>1. lane.answer.log \subseteq Stations /\ lane' = Idle /\ server' = server
    BY <1>8 DEF Lands, WallInv
  <2>2. WallRight(wall')
    <3>1. CASE lane.what = "status"
      BY SMTT(60), <1>8, <1>w, <3>1, StatusPaints DEF Lands
    <3>2. CASE lane.what # "status"
      BY ZenonT(60), <1>8, <1>w, <2>1, <3>2, EventSeen DEF Lands
    <3> QED BY <3>1, <3>2
  <2> QED BY <1>w, <2>1, <2>2 DEF WallInv, Idle
<1>9. CASE Lost
  BY <1>9 DEF Lost, WallInv, Idle
<1>10. CASE PictureReady
  <2> PICK p \in wall.pictures :
             Page(IF Mine([wall EXCEPT !.pictures = @ \ {p}], p) THEN StartZoom([wall EXCEPT !.pictures = @ \ {p}], p)
                  ELSE [wall EXCEPT !.pictures = @ \ {p}])
    BY <1>10 DEF PictureReady
  <2> DEFINE w == [wall EXCEPT !.pictures = @ \ {p}]
  <2>1. WallRight(w) /\ Picture(p)
    BY ZenonT(60), <1>w, PictureGone DEF WallRight, StageRight
  <2> HIDE DEF w
  <2>2. WallRight(wall')
    BY <2>1, ZoomStarts DEF Mine, w
  <2> QED BY <2>2, PageStep
<1>11. CASE PictureFails
  <2> PICK p \in wall.pictures : wall' = NoPicture([wall EXCEPT !.pictures = @ \ {p}], p)
    BY <1>11 DEF PictureFails
  <2>1. WallRight([wall EXCEPT !.pictures = @ \ {p}])
    BY <1>w, PictureGone
  <2>2. WallRight(wall')
    BY <2>1, ZoomFinished DEF NoPicture, Rested
  <2> QED BY <1>11, <2>2, PageStep DEF PictureFails
<1>12. CASE ZoomRan
  BY <1>12, <1>w, ZoomFinished, PageStep DEF ZoomRan, Rested
<1>13. CASE LineFades
  BY <1>13, <1>w, FadeEnds, PageStep DEF LineFades
<1>14. CASE RingsFade
  <2> DEFINE q == [wall EXCEPT !.rings = "none"]
  <2>1. /\ DOMAIN q = WallFields /\ SameStage(q, wall) /\ q.map = wall.map /\ SameLine(q, wall) /\ q.dirty = wall.dirty
        /\ q.cbHit = wall.cbHit /\ q.cbLive = wall.cbLive /\ q.error = wall.error /\ q.rings = "none"
    BY <1>w DEF WallRight, WallFields, SameStage, SameZoom, SameLine, SameHit
  <2>2. wall.rings = "fading" /\ wall' = q
    BY <1>14 DEF RingsFade
  <2> HIDE DEF q
  <2>3. StageRight(q)
    BY <1>w, <2>1, Zenon DEF WallRight, StageRight, SameStage, SameZoom
  <2>4. LineRight(q)
    BY <1>w, <2>1, LineAlike DEF WallRight, SameStage, SameZoom
  <2>5. RingsRight(q)
    <3>1. RingsRight(wall) /\ ~wall.cbHit /\ q.rings # "on"
      BY <1>w, <2>1, <2>2 DEF WallRight, RingsRight
    <3> QED BY <2>1, <3>1, Zenon DEF RingsRight, SameStage
  <2>6. WallRight(wall')
    BY <2>1, <2>2, <2>3, <2>4, <2>5 DEF WallRight
  <2> QED BY <1>14, <2>6, PageStep DEF RingsFade
<1>15. CASE Frame
  BY <1>15, <1>w, Paints, PageStep DEF Frame
<1>16. CASE MapMounts
  BY <1>16, <1>w, MapComes, PageStep DEF MapMounts
<1>17. CASE MapFails
  BY <1>17, <1>w, MapComes, PageStep DEF MapFails
<1>18. CASE PageReloads
  BY <1>18, <1>w, FreshIsRight DEF PageReloads, WallInv, Idle
<1>19. CASE UNCHANGED wallVars
  BY <1>19 DEF wallVars, WallInv, Idle
<1> QED BY <1>1, <1>2, <1>3, <1>4, <1>5, <1>6, <1>7, <1>8, <1>9, <1>10, <1>11, <1>12, <1>13, <1>14, <1>15, <1>16,
           <1>17, <1>18, <1>19 DEF WallNext

\* At every moment of a change of mind a stage is in view and what it shows is drawn once, for any
\* modes, any stations, and with the wish for reduced motion or without it.
THEOREM StageTheorem == WallSpec => []StageSound
<1>1. WallInv => StageSound
  <2> SUFFICES ASSUME WallInv PROVE StageSound
    OBVIOUS
  <2>1. StageRight(wall) /\ LineRight(wall) /\ RingsRight(wall)
    BY DEF WallInv, WallRight
  <2>2. NeverBlank
    <3>1. wall.hfStage => ~wall.cbOn
      BY <2>1 DEF StageRight
    <3>2. {wall.cbOn, wall.hfOn, wall.hfStage, wall.hfWait, wall.hfZoom} \subseteq BOOLEAN
      BY <2>1, Zenon DEF StageRight
    <3> QED BY <2>1, <3>1, <3>2, Zenon DEF StageRight, NeverBlank, MapInView
  <2>3. EachStationOnce
    <3>1. ASSUME wall.hfOn, ~wall.dirty
          PROVE  /\ wall.line = IF wall.hit # NoStation THEN wall.hit ELSE wall.fading
                 /\ wall.log = wall.traces \cup ({wall.line} \cap wall.log)
                 /\ wall.line \in wall.traces => wall.under
      <4>1. /\ wall.line = IF wall.hit # NoStation THEN wall.hit ELSE wall.fading
            /\ wall.traces = wall.log \ {IF wall.under THEN NoStation ELSE wall.line}
            /\ wall.log \subseteq Stations /\ wall.under \in BOOLEAN
        BY <2>1, <3>1, Zenon DEF LineRight, LineDrawn, TracesDrawn
      <4>2. NoStation \notin wall.log
        BY <4>1, StageAssumption
      <4>3. CASE wall.under
        BY <4>1, <4>2, <4>3
      <4>4. CASE ~wall.under
        BY <4>1, <4>4
      <4> QED BY <4>1, <4>3, <4>4
    <3>2. ASSUME wall.cbOn, ~wall.dirty PROVE wall.rings = "on" <=> wall.cbLive /\ ~wall.error
      BY <2>1, <3>2 DEF RingsRight
    <3> QED BY <3>1, <3>2 DEF EachStationOnce
  <2> QED BY <2>2, <2>3 DEF StageSound
<1> QED BY <1>1, InitWall, NextWall, PTL DEF WallSpec
=============================================================================
