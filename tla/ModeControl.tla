---------------------------- MODULE ModeControl ----------------------------
(***************************************************************************)
(* What the radio is doing, and who decided it: the mode machine of         *)
(* backend/server.ts.  Five parties move it: the operator (HTTP requests),  *)
(* a SAME weather alert that breaks in and later hands the radio back, the  *)
(* shortwave sweep (backend/hf/controller.ts), the temperature sampler, and *)
(* a restart of the process.                                                *)
(*                                                                          *)
(* Every handler runs to its end before the next one starts: what it awaits *)
(* (WidebandEngine.start, stop, retune) settles within the same macrotask.  *)
(* The interleavings are those of whole handlers and of timers, which are   *)
(* kept as the number of ticks left; a timer that is due stays due until    *)
(* its callback runs, and other handlers may run first.  Headers come from  *)
(* the dedicated weather radio, so they arrive in every mode.               *)
(***************************************************************************)
EXTENDS Integers, FiniteSets

CONSTANTS
  Freqs,        \* frequencies the operator may list, scan or monitor
  None,         \* no frequency, no header
  Configs,      \* the documents a PUT /api/config may carry
  Alerts,       \* SAME headers (raw text)
  Covered,      \* headers that match config.alerts.sameFips
  Tests,        \* headers of a test event
  ShowTests,    \* config.alerts.sameTests
  Hold,         \* the safety net of each header: its purge time, clamped
  MinHold,      \* the lower clamp, 120 s
  Grace,        \* EOM_GRACE_MS
  Dedupe,       \* how long a repeat of the last header is ignored, 90 s
  Windows       \* windows of the shortwave sweep

Modes == {"scan", "weather", "monitor", "cb", "hf"}

ConfigType == [scanned: SUBSET Freqs, listed: SUBSET Freqs,
               wx: BOOLEAN, spy: BOOLEAN, hunts: BOOLEAN]

ASSUME ConfigAssumption == Configs \subseteq ConfigType /\ None \notin Freqs \cup Alerts
ASSUME AlertAssumption == Covered \subseteq Alerts /\ Tests \subseteq Alerts /\ ShowTests \in BOOLEAN
ASSUME TimeAssumption ==
  /\ MinHold \in Nat \ {0} /\ Grace \in Nat \ {0} /\ Dedupe \in Nat \ {0}
  /\ Hold \in [Alerts -> {n \in Nat : n >= MinHold}]
ASSUME WindowAssumption == Windows \in Nat \ {0}

VARIABLES
  config,     \* scanned: enabled channels; listed: discoveries and disabled
              \* channels; wx: a weather channel; spy: a SpyServer; hunts: Close
              \* Call or sweep ranges
  mode,       \* mode
  monitor,    \* monitorChannel
  breakIn,    \* breakIn and breakInFrom
  timers,     \* sameRevertTimer and sameEomTimer: ticks left, Off = not armed
  lastSame,   \* the last header, for the ticks a repeat of it is ignored
  safety,     \* safetyMode
  hf,         \* the sweep of HfController: off, armed or paused, and its tune
  engine,     \* the engine: running or stopped, and the plan it was given
  saved,      \* mode.json
  asked,      \* history: the operator's last choice
  fellBack,   \* history: the saved mode could not run at boot
  heard       \* history of a break-in: ticks since it began (capped), an EOM since
              \* the last covered header

vars == <<config, mode, monitor, breakIn, timers, lastSame, safety, hf, engine,
          saved, asked, fellBack, heard>>
sameVars == <<breakIn, timers, lastSame, heard>>
choiceVars == <<saved, asked, fellBack>>

Off == -1
NotHeard == [since |-> 0, eom |-> FALSE]
NoTimers == [revert |-> Off, eom |-> Off]
Preempted == {"scan", "cb", "hf"}

-----------------------------------------------------------------------------
(* What the engine is told to do.                                           *)

HfOff == [state |-> "off", window |-> 1, playing |-> FALSE]
HfStarted == [state |-> "armed", window |-> 1, playing |-> FALSE]
\* Mutant: the sweep goes on under a break-in.
HfNotPaused(h) == h
HfPaused(h) == IF h.state = "off" THEN h ELSE [h EXCEPT !.state = "paused"]
HfResumed(h) == [h EXCEPT !.state = "armed"]
HfTune(h) == <<h.window, h.playing>>

\* toScanConfig(): what a mode listens to, on which radio, and whether it also hunts.
PlanFor(c, m, mon, tune) ==
  [listen |-> CASE m = "scan" -> c.scanned
                [] m = "weather" -> (IF c.wx THEN {"wx"} ELSE {})
                [] m = "monitor" -> {mon} \ {None}
                [] OTHER -> {m},
   monitor |-> m \in {"weather", "monitor", "hf"},
   hunts |-> c.hunts /\ m \notin {"cb", "hf"},
   spy |-> c.spy /\ m \in {"cb", "hf"},
   tune |-> IF m = "hf" THEN tune ELSE <<0, FALSE>>]

\* Mutant: the shed is left out.
ScanConfigUnshed(c, m, mon, h, hot) == PlanFor(c, m, mon, HfTune(h))

\* scanConfigFor(): the same, with the hunt shed while the box is hot.
ScanConfigFor(c, m, mon, h, hot) ==
  PlanFor([c EXCEPT !.hunts = @ /\ ~hot], m, mon, HfTune(h))

\* switchMode() and engine.start(): the engine runs the plan, whatever it did before.
Running(plan) == [on |-> TRUE, plan |-> plan]

NothingToShed(c, m) == m \in {"cb", "hf"} \/ ~c.hunts

-----------------------------------------------------------------------------
(* The operator.                                                            *)

\* Mutant: the choice is not written to mode.json.
ChosenUnsaved(m, mon) ==
  /\ mode' = m /\ monitor' = mon
  /\ asked' = [mode |-> m, monitor |-> mon] /\ fellBack' = FALSE
  /\ UNCHANGED saved

\* A mode the operator chose: it is saved, and survives a restart.
Chosen(m, mon) ==
  /\ mode' = m /\ monitor' = mon
  /\ saved' = [mode |-> m, monitor |-> mon]
  /\ asked' = [mode |-> m, monitor |-> mon] /\ fellBack' = FALSE

Runnable(c, s) ==
  /\ s.mode = "monitor" => s.monitor # None
  /\ s.mode = "weather" => c.wx
  /\ s.mode = "hf" => c.spy

\* POST /api/mode: the choice replaces a break-in in progress, its timers included.
SetMode(m) ==
  /\ m # "monitor"
  /\ m = "weather" => config.wx
  /\ m = "hf" => config.spy
  /\ breakIn' = [breakIn EXCEPT !.on = FALSE]
  /\ timers' = NoTimers
  /\ Chosen(m, None)
  /\ hf' = IF m = "hf" THEN HfStarted ELSE HfOff
  /\ engine' = Running(ScanConfigFor(config, m, None, hf', safety))
  /\ heard' = NotHeard
  /\ UNCHANGED <<config, lastSame, safety>>

\* POST /api/monitor and /api/monitor/stop: neither looks at a break-in.
SetMonitor(f) ==
  /\ Chosen("monitor", f)
  /\ hf' = HfOff
  /\ engine' = Running(ScanConfigFor(config, "monitor", f, HfOff, safety))
  /\ UNCHANGED <<config, sameVars, safety>>

StopMonitor ==
  /\ Chosen("scan", None)
  /\ hf' = HfOff
  /\ engine' = Running(ScanConfigFor(config, "scan", None, HfOff, safety))
  /\ UNCHANGED <<config, sameVars, safety>>

\* POST /api/scan/start and /api/scan/stop.
StartScan ==
  /\ engine' = Running(ScanConfigFor(config, mode, monitor, hf, safety))
  /\ UNCHANGED <<config, mode, monitor, sameVars, safety, hf, choiceVars>>

StopScan ==
  /\ engine' = [engine EXCEPT !.on = FALSE]
  /\ UNCHANGED <<config, mode, monitor, sameVars, safety, hf, choiceVars>>

\* Mutant: the sweep runs off the end of its windows.
HfNextPastEnd(h) == [h EXCEPT !.window = @ + 1, !.playing = FALSE]

\* POST /api/scan/skip in shortwave mode moves the sweep on, round its windows.
HfNext(h) == [h EXCEPT !.window = IF @ = Windows THEN 1 ELSE @ + 1, !.playing = FALSE]

\* apply(): the engine follows the sweep, unless the operator stopped it.
Apply(h) ==
  /\ hf' = h
  /\ engine' = IF engine.on THEN Running(ScanConfigFor(config, "hf", None, h, safety)) ELSE engine
  /\ UNCHANGED <<config, mode, monitor, sameVars, safety, choiceVars>>

SkipHf == mode = "hf" /\ hf.state = "armed" /\ Apply(HfNext(hf))

-----------------------------------------------------------------------------
(* The configuration.                                                       *)

KnownFreqs(c) == c.scanned \cup c.listed

\* Mutant: only the squelch mode of the plan is compared.
ScanChangedMonitorOnly(before, after) == before.monitor # after.monitor

\* PUT /api/config restarts the engine only for a change the scan can hear.
ScanChanged(before, after) == before # after

\* PUT /api/config: a monitored frequency that left every list ends the monitoring,
\* and the old and the new document are compared in the mode that leaves.
PutConfig(c) ==
  LET orphan == mode = "monitor" /\ monitor # None /\ monitor \notin KnownFreqs(c)
      m == IF orphan THEN "scan" ELSE mode
      mon == IF orphan THEN None ELSE monitor
      plan(d) == PlanFor(d, m, mon, HfTune(HfOff))
  IN  /\ c # config
      /\ config' = c
      /\ IF orphan THEN Chosen("scan", None) ELSE UNCHANGED <<mode, monitor, choiceVars>>
      /\ engine' = IF ScanChanged(plan(config), plan(c))
                   THEN Running(ScanConfigFor(c, m, mon, hf, safety)) ELSE engine
      /\ UNCHANGED <<sameVars, safety, hf>>

\* persistAndReload(): a channel or the weather channel was edited.
Reload(c) ==
  /\ config' = c
  /\ engine' = Running(ScanConfigFor(c, mode, monitor, hf, safety))
  /\ UNCHANGED <<mode, monitor, sameVars, safety, hf, choiceVars>>

AddChannel(f) ==
  f \notin config.scanned /\ Reload([config EXCEPT !.scanned = @ \cup {f}, !.listed = @ \ {f}])

DeleteChannel(f) == f \in config.scanned /\ Reload([config EXCEPT !.scanned = @ \ {f}])

PutWeatherChannel == Reload([config EXCEPT !.wx = TRUE])

\* The second Close Call hit of a frequency files it, and touches nothing else.
FileDiscovery(f) ==
  /\ f \notin KnownFreqs(config)
  /\ engine.on /\ engine.plan.hunts /\ ~engine.plan.monitor
  /\ config' = [config EXCEPT !.listed = @ \cup {f}]
  /\ UNCHANGED <<mode, monitor, sameVars, safety, hf, engine, choiceVars>>

-----------------------------------------------------------------------------
(* SAME.                                                                    *)

\* Mutant: the pending resume stays armed when a new message starts.
HeaderKeepsResume(t) == t

\* A covered header means a message is on the air: a pending resume is cancelled.
HeaderCancelsResume(t) == [t EXCEPT !.eom = Off]

\* Mutant: no safety net, only the end of the message ends the break-in.
BreakInNoNet(a) == NoTimers

\* The timers a break-in starts with.
BreakInTimers(a) == [revert |-> Hold[a], eom |-> Off]

Cap(n) == IF n < MinHold THEN n + 1 ELSE n
Heard == [heard EXCEPT !.eom = FALSE]

\* onSameEvent() with a header.
SameHeader(a) ==
  LET acts == a \in Covered /\ (a \in Tests => ShowTests)
      breaks == acts /\ a \notin Tests /\ mode \in Preempted /\ config.wx
  IN  /\ a # lastSame.raw
      /\ lastSame' = [raw |-> a, left |-> Dedupe]
      /\ IF breaks
         THEN /\ breakIn' = [on |-> TRUE, from |-> mode]
              /\ hf' = IF mode = "hf" THEN HfPaused(hf) ELSE hf
              /\ mode' = "weather" /\ monitor' = None
              /\ timers' = BreakInTimers(a)
              /\ engine' = Running(ScanConfigFor(config, "weather", None, hf', safety))
              /\ heard' = NotHeard
         ELSE /\ timers' = IF acts THEN HeaderCancelsResume(timers) ELSE timers
              /\ heard' = IF acts /\ breakIn.on THEN Heard ELSE heard
              /\ UNCHANGED <<breakIn, hf, mode, monitor, engine>>
      /\ UNCHANGED <<config, safety, choiceVars>>

\* onSameEvent() with the end of the message: resume after the grace.
SameEom ==
  /\ mode = "weather" /\ breakIn.on
  /\ timers' = [timers EXCEPT !.eom = Grace]
  /\ heard' = [heard EXCEPT !.eom = TRUE]
  /\ UNCHANGED <<config, mode, monitor, breakIn, lastSame, safety, hf, engine, choiceVars>>

\* Mutant: every break-in goes back to the scan.
ResumedScan(b) == "scan"

\* The mode a break-in hands the radio back to.
Resumed(b) == b.from

\* revertToScan(), from either timer.
Revert ==
  /\ timers.revert = 0 \/ timers.eom = 0
  /\ timers' = NoTimers
  /\ breakIn' = [breakIn EXCEPT !.on = FALSE]
  /\ IF mode # "weather"
     THEN UNCHANGED <<mode, hf, engine>>
     ELSE /\ mode' = Resumed(breakIn)
          /\ hf' = IF mode' = "hf" THEN HfResumed(hf) ELSE hf
          /\ engine' = Running(ScanConfigFor(config, mode', None, hf', safety))
  /\ heard' = NotHeard
  /\ UNCHANGED <<config, monitor, lastSame, safety, choiceVars>>

-----------------------------------------------------------------------------
(* Time, the sweep, the temperature, the process.                           *)

Less(n) == IF n > 0 THEN n - 1 ELSE n

Tick ==
  /\ timers.revert # 0 /\ timers.eom # 0
  /\ timers' = [revert |-> Less(timers.revert), eom |-> Less(timers.eom)]
  /\ lastSame' = IF lastSame.left <= 1 THEN [raw |-> None, left |-> 0]
                 ELSE [lastSame EXCEPT !.left = @ - 1]
  /\ heard' = IF breakIn.on THEN [heard EXCEPT !.since = Cap(@)] ELSE heard
  /\ UNCHANGED <<config, mode, monitor, breakIn, safety, hf, engine, choiceVars>>

\* HfController: its timer ends a window; a survey changes the station it plays.
HfTick == hf.state = "armed" /\ Apply(HfNext(hf))

HfSurvey ==
  /\ mode = "hf" /\ hf.state = "armed" /\ engine.on
  /\ Apply([hf EXCEPT !.playing = ~@])

\* SystemStats onSample: 90 C trips the protection, 78 C lifts it.  A break-in is
\* not disturbed; otherwise the engine restarts if that sheds or restores anything.
Sample ==
  /\ safety' = ~safety
  /\ engine' = IF breakIn.on \/ NothingToShed(config, mode) THEN engine
               ELSE Running(ScanConfigFor(config, mode, monitor, hf, safety'))
  /\ UNCHANGED <<config, mode, monitor, sameVars, hf, choiceVars>>

\* The process ends, in whatever state, and comes back: createServer() and the
\* engine.start() of index.ts.  Only config.json and mode.json survive.
Restart ==
  LET m == IF Runnable(config, saved) THEN saved.mode ELSE "scan"
      mon == IF m = "monitor" THEN saved.monitor ELSE None
  IN  /\ mode' = m /\ monitor' = mon
      /\ breakIn' = [on |-> FALSE, from |-> "scan"]
      /\ timers' = NoTimers
      /\ lastSame' = [raw |-> None, left |-> 0]
      /\ safety' = FALSE
      /\ hf' = IF m = "hf" THEN HfStarted ELSE HfOff
      /\ engine' = Running(ScanConfigFor(config, m, mon, hf', FALSE))
      /\ fellBack' = ~Runnable(config, saved)
      /\ heard' = NotHeard
      /\ UNCHANGED <<config, saved, asked>>

-----------------------------------------------------------------------------
Init ==
  /\ config \in Configs
  /\ mode = "scan" /\ monitor = None
  /\ breakIn = [on |-> FALSE, from |-> "scan"]
  /\ timers = NoTimers
  /\ lastSame = [raw |-> None, left |-> 0]
  /\ safety = FALSE
  /\ hf = HfOff
  /\ engine = Running(ScanConfigFor(config, "scan", None, HfOff, FALSE))
  /\ saved = [mode |-> "scan", monitor |-> None]
  /\ asked = [mode |-> "scan", monitor |-> None]
  /\ fellBack = FALSE
  /\ heard = NotHeard

OperatorStep ==
  \/ \E m \in Modes : SetMode(m)
  \/ \E f \in Freqs : SetMonitor(f)
  \/ StopMonitor \/ StartScan \/ StopScan \/ SkipHf
  \/ \E c \in Configs : PutConfig(c)
  \/ \E f \in Freqs : AddChannel(f) \/ DeleteChannel(f)
  \/ PutWeatherChannel

RadioStep ==
  \/ \E f \in Freqs : FileDiscovery(f)
  \/ \E a \in Alerts : SameHeader(a)
  \/ SameEom
  \/ HfTick \/ HfSurvey
  \/ Sample

Next == OperatorStep \/ RadioStep \/ Tick \/ Revert \/ Restart

Spec == Init /\ [][Next]_vars

\* Timers fire: the event loop runs the callback of a timer that is due.
FairSpec == Spec /\ WF_vars(Tick) /\ WF_vars(Revert)

-----------------------------------------------------------------------------
(* Properties.                                                              *)

PlanType == [listen: SUBSET (Freqs \cup {"wx", "cb", "hf"}), monitor: BOOLEAN,
             hunts: BOOLEAN, spy: BOOLEAN, tune: (0..Windows) \X BOOLEAN]
ChoiceType == [mode: Modes, monitor: Freqs \cup {None}]
HfType == [state: {"off", "armed", "paused"}, window: 1..Windows, playing: BOOLEAN]
BreakInType == [on: BOOLEAN, from: Preempted]
TimersType == [revert: Nat \cup {Off}, eom: Nat \cup {Off}]
SameType == [raw: Alerts \cup {None}, left: Nat]
HeardType == [since: 0..MinHold, eom: BOOLEAN]
EngineType == [on: BOOLEAN, plan: PlanType]

\* Every variable has its type.
TypeOK ==
  /\ config \in ConfigType
  /\ mode \in Modes /\ monitor \in Freqs \cup {None}
  /\ breakIn \in BreakInType
  /\ timers \in TimersType
  /\ lastSame \in SameType
  /\ safety \in BOOLEAN
  /\ hf \in HfType
  /\ engine \in EngineType
  /\ saved \in ChoiceType /\ asked \in ChoiceType /\ fellBack \in BOOLEAN
  /\ heard \in HeardType

InBreakIn == breakIn.on /\ mode = "weather"

\* The radio does what the operator last asked for, except while a break-in has it or
\* after a boot that could not: no revert, however late, lands in another mode, and
\* none undoes a choice made during the break-in.
ModeIsChoice ==
  \/ mode = asked.mode /\ monitor = asked.monitor
  \/ InBreakIn /\ (breakIn.from = asked.mode \/ fellBack)
  \/ fellBack /\ mode = "scan"

\* What a restart comes back to is the operator's last choice: a break-in is never
\* saved, and no path that changes the choice forgets to save it.
SavedIsChoice == saved = asked

\* The sweep runs exactly while the radio is in shortwave mode and is only ever paused
\* under a break-in that will resume it: it can neither retune another mode's radio
\* nor be left stranded.
HfFollowsMode ==
  /\ hf.state = "armed" <=> mode = "hf"
  /\ hf.state = "paused" <=> InBreakIn /\ breakIn.from = "hf"

\* A monitored frequency that left every list may still be playing: see OrphanScans.
Orphaned ==
  mode = "scan" /\ engine.plan.monitor /\ engine.plan.listen \in {{f} : f \in Freqs}

\* What a running engine is on is what the mode, the configuration and the sweep say,
\* hunting apart, whichever request, break-in, revert, sweep step or thermal restart
\* came last.
EngineOnMode ==
  engine.on =>
    LET plan == ScanConfigFor(config, mode, monitor, hf, safety)
    IN  Orphaned \/ [engine.plan EXCEPT !.hunts = plan.hunts] = plan

\* Whichever path gives the engine a plan while the box is hot, Close Call and the
\* sweeps stay off (server.ts:895-899).
ShedOnEveryTune ==
  [][safety' /\ engine' # engine /\ engine'.on => ~engine'.plan.hunts]_vars

TimerDue == timers.revert = 0 \/ timers.eom = 0

\* A break-in ends by itself only after the end of its message, or after its safety
\* net: a resume armed by an earlier message never cuts the next one short.
NeverCutShort == InBreakIn /\ TimerDue => heard.eom \/ heard.since >= MinHold

\* The operator's choice outlives alerts, the sweep, thermal trips and restarts: it is
\* what the radio does outside a break-in and what is saved; the sweep stands by it,
\* and a break-in that took it away is let run its time.
ChoiceKept == ModeIsChoice /\ SavedIsChoice /\ HfFollowsMode /\ NeverCutShort
\* A break-in gives the radio back, end of message or not.
BreakInEnds == []<>~InBreakIn

\* "fall back to scanning instead of sitting on a frequency that no longer exists
\* anywhere" (server.ts:983-984).  The documents are compared in scan mode, so an orphan
\* that was only listed restarts nothing.
OrphanScans == engine.on /\ mode = "scan" => ~engine.plan.monitor

\* "Whenever safetyMode is set (box >= 90 C), Close Call + sweeps stay OFF no matter
\* WHICH path re-tunes the engine" (server.ts:895-897).  /api/monitor and
\* /api/monitor/stop leave breakIn set, so a trip under it is not acted on, then or later.
ShedWhenHot == safety /\ ~breakIn.on /\ engine.on /\ mode = "scan" => ~engine.plan.hunts

=============================================================================
