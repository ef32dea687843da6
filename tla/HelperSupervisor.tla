-------------------------- MODULE HelperSupervisor --------------------------
(***************************************************************************)
(* The life of the native helper under the backend: class WidebandEngine    *)
(* (backend/engine/WidebandEngine.ts) on one side, the helper processes it  *)
(* spawns (native/app/main.cpp, run_live) on the other.                     *)
(*                                                                          *)
(* Node handlers run to their end one at a time; processes move between     *)
(* them, so a helper dies before its close is delivered, a ready line waits *)
(* in the pipe while a watchdog is due, and a helper that was told to quit  *)
(* still has the dongle when the next one opens it.  start() and stop()     *)
(* await nothing but each other: each is one step.                          *)
(*                                                                          *)
(* A configuration is what tells one helper from another: whether there is  *)
(* anything to scan, the shape (lanes and rate) and the source it is        *)
(* spawned for, and the two arguments that build a decoder.  Which group it *)
(* is parked on, and what it hears there, is left to other modules.         *)
(***************************************************************************)
EXTENDS Integers, FiniteSets

CONSTANTS
  Pids,         \* helper processes alive at once, at most
  None,         \* no process, no configuration
  Sources,      \* what a helper may read: the dongle or a SpyServer
  Rtl,          \* the dongle, which one process can open at a time
  Shapes,       \* lane count and sample rate
  Configs,      \* the configurations the server may pass
  MaxFaults,    \* crashes, wedges, missing devices and late lines, at most
  MaxCalls      \* calls of start, stop and retune, at most

ConfigType == [groups: BOOLEAN, shape: Shapes, source: Sources,
               closeCall: BOOLEAN, same: BOOLEAN]

ASSUME ConfigAssumption == Configs \subseteq ConfigType /\ None \notin Configs /\ Rtl \in Sources
ASSUME PidAssumption == None \notin Pids
ASSUME BoundAssumption == MaxFaults \in Nat /\ MaxCalls \in Nat

VARIABLES
  state,        \* _state, between two handlers
  config,       \* config and groups
  child,        \* child
  spawned,      \* spawnedShape, and the arguments that helper was given
  timers,       \* which of the engine's timers are armed
  failures,     \* exitFailures, up to 2: the code asks whether it is 0, 1 or more
  reportReady,  \* reportReady
  warm,         \* firstTunedSeen and warmReadySeen
  shown,        \* what the UIs last heard: a status or an error
  procs,        \* the helper processes
  faults,       \* faults left
  calls,        \* calls left
  deaths        \* history: unexpected exits, up to 2, since a helper last lived
                \* past HEALTHY_AFTER_MS or the source changed

engineVars == <<state, config, child, spawned, timers, failures, reportReady, warm, shown>>
vars == <<state, config, child, spawned, timers, failures, reportReady, warm, shown,
          procs, faults, calls, deaths>>

Phases == {"none", "boot", "up", "stuck", "dead"}
Free == [phase |-> "none", source |-> Rtl, quit |-> FALSE, ready |-> FALSE, aged |-> FALSE]
Booting(source) == [Free EXCEPT !.phase = "boot", !.source = source]

Timers == {"ready", "silence", "proven", "settle", "restart"}

UpTo2(n) == IF n < 2 THEN n + 1 ELSE n

----------------------------------------------------------------------------
(* The pieces of the handlers.                                              *)

\* Defects: killChild() drops the child without a word, or leaves a timer of it armed.
ToldNobody(ps) == ps
KilledButProven(t) == t \cap {"restart", "proven"}

\* killChild(): the child is told to quit, and what it still writes is ignored; one
\* that is already dead is gone for good.
Told(ps) ==
  IF child = None THEN ps
  ELSE [ps EXCEPT ![child] =
          IF @.phase = "dead" THEN Free
          ELSE [@ EXCEPT !.quit = TRUE, !.ready = FALSE, !.aged = FALSE]]

\* killChild(), on the timers: all but the restart timer.
Killed(t) == t \cap {"restart"}

\* spawnHelper(): a new process for c becomes the child, its ready watchdog armed.
FreePids(ps) == {p \in Pids : ps[p].phase = "none"}

SpawnHelper(c, ps, t) ==
  /\ FreePids(ps) # {}
  /\ child' = CHOOSE p \in FreePids(ps) : TRUE
  /\ procs' = [ps EXCEPT ![child'] = Booting(c.source)]
  /\ spawned' = c
  /\ timers' = t \cup {"ready"}

\* Defects: one good sign forgives every failure; failures decay instead of ending.
HealthyAtOnce(p, n) == 0
HealthyDecays(p, n) == IF procs[p].aged THEN n - 1 ELSE n

\* What an event of p leaves of exitFailures.
Healthy(p, n) == IF procs[p].aged THEN 0 ELSE n

\* Defects: the restart is forgotten; the silence watchdog is not armed on ready.
ExitForgotten(t) == Killed(t)
GreetedUnwatched(t) == (t \ {"ready"}) \cup (IF reportReady THEN {"proven"} ELSE {})

\* The timers after handleUnexpectedExit(), and after "ready".
AfterExit(t) == Killed(t) \cup {"restart"}
Greeted(t) == (t \ {"ready"}) \cup {"silence"} \cup (IF reportReady THEN {"proven"} ELSE {})

\* sendTune() and markFirstTune(): the first tune starts the settle timer.
TunedWarm(w) == [w EXCEPT !.tuned = TRUE]
TunedTimers(t, w) == IF w.tuned THEN t ELSE t \cup {"settle"}

\* Defect: the new helper's first tune is taken for an old one.
RespawnTuned(w) == [w EXCEPT !.tuned = TRUE]

\* respawnForSource(): warm stays warm; if not, the new helper's tune must settle.
RespawnWarm(w) == [w EXCEPT !.tuned = w.ready]

----------------------------------------------------------------------------
(* Calls of the server.                                                     *)

\* start(c), stop() included when a helper is running.
Start(c) ==
  /\ config' = c
  /\ state' = "running"
  /\ shown' = "running"
  /\ warm' = [tuned |-> FALSE, ready |-> ~c.groups]
  /\ \/ c.groups /\ SpawnHelper(c, Told(procs), {})
     \/ /\ ~c.groups
        /\ child' = None
        /\ procs' = Told(procs)
        /\ timers' = {}
        /\ UNCHANGED spawned
  /\ UNCHANGED <<failures, reportReady, deaths>>

Stop ==
  /\ state' = "stopped"
  /\ shown' = "stopped"
  /\ child' = None
  /\ procs' = Told(procs)
  /\ timers' = {}
  /\ UNCHANGED <<config, spawned, failures, reportReady, warm, deaths>>

\* A retune cannot change radios: respawnForSource(), with no warm-up and no "stopped".
RespawnForSource(c) ==
  /\ config' = c
  /\ warm' = RespawnWarm(warm)
  /\ failures' = 0
  /\ deaths' = 0
  /\ SpawnHelper(c, Told(procs), {})
  /\ UNCHANGED <<state, reportReady, shown>>

\* The live helper gets a tune command of the new configuration.
Repoint(c) ==
  /\ config' = c
  /\ warm' = TunedWarm(warm)
  /\ timers' = TunedTimers(timers, warm)
  /\ UNCHANGED <<state, child, spawned, failures, reportReady, shown, procs, deaths>>

\* A SpyServer in restart backoff: the helper that is coming will read the new config.
AimNext(c) ==
  /\ config' = c
  /\ UNCHANGED <<state, child, spawned, timers, failures, reportReady, warm, shown, procs, deaths>>

CrossesRadios(c) == state = "running" /\ spawned # None /\ spawned.source # c.source
InBackoff(c) == state = "running" /\ c.source # Rtl /\ "restart" \in timers
\* Defect: a helper of another shape is re-pointed.
FitsAny(c) == state = "running" /\ child # None /\ c.groups

\* The live helper can take c: slots and rate are spawn arguments.
FitsLive(c) == state = "running" /\ child # None /\ spawned.shape = c.shape /\ c.groups

\* stdin of a helper that died unnoticed may still look writable, or not.
NeedsStart(c) == FitsLive(c) => procs[child].phase = "dead"

Retune(c) ==
  \/ CrossesRadios(c) /\ c.groups /\ RespawnForSource(c)
  \/ CrossesRadios(c) /\ ~c.groups /\ Start(c)
  \/ ~CrossesRadios(c) /\ InBackoff(c) /\ AimNext(c)
  \/ ~CrossesRadios(c) /\ ~InBackoff(c) /\ FitsLive(c) /\ Repoint(c)
  \/ ~CrossesRadios(c) /\ ~InBackoff(c) /\ NeedsStart(c) /\ Start(c)

Call ==
  /\ calls > 0
  /\ calls' = calls - 1
  /\ UNCHANGED faults
  /\ \/ \E c \in Configs : Start(c) \/ Retune(c)
     \/ Stop

----------------------------------------------------------------------------
(* What the helper and the timers bring.                                    *)

NodeReady ==
  /\ child # None /\ procs[child].ready
  /\ procs' = [procs EXCEPT ![child].ready = FALSE]
  /\ failures' = Healthy(child, failures)
  /\ \/ /\ config.groups
        /\ warm' = TunedWarm(warm)
        /\ timers' = TunedTimers(Greeted(timers), warm)
     \/ /\ ~config.groups \/ procs[child].phase = "dead"
        /\ timers' = Greeted(timers)
        /\ UNCHANGED warm
  /\ UNCHANGED <<state, config, child, spawned, reportReady, shown, faults, calls, deaths>>

\* Any later line; a stuck helper may go on logging.
NodeLine ==
  /\ child # None /\ "silence" \in timers /\ procs[child].phase \in {"up", "stuck"}
  /\ failures > 0
  /\ failures' = Healthy(child, failures)
  /\ UNCHANGED <<state, config, child, spawned, timers, reportReady, warm, shown,
                 procs, faults, calls, deaths>>

\* handleUnexpectedExit(): the first failure is soft, repetition is an error.
UnexpectedExit ==
  /\ child' = None
  /\ procs' = Told(procs)
  /\ failures' = UpTo2(failures)
  /\ deaths' = UpTo2(deaths)
  /\ reportReady' = TRUE
  /\ shown' = IF failures = 0 THEN "retuning" ELSE "error"
  /\ warm' = [warm EXCEPT !.tuned = FALSE]
  /\ timers' = AfterExit(timers)
  /\ UNCHANGED <<state, config, spawned, calls>>

\* The child's close, after the last line of its pipe.
NodeClose ==
  /\ child # None /\ procs[child].phase = "dead" /\ ~procs[child].ready
  /\ UnexpectedExit
  /\ UNCHANGED faults

Hung == procs[child].phase \in {"stuck", "dead"}
Fault == faults > 0 /\ faults' = faults - 1

\* A watchdog is due: the helper is hung, or lines were late.
ReadyTimeout == child # None /\ "ready" \in timers /\ Hung /\ UnexpectedExit /\ UNCHANGED faults
SilenceTimeout == child # None /\ "silence" \in timers /\ Hung /\ UnexpectedExit /\ UNCHANGED faults
LateLines == child # None /\ ~Hung /\ UnexpectedExit /\ Fault

RestartFire ==
  /\ "restart" \in timers
  /\ SpawnHelper(config, procs, timers \ {"restart"})
  /\ UNCHANGED <<state, config, failures, reportReady, warm, shown, faults, calls, deaths>>

SettleFire ==
  /\ "settle" \in timers
  /\ timers' = timers \ {"settle"}
  /\ warm' = [warm EXCEPT !.ready = TRUE]
  /\ UNCHANGED <<state, config, child, spawned, failures, reportReady, shown,
                 procs, faults, calls, deaths>>

\* READY_PROVEN_MS after a ready that followed an exit: the UIs hear of the recovery.
ProvenFire ==
  /\ "proven" \in timers
  /\ timers' = timers \ {"proven"}
  /\ reportReady' = FALSE
  /\ shown' = "running"
  /\ UNCHANGED <<state, config, child, spawned, failures, warm, procs, faults, calls, deaths>>

----------------------------------------------------------------------------
(* The processes.                                                           *)

Running(p) == procs[p].phase \in {"boot", "up", "stuck"}

\* Another process has the dongle p wants, perhaps one that is on its way out.
Contended(p) ==
  procs[p].source = Rtl
    /\ \E q \in Pids \ {p} : procs[q].source = Rtl /\ procs[q].phase \in {"up", "stuck"}

\* p is gone; the close of the child is still to be delivered.
Exits(p) ==
  procs' = [procs EXCEPT ![p] = IF child = p THEN [@ EXCEPT !.phase = "dead"] ELSE Free]

\* open() succeeds and "ready" is written, to be read if p is still the child.
Open(p) ==
  /\ procs[p].phase = "boot" /\ ~Contended(p)
  /\ procs' = [procs EXCEPT ![p].phase = "up", ![p].ready = (child = p)]
  /\ UNCHANGED <<engineVars, faults, calls, deaths>>

\* open() gives up: the dongle stayed busy for BUSY_RETRY_S.
OpenFails(p) ==
  /\ procs[p].phase = "boot" /\ Contended(p)
  /\ Exits(p)
  /\ UNCHANGED <<engineVars, faults, calls, deaths>>

\* No device, a spawn that fails, a lost radio, a crash.
Crash(p) ==
  /\ procs[p].phase \in {"boot", "up"}
  /\ Exits(p)
  /\ Fault
  /\ UNCHANGED <<engineVars, calls, deaths>>

\* A driver or the DSP thread hangs.
Wedge(p) ==
  /\ procs[p].phase \in {"boot", "up"}
  /\ procs' = [procs EXCEPT ![p].phase = "stuck"]
  /\ Fault
  /\ UNCHANGED <<engineVars, calls, deaths>>

\* Told to quit: it does, or SIGKILL ends it after QUIT_GRACE_MS.
Quits(p) ==
  /\ procs[p].quit /\ Running(p)
  /\ Exits(p)
  /\ UNCHANGED <<engineVars, faults, calls, deaths>>

\* The child has lived past HEALTHY_AFTER_MS.
Ages(p) ==
  /\ child = p /\ procs[p].phase \in {"up", "stuck"} /\ ~procs[p].aged
  /\ procs' = [procs EXCEPT ![p].aged = TRUE]
  /\ deaths' = 0
  /\ UNCHANGED <<engineVars, faults, calls>>

----------------------------------------------------------------------------
Init ==
  /\ state = "stopped" /\ shown = "stopped"
  /\ config \in Configs
  /\ child = None /\ spawned = None
  /\ timers = {}
  /\ failures = 0 /\ deaths = 0
  /\ reportReady = FALSE
  /\ warm = [tuned |-> FALSE, ready |-> FALSE]
  /\ procs = [p \in Pids |-> Free]
  /\ faults = MaxFaults /\ calls = MaxCalls

NodeStep == NodeReady \/ NodeLine \/ NodeClose
TimerStep == ReadyTimeout \/ SilenceTimeout \/ LateLines \/ RestartFire \/ SettleFire \/ ProvenFire
ProcessStep ==
  \E p \in Pids : Open(p) \/ OpenFails(p) \/ Crash(p) \/ Wedge(p) \/ Quits(p) \/ Ages(p)

Next == Call \/ NodeStep \/ TimerStep \/ ProcessStep

Spec == Init /\ [][Next]_vars

\* Timers fire, pipes are read, a process opens a free device or ends when told to.
\* Nothing makes the operator call, a helper age, or a fault happen.
FairSpec ==
  /\ Spec
  /\ WF_vars(NodeReady) /\ WF_vars(NodeClose)
  /\ WF_vars(ReadyTimeout) /\ WF_vars(SilenceTimeout)
  /\ WF_vars(RestartFire) /\ WF_vars(SettleFire) /\ WF_vars(ProvenFire)
  /\ \A p \in Pids : WF_vars(Open(p)) /\ WF_vars(Quits(p))

----------------------------------------------------------------------------
(* Properties.                                                              *)

ProcType == [phase: Phases, source: Sources, quit: BOOLEAN, ready: BOOLEAN, aged: BOOLEAN]

\* Every variable has its type; exitFailures never leaves the range the code tests.
TypeOK ==
  /\ state \in {"stopped", "running"}
  /\ config \in Configs
  /\ child \in Pids \cup {None}
  /\ spawned \in Configs \cup {None}
  /\ timers \subseteq Timers
  /\ failures \in 0..2 /\ deaths \in 0..2
  /\ reportReady \in BOOLEAN
  /\ warm \in [tuned: BOOLEAN, ready: BOOLEAN]
  /\ shown \in {"stopped", "running", "retuning", "error"}
  /\ procs \in [Pids -> ProcType]
  /\ faults \in 0..MaxFaults /\ calls \in 0..MaxCalls

\* No helper is left behind: a live process that nobody told to quit is the child, so
\* no overlap of stops, starts, retunes and restarts keeps the dongle from the next one.
NoOrphan == \A p \in Pids : Running(p) /\ ~procs[p].quit => child = p

\* A running engine with something to scan has a helper or a restart under way, and
\* never both.
Supervised ==
  /\ state = "running" /\ config.groups => child # None \/ "restart" \in timers
  /\ "restart" \in timers => child = None /\ state = "running"

\* A helper is watched by exactly one watchdog from its spawn to its end, and no timer
\* outlives the helper it is about.
AlwaysWatched ==
  IF child = None
    THEN timers \subseteq {"restart"}
    ELSE "ready" \in timers <=> "silence" \notin timers

\* The helper reads the source, and has the lanes and the rate, that the configuration
\* asks for, whatever mixture of retunes, respawns and restarts led to it.
HelperFitsConfig ==
  child # None => spawned.source = config.source /\ spawned.shape = config.shape

\* A helper that keeps dying is shown as an error: that it says "ready" before each
\* death does not count (WidebandEngine.ts:714-715).
CrashLoopShown == "restart" \in timers /\ deaths = 2 => shown = "error"

\* However calls, exits and timers overlap there is one helper or one on its way, it
\* is watched, it is the one the configuration asks for, and none is left behind;
\* and one that keeps dying is shown to.
HelperSound == NoOrphan /\ Supervised /\ AlwaysWatched /\ HelperFitsConfig /\ CrashLoopShown
\* Once an exit has been reported, only a fresh start, or a helper that said ready and
\* is still the child, takes the report off the screen.
ErrorLiftedByHelper ==
  [][shown' = "running" /\ shown \in {"retuning", "error"}
       => calls' # calls \/ (child # None /\ "ready" \notin timers)]_vars

\* When faults and calls cease, a running engine ends up with a live helper that has
\* been tuned and has settled, and with no report of a failure on the screen.
EventuallyHealthy ==
  <>[](state = "running" /\ config.groups =>
         /\ child # None /\ procs[child].phase = "up" /\ "ready" \notin timers
         /\ shown = "running" /\ warm.ready)

\* "A closeCall config change respawns the helper, so this stays in sync"
\* (WidebandEngine.ts:604).  retune() compares lanes, rate and source only.
CloseCallInSync == child # None /\ config.closeCall => spawned.closeCall

\* "first-time NWR setup must start SAME decoding now" (server.ts:1214-1215).  It
\* retunes, and the decoder is a spawn argument.
SameInSync == child # None /\ config.same => spawned.same

=============================================================================
