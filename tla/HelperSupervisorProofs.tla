----------------------- MODULE HelperSupervisorProofs -----------------------
(***************************************************************************)
(* Proofs about HelperSupervisor, for any processes, sources, shapes,       *)
(* configurations and bounds.  The inductive invariant adds to the          *)
(* invariants of the module what a handler relies on: a stopped engine has  *)
(* no child, a child has a process and was given a configuration, a         *)
(* recovery is only awaited from a helper that said ready, and exitFailures *)
(* never falls behind the deaths it counts.                                 *)
(* Then about ActivityHistory, the table of what helpers heard: the lines   *)
(* of an opening follow it, and a reading's row is the one open or closed   *)
(* last unless the engine took its transmission for stale.                  *)
(* And about AdminPage, for any fields, costs and values: what becomes of   *)
(* an edit made on the Tune page, what holds the power keys, and what the   *)
(* weather channel's control shows: PageSound.                              *)
(***************************************************************************)
EXTENDS HelperSupervisor, ActivityHistory, AdminPage, TLAPS

\* A child is a process of a running engine, spawned for a configuration.
ChildReal ==
  /\ child # None => /\ state = "running" /\ spawned # None
                     /\ procs[child].phase # "none"
  /\ "proven" \in timers => "ready" \notin timers

\* exitFailures keeps up with the deaths, and a healthy child ends the count.
FailuresCounted ==
  /\ deaths <= failures
  /\ child # None /\ procs[child].aged => deaths = 0

IInv ==
  /\ TypeOK /\ NoOrphan /\ Supervised /\ AlwaysWatched /\ HelperFitsConfig
  /\ CrashLoopShown /\ ChildReal /\ FailuresCounted

\* Nothing alive is still expected to work.
AllTold(ps) == \A p \in Pids : ps[p].phase \in {"boot", "up", "stuck"} => ps[p].quit

LEMMA PhaseFacts == Free \in ProcType /\ \A source \in Sources : Booting(source) \in ProcType
  BY ZenonT(60), ConfigAssumption DEF Free, Booting, ProcType, Phases

\* A process whose fields are replaced by fields of their types is a process.
LEMMA ProcUpdate ==
  ASSUME NEW r \in ProcType, NEW ph \in Phases, NEW b \in BOOLEAN
  PROVE  /\ [r EXCEPT !.phase = ph] \in ProcType
         /\ [r EXCEPT !.ready = b] \in ProcType
         /\ [r EXCEPT !.aged = b] \in ProcType
         /\ [r EXCEPT !.phase = ph, !.ready = b] \in ProcType
         /\ [r EXCEPT !.quit = TRUE, !.ready = FALSE, !.aged = FALSE] \in ProcType
  BY DEF ProcType

\* After killChild() no process is expected to work, and none got a new life.
LEMMA ToldAll ==
  ASSUME TypeOK, NoOrphan
  PROVE  /\ Told(procs) \in [Pids -> ProcType]
         /\ AllTold(Told(procs))
<1>1. CASE child = None
  BY <1>1, PidAssumption DEF Told, TypeOK, NoOrphan, AllTold, Running
<1>2. CASE child # None
  <2> DEFINE r == procs[child]
             quits == [r EXCEPT !.quit = TRUE, !.ready = FALSE, !.aged = FALSE]
             new == IF r.phase = "dead" THEN Free ELSE quits
  <2>1. child \in Pids /\ r \in ProcType  BY <1>2 DEF TypeOK
  <2>2. new \in ProcType  BY ZenonT(60), <2>1, PhaseFacts, ProcUpdate, "dead" \in Phases DEF Phases
  <2>3. Told(procs) = [procs EXCEPT ![child] = new]  BY <1>2 DEF Told
  <2>4. Free.phase = "none"  BY DEF Free
  <2>5. quits.quit = TRUE  BY <2>1 DEF ProcType
  <2>6. new.phase = "none" \/ new.quit  BY <2>4, <2>5
  <2> HIDE DEF new
  <2> QED  BY <2>1, <2>2, <2>3, <2>6, <1>2 DEF TypeOK, NoOrphan, AllTold, Running
<1> QED  BY <1>1, <1>2

\* A spawn among processes that are all on their way out leaves one child, young and
\* watched.
LEMMA SpawnStep ==
  ASSUME NEW c \in Configs, NEW ps \in [Pids -> ProcType], NEW t \in SUBSET Timers,
         AllTold(ps), SpawnHelper(c, ps, t)
  PROVE  /\ child' \in Pids /\ child' # None /\ spawned' = c /\ spawned' # None
         /\ procs' \in [Pids -> ProcType]
         /\ procs'[child'].phase = "boot" /\ ~procs'[child'].aged
         /\ NoOrphan'
         /\ timers' = t \cup {"ready"}
<1>1. child' \in Pids /\ child' # None  BY PidAssumption DEF SpawnHelper, FreePids
<1>2. Booting(c.source) \in ProcType /\ Booting(c.source).phase = "boot" /\ ~Booting(c.source).aged
  <2>1. c.source \in Sources  BY ConfigAssumption DEF ConfigType
  <2>2. Booting(c.source).phase = "boot" /\ ~Booting(c.source).aged  BY DEF Booting, Free
  <2> QED  BY <2>1, <2>2, PhaseFacts
<1>3. procs' = [ps EXCEPT ![child'] = Booting(c.source)]  BY DEF SpawnHelper
<1>4. procs' \in [Pids -> ProcType] /\ procs'[child'] = Booting(c.source)
      /\ \A p \in Pids : p # child' => procs'[p] = ps[p]
  BY <1>1, <1>2, <1>3
<1>5. NoOrphan'  BY <1>4 DEF NoOrphan, Running, AllTold
<1> QED  BY <1>1, <1>2, <1>4, <1>5, ConfigAssumption DEF SpawnHelper

\* The variables a handler sets directly keep their types.
PlainTyped ==
  /\ warm' \in [tuned: BOOLEAN, ready: BOOLEAN]
  /\ reportReady' \in BOOLEAN
  /\ failures' \in 0..2 /\ deaths' \in 0..2
  /\ shown' \in {"stopped", "running", "retuning", "error"}
  /\ faults' \in 0..MaxFaults /\ calls' \in 0..MaxCalls

\* A handler that ends in a spawn with no other timer armed keeps the invariant.
LEMMA SpawnKeeps ==
  ASSUME NEW c \in Configs, NEW ps \in [Pids -> ProcType],
         AllTold(ps), SpawnHelper(c, ps, {}),
         config' = c, state' = "running", PlainTyped, deaths' <= failures'
  PROVE  IInv'
<1>1. {} \in SUBSET Timers  OBVIOUS
<1>2. /\ child' \in Pids /\ child' # None /\ spawned' = c /\ spawned' # None
      /\ procs' \in [Pids -> ProcType]
      /\ procs'[child'].phase = "boot" /\ ~procs'[child'].aged
      /\ NoOrphan'
      /\ timers' = {"ready"}
  BY <1>1, SpawnStep
<1>3. TypeOK'  BY <1>2 DEF TypeOK, PlainTyped, Timers
<1>4. Supervised' /\ AlwaysWatched' /\ CrashLoopShown' /\ HelperFitsConfig'
  BY <1>2 DEF Supervised, AlwaysWatched, CrashLoopShown, HelperFitsConfig
<1>5. ChildReal' /\ FailuresCounted'
  BY <1>2 DEF ChildReal, FailuresCounted
<1> QED  BY <1>2, <1>3, <1>4, <1>5 DEF IInv

\* A handler that ends with no child and no timer keeps the invariant.
LEMMA ChildlessKeeps ==
  ASSUME IInv, config' \in Configs, state' \in {"stopped", "running"},
         state' = "running" => ~config'.groups,
         child' = None, procs' = Told(procs), timers' = {}, spawned' = spawned,
         PlainTyped, deaths' <= failures'
  PROVE  IInv'
<1>1. procs' \in [Pids -> ProcType] /\ AllTold(procs')  BY ToldAll DEF IInv
<1>2. TypeOK'  BY <1>1 DEF IInv, TypeOK, PlainTyped
<1>3. NoOrphan'  BY <1>1 DEF AllTold, NoOrphan, Running
<1>4. Supervised' /\ AlwaysWatched' /\ CrashLoopShown' /\ HelperFitsConfig'
  BY DEF Supervised, AlwaysWatched, CrashLoopShown, HelperFitsConfig
<1>5. ChildReal' /\ FailuresCounted'  BY DEF ChildReal, FailuresCounted
<1> QED  BY <1>2, <1>3, <1>4, <1>5 DEF IInv

LEMMA StartKeeps ==
  ASSUME IInv, NEW c \in Configs, Start(c), faults' \in 0..MaxFaults, calls' \in 0..MaxCalls
  PROVE  IInv'
<1>1. PlainTyped /\ deaths' <= failures'
  <2>1. c.groups \in BOOLEAN  BY ConfigAssumption DEF ConfigType
  <2>2. (~c.groups) \in BOOLEAN  BY <2>1
  <2>3. warm' \in [tuned: BOOLEAN, ready: BOOLEAN]  BY <2>2 DEF Start
  <2> QED  BY <2>3 DEF Start, PlainTyped, IInv, TypeOK, FailuresCounted
<1>2. CASE c.groups
  BY <1>1, <1>2, ToldAll, SpawnKeeps DEF Start, IInv
<1>3. CASE ~c.groups
  <2>1. /\ config' = c /\ state' = "running" /\ child' = None /\ procs' = Told(procs)
        /\ timers' = {} /\ spawned' = spawned
    BY <1>3 DEF Start
  <2> QED  BY <1>1, <1>3, <2>1, ChildlessKeeps
<1> QED  BY <1>2, <1>3

LEMMA StopKeeps ==
  ASSUME IInv, Stop, faults' \in 0..MaxFaults, calls' \in 0..MaxCalls
  PROVE  IInv'
<1>1. PlainTyped /\ deaths' <= failures' /\ config' \in Configs
  BY DEF Stop, PlainTyped, IInv, TypeOK, FailuresCounted
<1>2. /\ state' = "stopped" /\ child' = None /\ procs' = Told(procs)
      /\ timers' = {} /\ spawned' = spawned
  BY DEF Stop
<1> QED  BY <1>1, <1>2, ChildlessKeeps

LEMMA RespawnKeeps ==
  ASSUME IInv, NEW c \in Configs, RespawnForSource(c), state = "running",
         faults' \in 0..MaxFaults, calls' \in 0..MaxCalls
  PROVE  IInv'
<1>1. PlainTyped /\ deaths' <= failures' /\ config' = c /\ state' = "running"
  <2>1. warm' \in [tuned: BOOLEAN, ready: BOOLEAN]
    BY DEF RespawnForSource, RespawnWarm, IInv, TypeOK
  <2> QED  BY <2>1 DEF RespawnForSource, PlainTyped, IInv, TypeOK
<1>2. SpawnHelper(c, Told(procs), {})  BY DEF RespawnForSource
<1> QED  BY <1>1, <1>2, ToldAll, SpawnKeeps DEF IInv

\* A tune arms at most the settle timer.
LEMMA TuneFacts ==
  ASSUME NEW t \in SUBSET Timers, NEW w \in [tuned: BOOLEAN, ready: BOOLEAN]
  PROVE  /\ TunedTimers(t, w) \in SUBSET Timers
         /\ TunedTimers(t, w) \ {"settle"} = t \ {"settle"}
         /\ TunedWarm(w) \in [tuned: BOOLEAN, ready: BOOLEAN]
  BY DEF TunedTimers, TunedWarm, Timers

\* What matters of the timers while a child is there.
LEMMA TimersKeep ==
  ASSUME IInv, child # None, timers' \in SUBSET Timers,
         timers' \ {"settle"} = timers \ {"settle"}
  PROVE  \A x \in {"ready", "silence", "proven", "restart"} : x \in timers' <=> x \in timers
  OBVIOUS

LEMMA RepointKeeps ==
  ASSUME IInv, NEW c \in Configs, Repoint(c), FitsLive(c), ~CrossesRadios(c),
         faults' \in 0..MaxFaults, calls' \in 0..MaxCalls
  PROVE  IInv'
<1>1. state = "running" /\ child # None /\ spawned.shape = c.shape /\ spawned # None
  BY DEF FitsLive, IInv, ChildReal
<1>2. spawned.source = c.source  BY <1>1 DEF CrossesRadios
<1>3. timers' \in SUBSET Timers /\ timers' \ {"settle"} = timers \ {"settle"}
      /\ warm' \in [tuned: BOOLEAN, ready: BOOLEAN]
  BY TuneFacts DEF Repoint, IInv, TypeOK
<1>4. \A x \in {"ready", "silence", "proven", "restart"} : x \in timers' <=> x \in timers
  BY <1>1, <1>3, TimersKeep
<1>5. UNCHANGED <<state, child, spawned, failures, reportReady, shown, procs, deaths>> /\ config' = c
  BY DEF Repoint
<1>6. TypeOK'  BY <1>3, <1>5 DEF IInv, TypeOK
<1>7. NoOrphan'  BY <1>5 DEF IInv, NoOrphan, Running
<1>8. Supervised' /\ AlwaysWatched' /\ CrashLoopShown'
  BY <1>1, <1>4, <1>5 DEF IInv, Supervised, AlwaysWatched, CrashLoopShown
<1>9. HelperFitsConfig'  BY <1>1, <1>2, <1>5 DEF HelperFitsConfig
<1>10. ChildReal' /\ FailuresCounted'
  BY <1>4, <1>5 DEF IInv, ChildReal, FailuresCounted
<1> QED  BY <1>6, <1>7, <1>8, <1>9, <1>10 DEF IInv

LEMMA AimKeeps ==
  ASSUME IInv, NEW c \in Configs, AimNext(c), InBackoff(c),
         faults' \in 0..MaxFaults, calls' \in 0..MaxCalls
  PROVE  IInv'
<1>1. child = None /\ "restart" \in timers  BY DEF InBackoff, IInv, Supervised
<1>2. UNCHANGED <<state, child, spawned, timers, failures, reportReady, warm, shown, procs, deaths>>
      /\ config' = c
  BY DEF AimNext
<1>3. TypeOK'  BY <1>2 DEF IInv, TypeOK
<1>4. NoOrphan' /\ Supervised' /\ AlwaysWatched' /\ CrashLoopShown' /\ HelperFitsConfig'
  BY <1>1, <1>2 DEF IInv, NoOrphan, Running, Supervised, AlwaysWatched, CrashLoopShown, HelperFitsConfig
<1>5. ChildReal' /\ FailuresCounted'  BY <1>1, <1>2 DEF IInv, ChildReal, FailuresCounted
<1> QED  BY <1>3, <1>4, <1>5 DEF IInv

LEMMA CallKeeps == ASSUME IInv, Call PROVE IInv'
<1>1. calls' \in 0..MaxCalls /\ faults' \in 0..MaxFaults
  BY BoundAssumption DEF Call, IInv, TypeOK
<1>2. CASE Stop  BY <1>1, <1>2, StopKeeps
<1>3. ASSUME NEW c \in Configs, Start(c) PROVE IInv'  BY <1>1, <1>3, StartKeeps
<1>4. ASSUME NEW c \in Configs, Retune(c) PROVE IInv'
  <2>1. CASE CrossesRadios(c) /\ c.groups /\ RespawnForSource(c)
    BY <1>1, <2>1, RespawnKeeps DEF CrossesRadios
  <2>2. CASE Start(c)  BY <1>1, <2>2, StartKeeps
  <2>3. CASE InBackoff(c) /\ AimNext(c)  BY <1>1, <2>3, AimKeeps
  <2>4. CASE ~CrossesRadios(c) /\ FitsLive(c) /\ Repoint(c)  BY <1>1, <2>4, RepointKeeps
  <2> QED  BY <1>4, <2>1, <2>2, <2>3, <2>4 DEF Retune
<1> QED  BY <1>2, <1>3, <1>4 DEF Call

-----------------------------------------------------------------------------
(* What the helper and the timers bring.                                    *)

\* An event of the child can only end the count, never leave it behind.
LEMMA HealthyCounted ==
  ASSUME IInv, child # None
  PROVE  Healthy(child, failures) \in 0..2 /\ deaths <= Healthy(child, failures)
  BY DEF Healthy, IInv, TypeOK, FailuresCounted

LEMMA ReadyKeeps == ASSUME IInv, NodeReady PROVE IInv'
<1> DEFINE greeted == Greeted(timers)
<1>1. /\ child # None /\ child \in Pids /\ timers \in SUBSET Timers
      /\ warm \in [tuned: BOOLEAN, ready: BOOLEAN] /\ procs \in [Pids -> ProcType]
  BY DEF NodeReady, IInv, TypeOK
<1>2. /\ greeted \in SUBSET Timers
      /\ "ready" \notin greeted /\ "silence" \in greeted
      /\ "restart" \in greeted <=> "restart" \in timers
  BY <1>1 DEF Greeted, Timers
<1> HIDE DEF greeted
<1>3. /\ timers' \in SUBSET Timers /\ warm' \in [tuned: BOOLEAN, ready: BOOLEAN]
      /\ timers' \ {"settle"} = greeted \ {"settle"}
  BY <1>1, <1>2, TuneFacts DEF NodeReady, greeted
<1>4. /\ "ready" \notin timers' /\ "silence" \in timers'
      /\ "restart" \in timers' <=> "restart" \in timers
  BY SMTT(60), <1>2, <1>3
<1>5. [procs[child] EXCEPT !.ready = FALSE] \in ProcType  BY ZenonT(60), <1>1, ProcUpdate DEF Phases
<1>6. /\ procs' = [procs EXCEPT ![child] = [procs[child] EXCEPT !.ready = FALSE]]
      /\ failures' = Healthy(child, failures)
      /\ UNCHANGED <<state, config, child, spawned, reportReady, shown, faults, calls, deaths>>
  BY DEF NodeReady
<1>7. procs' \in [Pids -> ProcType]  BY <1>1, <1>5, <1>6
<1>8. \A p \in Pids : /\ procs'[p].phase = procs[p].phase
                      /\ procs'[p].quit = procs[p].quit
                      /\ procs'[p].aged = procs[p].aged
  BY <1>1, <1>6 DEF ProcType
<1>9. TypeOK'  BY <1>3, <1>6, <1>7, HealthyCounted, <1>1 DEF IInv, TypeOK
<1>10. NoOrphan'  BY <1>6, <1>8 DEF IInv, NoOrphan, Running
<1>11. Supervised' /\ AlwaysWatched' /\ CrashLoopShown' /\ HelperFitsConfig'
  BY <1>1, <1>4, <1>6 DEF IInv, Supervised, AlwaysWatched, CrashLoopShown, HelperFitsConfig
<1>12. ChildReal' /\ FailuresCounted'
  BY <1>1, <1>4, <1>6, <1>8, HealthyCounted DEF IInv, ChildReal, FailuresCounted
<1> QED  BY <1>9, <1>10, <1>11, <1>12 DEF IInv

LEMMA LineKeeps == ASSUME IInv, NodeLine PROVE IInv'
<1>1. /\ child # None /\ failures' = Healthy(child, failures)
      /\ UNCHANGED <<state, config, child, spawned, timers, reportReady, warm, shown,
                     procs, faults, calls, deaths>>
  BY DEF NodeLine
<1>2. TypeOK' /\ FailuresCounted'
  BY <1>1, HealthyCounted DEF IInv, TypeOK, FailuresCounted
<1>3. NoOrphan' /\ Supervised' /\ AlwaysWatched' /\ CrashLoopShown' /\ HelperFitsConfig' /\ ChildReal'
  BY <1>1 DEF IInv, NoOrphan, Running, Supervised, AlwaysWatched, CrashLoopShown,
              HelperFitsConfig, ChildReal
<1> QED  BY <1>2, <1>3 DEF IInv

\* handleUnexpectedExit(): no child, a restart, and the report that fits the count.
LEMMA ExitKeeps ==
  ASSUME IInv, child # None, UnexpectedExit, faults' \in 0..MaxFaults
  PROVE  IInv'
<1>1. /\ child' = None /\ procs' = Told(procs) /\ timers' = AfterExit(timers)
      /\ failures' = UpTo2(failures) /\ deaths' = UpTo2(deaths)
      /\ shown' = IF failures = 0 THEN "retuning" ELSE "error"
      /\ UNCHANGED <<state, config, spawned, calls>> /\ reportReady' = TRUE
      /\ warm' = [warm EXCEPT !.tuned = FALSE]
  BY DEF UnexpectedExit
<1>2. procs' \in [Pids -> ProcType] /\ AllTold(procs')  BY <1>1, ToldAll DEF IInv
<1>3. timers' = {"restart"}
  BY <1>1 DEF AfterExit, Killed
<1>4. failures' \in 0..2 /\ deaths' \in 0..2 /\ deaths' <= failures'
      /\ (deaths' = 2 => shown' = "error")
  BY <1>1 DEF IInv, TypeOK, FailuresCounted, UpTo2
<1>5. warm' \in [tuned: BOOLEAN, ready: BOOLEAN]  BY <1>1 DEF IInv, TypeOK
<1>6. TypeOK'  BY <1>1, <1>2, <1>3, <1>4, <1>5 DEF IInv, TypeOK, Timers
<1>7. NoOrphan'  BY <1>2 DEF AllTold, NoOrphan, Running
<1>8. Supervised' /\ AlwaysWatched' /\ CrashLoopShown' /\ HelperFitsConfig' /\ ChildReal' /\ FailuresCounted'
  BY <1>1, <1>3, <1>4
     DEF IInv, Supervised, AlwaysWatched, CrashLoopShown, HelperFitsConfig, ChildReal, FailuresCounted
<1> QED  BY <1>6, <1>7, <1>8 DEF IInv

LEMMA NodeKeeps == ASSUME IInv, NodeStep PROVE IInv'
<1>1. CASE NodeReady  BY <1>1, ReadyKeeps
<1>2. CASE NodeLine  BY <1>2, LineKeeps
<1>3. CASE NodeClose  BY <1>3, ExitKeeps DEF NodeClose, IInv, TypeOK
<1> QED  BY <1>1, <1>2, <1>3 DEF NodeStep

LEMMA RestartKeeps == ASSUME IInv, RestartFire PROVE IInv'
<1>1. /\ "restart" \in timers /\ child = None /\ state = "running" /\ config \in Configs
      /\ procs \in [Pids -> ProcType]
  BY DEF RestartFire, IInv, Supervised, TypeOK
<1>2. timers \ {"restart"} = {}  BY <1>1 DEF IInv, AlwaysWatched
<1>3. SpawnHelper(config, procs, {})  BY <1>2 DEF RestartFire
<1>4. AllTold(procs)  BY <1>1, PidAssumption DEF IInv, NoOrphan, Running, AllTold
<1>5. config' = config /\ state' = "running" /\ PlainTyped /\ deaths' <= failures'
  BY <1>1 DEF RestartFire, PlainTyped, IInv, TypeOK, FailuresCounted
<1> QED  BY <1>1, <1>3, <1>4, <1>5, SpawnKeeps

LEMMA SettleKeeps == ASSUME IInv, SettleFire PROVE IInv'
<1>1. /\ timers' = timers \ {"settle"} /\ warm' = [warm EXCEPT !.ready = TRUE]
      /\ UNCHANGED <<state, config, child, spawned, failures, reportReady, shown,
                     procs, faults, calls, deaths>>
  BY DEF SettleFire
<1>2. TypeOK'  BY <1>1 DEF IInv, TypeOK
<1>3. NoOrphan' /\ Supervised' /\ AlwaysWatched' /\ CrashLoopShown' /\ HelperFitsConfig'
      /\ ChildReal' /\ FailuresCounted'
  BY <1>1 DEF IInv, NoOrphan, Running, Supervised, AlwaysWatched, CrashLoopShown,
              HelperFitsConfig, ChildReal, FailuresCounted
<1> QED  BY <1>2, <1>3 DEF IInv

LEMMA ProvenKeeps == ASSUME IInv, ProvenFire PROVE IInv'
<1>1. /\ "proven" \in timers /\ timers' = timers \ {"proven"}
      /\ reportReady' = FALSE /\ shown' = "running"
      /\ UNCHANGED <<state, config, child, spawned, failures, warm, procs, faults, calls, deaths>>
  BY DEF ProvenFire
<1>2. child # None  BY <1>1 DEF IInv, AlwaysWatched
<1>3. TypeOK'  BY <1>1 DEF IInv, TypeOK
<1>4. NoOrphan' /\ Supervised' /\ AlwaysWatched' /\ CrashLoopShown' /\ HelperFitsConfig'
      /\ ChildReal' /\ FailuresCounted'
  BY <1>1, <1>2 DEF IInv, NoOrphan, Running, Supervised, AlwaysWatched, CrashLoopShown,
              HelperFitsConfig, ChildReal, FailuresCounted
<1> QED  BY <1>3, <1>4 DEF IInv

LEMMA TimerKeeps == ASSUME IInv, TimerStep PROVE IInv'
<1>1. CASE ReadyTimeout  BY <1>1, ExitKeeps DEF ReadyTimeout, IInv, TypeOK
<1>2. CASE SilenceTimeout  BY <1>2, ExitKeeps DEF SilenceTimeout, IInv, TypeOK
<1>3. CASE LateLines
  <2>1. faults' \in 0..MaxFaults  BY <1>3, BoundAssumption DEF LateLines, Fault, IInv, TypeOK
  <2> QED  BY <1>3, <2>1, ExitKeeps DEF LateLines
<1>4. CASE RestartFire  BY <1>4, RestartKeeps
<1>5. CASE SettleFire  BY <1>5, SettleKeeps
<1>6. CASE ProvenFire  BY <1>6, ProvenKeeps
<1> QED  BY <1>1, <1>2, <1>3, <1>4, <1>5, <1>6 DEF TimerStep

-----------------------------------------------------------------------------
(* The processes.                                                           *)

\* A process may change as long as it does not come to life or forget that it was
\* told to quit, and the child stays a process.
LEMMA ProcessKeeps ==
  ASSUME IInv, NEW p \in Pids, NEW r \in ProcType,
         procs' = [procs EXCEPT ![p] = r],
         UNCHANGED engineVars, UNCHANGED calls, faults' \in 0..MaxFaults,
         r.phase \in {"boot", "up", "stuck"} => Running(p) /\ r.quit = procs[p].quit,
         child = p => r.phase # "none",
         deaths' = 0 \/ (deaths' = deaths /\ (r.aged => procs[p].aged))
  PROVE  IInv'
<1>1. procs' \in [Pids -> ProcType] /\ procs'[p] = r
      /\ \A q \in Pids : q # p => procs'[q] = procs[q]
  BY DEF IInv, TypeOK
<1>2. UNCHANGED <<state, config, child, spawned, timers, failures, reportReady, warm, shown>>
  BY DEF engineVars
<1>3. TypeOK'  BY <1>1, <1>2 DEF IInv, TypeOK
<1>4. NoOrphan'
  <2> SUFFICES ASSUME NEW q \in Pids, Running(q)', ~procs'[q].quit PROVE child' = q
    BY DEF NoOrphan
  <2>1. CASE q = p  BY <1>1, <1>2, <2>1 DEF IInv, NoOrphan, Running
  <2>2. CASE q # p  BY <1>1, <1>2, <2>2 DEF IInv, NoOrphan, Running
  <2> QED  BY <2>1, <2>2
<1>5. Supervised' /\ AlwaysWatched' /\ CrashLoopShown' /\ HelperFitsConfig'
  BY <1>2 DEF IInv, Supervised, AlwaysWatched, CrashLoopShown, HelperFitsConfig
<1>6. ChildReal'  BY <1>1, <1>2, PidAssumption DEF IInv, ChildReal, TypeOK
<1>7. FailuresCounted'  BY <1>1, <1>2, PidAssumption DEF IInv, FailuresCounted, TypeOK
<1> QED  BY <1>3, <1>4, <1>5, <1>6, <1>7 DEF IInv

\* A process that ends is dead if it is the child, and gone if it is not.
LEMMA ExitsKeeps ==
  ASSUME IInv, NEW p \in Pids, Exits(p),
         UNCHANGED engineVars, UNCHANGED <<calls, deaths>>, faults' \in 0..MaxFaults
  PROVE  IInv'
<1>1. procs[p] \in ProcType  BY DEF IInv, TypeOK
<1>2. CASE child = p
  <2>1. [procs[p] EXCEPT !.phase = "dead"] \in ProcType  BY ZenonT(60), <1>1, ProcUpdate DEF Phases
  <2>2. procs' = [procs EXCEPT ![p] = [procs[p] EXCEPT !.phase = "dead"]]  BY <1>2 DEF Exits
  <2>3. [procs[p] EXCEPT !.phase = "dead"].phase = "dead"
        /\ [procs[p] EXCEPT !.phase = "dead"].aged = procs[p].aged
    BY <1>1 DEF ProcType
  <2> QED  BY <2>1, <2>2, <2>3, ProcessKeeps
<1>3. CASE child # p
  <2>1. procs' = [procs EXCEPT ![p] = Free]  BY <1>3 DEF Exits
  <2>2. Free \in ProcType /\ Free.phase = "none" /\ ~Free.aged  BY PhaseFacts DEF Free
  <2> QED  BY <1>3, <2>1, <2>2, ProcessKeeps
<1> QED  BY <1>2, <1>3

LEMMA ProcessStepKeeps == ASSUME IInv, ProcessStep PROVE IInv'
<1>0. PICK p \in Pids : Open(p) \/ OpenFails(p) \/ Crash(p) \/ Wedge(p) \/ Quits(p) \/ Ages(p)
  BY DEF ProcessStep
<1>1. procs[p] \in ProcType /\ faults \in 0..MaxFaults  BY DEF IInv, TypeOK
<1>2. CASE Open(p)
  <2> DEFINE r == [procs[p] EXCEPT !.phase = "up", !.ready = (child = p)]
  <2>1. (child = p) \in BOOLEAN  OBVIOUS
  <2>2. r \in ProcType  BY ZenonT(60), <1>1, <2>1, ProcUpdate DEF Phases
  <2>3. r.phase = "up" /\ r.quit = procs[p].quit /\ r.aged = procs[p].aged  BY <1>1 DEF ProcType
  <2>4. procs' = [procs EXCEPT ![p] = r]  BY <1>2 DEF Open
  <2>5. UNCHANGED engineVars /\ UNCHANGED <<faults, calls, deaths>> /\ Running(p)
    BY <1>2 DEF Open, Running
  <2> HIDE DEF r
  <2> QED  BY <1>1, <2>2, <2>3, <2>4, <2>5, ProcessKeeps
<1>3. CASE OpenFails(p)
  BY <1>1, <1>3, ExitsKeeps DEF OpenFails
<1>4. CASE Crash(p)
  <2>1. faults' \in 0..MaxFaults  BY <1>1, <1>4, BoundAssumption DEF Crash, Fault
  <2> QED  BY <1>4, <2>1, ExitsKeeps DEF Crash
<1>5. CASE Wedge(p)
  <2> DEFINE r == [procs[p] EXCEPT !.phase = "stuck"]
  <2>1. r \in ProcType  BY ZenonT(60), <1>1, ProcUpdate DEF Phases
  <2>2. r.phase = "stuck" /\ r.quit = procs[p].quit /\ r.aged = procs[p].aged  BY <1>1 DEF ProcType
  <2>3. procs' = [procs EXCEPT ![p] = r]  BY <1>5 DEF Wedge
  <2>4. UNCHANGED engineVars /\ UNCHANGED <<calls, deaths>> /\ Running(p)
    BY <1>5 DEF Wedge, Running
  <2>5. faults' \in 0..MaxFaults  BY <1>1, <1>5, BoundAssumption DEF Wedge, Fault
  <2> HIDE DEF r
  <2> QED  BY <2>1, <2>2, <2>3, <2>4, <2>5, ProcessKeeps
<1>6. CASE Quits(p)
  BY <1>1, <1>6, ExitsKeeps DEF Quits
<1>7. CASE Ages(p)
  <2> DEFINE r == [procs[p] EXCEPT !.aged = TRUE]
  <2>1. r \in ProcType  BY ZenonT(60), <1>1, ProcUpdate DEF Phases
  <2>2. r.phase = procs[p].phase /\ r.quit = procs[p].quit  BY <1>1 DEF ProcType
  <2>3. procs' = [procs EXCEPT ![p] = r]  BY <1>7 DEF Ages
  <2>4. UNCHANGED engineVars /\ UNCHANGED <<faults, calls>> /\ Running(p) /\ deaths' = 0
        /\ procs[p].phase # "none"
    BY <1>7 DEF Ages, Running
  <2> HIDE DEF r
  <2> QED  BY <1>1, <2>1, <2>2, <2>3, <2>4, ProcessKeeps
<1> QED  BY <1>0, <1>2, <1>3, <1>4, <1>5, <1>6, <1>7

-----------------------------------------------------------------------------
(* The invariant, and what follows from it.                                 *)

LEMMA InitHolds == ASSUME Init PROVE IInv
<1>1. \A p \in Pids : procs[p] = Free  BY DEF Init
<1>2. Free.phase = "none"  BY DEF Free
<1>3. TypeOK
  <2>1. Free \in ProcType  BY PhaseFacts, Zenon
  <2>2. procs \in [Pids -> ProcType]  BY <2>1 DEF Init
  <2>3. faults \in 0..MaxFaults /\ calls \in 0..MaxCalls  BY BoundAssumption DEF Init
  <2>4. warm \in [tuned: BOOLEAN, ready: BOOLEAN]  BY DEF Init
  <2>5. timers \subseteq Timers /\ reportReady \in BOOLEAN  BY DEF Init
  <2>6. failures \in 0..2 /\ deaths \in 0..2  BY DEF Init
  <2>7. /\ state \in {"stopped", "running"} /\ config \in Configs
        /\ child \in Pids \cup {None} /\ spawned \in Configs \cup {None}
        /\ shown \in {"stopped", "running", "retuning", "error"}
    BY DEF Init
  <2> QED  BY <2>2, <2>3, <2>4, <2>5, <2>6, <2>7 DEF TypeOK
<1>4. NoOrphan  BY <1>1, <1>2 DEF NoOrphan, Running
<1>5. Supervised /\ AlwaysWatched /\ CrashLoopShown /\ HelperFitsConfig /\ ChildReal /\ FailuresCounted
  BY DEF Init, Supervised, AlwaysWatched, CrashLoopShown, HelperFitsConfig, ChildReal, FailuresCounted
<1> QED  BY <1>3, <1>4, <1>5 DEF IInv

LEMMA StutterKeeps == ASSUME IInv, UNCHANGED vars PROVE IInv'
<1>1. UNCHANGED <<state, config, child, spawned, timers, failures, reportReady, warm, shown,
                  procs, faults, calls, deaths>>
  BY DEF vars
<1> QED
  BY <1>1 DEF IInv, TypeOK, NoOrphan, Running, Supervised, AlwaysWatched, CrashLoopShown,
              HelperFitsConfig, ChildReal, FailuresCounted

LEMMA NextKeeps == ASSUME IInv, [Next]_vars PROVE IInv'
<1>1. CASE Call  BY <1>1, CallKeeps
<1>2. CASE NodeStep  BY <1>2, NodeKeeps
<1>3. CASE TimerStep  BY <1>3, TimerKeeps
<1>4. CASE ProcessStep  BY <1>4, ProcessStepKeeps
<1>5. CASE UNCHANGED vars  BY <1>5, StutterKeeps
<1> QED  BY <1>1, <1>2, <1>3, <1>4, <1>5 DEF Next

LEMMA Inductive == Spec => []IInv
<1>1. Init => IInv  BY InitHolds
<1>2. IInv /\ [Next]_vars => IInv'  BY NextKeeps
<1> QED  BY <1>1, <1>2, PTL DEF Spec

\* The engine and its processes keep their types, however calls, crashes and timers
\* interleave (WidebandEngine.ts, main.cpp run_live).
THEOREM SupervisorTypes == Spec => []TypeOK
<1>1. IInv => TypeOK  BY DEF IInv
<1> QED  BY <1>1, Inductive, PTL

\* killChild() and the stale guards leave no helper behind: a live process that was not
\* told to quit is the child.
THEOREM NobodyOrphaned == Spec => []NoOrphan
<1>1. IInv => NoOrphan  BY DEF IInv
<1> QED  BY <1>1, Inductive, PTL

\* A running engine with something to scan has a helper or a restart under way.
THEOREM EngineSupervised == Spec => []Supervised
<1>1. IInv => Supervised  BY DEF IInv
<1> QED  BY <1>1, Inductive, PTL

\* Exactly one watchdog is on a helper from spawn to end, and none on a past one.
THEOREM HelperWatched == Spec => []AlwaysWatched
<1>1. IInv => AlwaysWatched  BY DEF IInv
<1> QED  BY <1>1, Inductive, PTL

\* The helper was spawned for the source and the shape of the present configuration.
THEOREM HelperFits == Spec => []HelperFitsConfig
<1>1. IInv => HelperFitsConfig  BY DEF IInv
<1> QED  BY <1>1, Inductive, PTL

\* Two deaths with no healthy helper between them are shown as an error.
THEOREM CrashLoopReported == Spec => []CrashLoopShown
<1>1. IInv => CrashLoopShown  BY DEF IInv
<1> QED  BY <1>1, Inductive, PTL

\* One helper or one on its way, watched, the one that is wanted, and none left behind.
THEOREM HelperTheorem == Spec => []HelperSound
<1>1. IInv => HelperSound  BY DEF IInv, HelperSound
<1> QED  BY <1>1, Inductive, PTL

\* Between two calls, only a helper that said ready clears the report of an exit.
THEOREM ErrorLifted == Spec => ErrorLiftedByHelper
<1> DEFINE Lift == shown' = "running" /\ shown \in {"retuning", "error"}
                     => calls' # calls \/ (child # None /\ "ready" \notin timers)
<1>1. IInv /\ [Next]_vars => [Lift]_vars
  <2> SUFFICES ASSUME IInv, Next, shown' = "running", shown \in {"retuning", "error"}
               PROVE  calls' # calls \/ (child # None /\ "ready" \notin timers)
    BY DEF vars
  <2>1. CASE Call
    <3>1. calls \in Nat /\ calls' = calls - 1  BY <2>1, BoundAssumption DEF Call, IInv, TypeOK
    <3> QED  BY <3>1
  <2>2. CASE NodeStep
    <3>1. shown' = shown \/ UnexpectedExit  BY <2>2 DEF NodeStep, NodeReady, NodeLine, NodeClose
    <3> QED  BY <3>1 DEF UnexpectedExit
  <2>3. CASE ProvenFire
    BY <2>3 DEF ProvenFire, IInv, ChildReal, AlwaysWatched
  <2>4. CASE TimerStep /\ ~ProvenFire
    <3>1. shown' = shown \/ UnexpectedExit
      BY <2>4 DEF TimerStep, ReadyTimeout, SilenceTimeout, LateLines, RestartFire, SettleFire
    <3> QED  BY <3>1 DEF UnexpectedExit
  <2>5. CASE ProcessStep
    <3>1. UNCHANGED engineVars
      BY <2>5 DEF ProcessStep, Open, OpenFails, Crash, Wedge, Quits, Ages
    <3> QED  BY <3>1 DEF engineVars
  <2> QED  BY <2>1, <2>2, <2>3, <2>4, <2>5 DEF Next
<1> QED  BY <1>1, Inductive, PTL DEF Spec, ErrorLiftedByHelper


-----------------------------------------------------------------------------
(***************************************************************************)
(* Proofs about the history of what the helper's channels did, for any     *)
(* number of transmissions, any retention and any mishaps.  The invariant  *)
(* adds what a reading relies on: the pipe's lines follow the opening they *)
(* belong to, and the row they are for is the one that opened or closed    *)
(* last, unless the engine took that opening for stale.                    *)
(***************************************************************************)

RowFields == {"id", "kind", "ts", "dur", "tx", "rf", "run"}
TableFields == {"rows", "next", "open", "last", "alerted", "run"}
LaneFields == {"tuned", "open", "tx", "pipe", "told"}

RowRight(r, t) ==
  /\ DOMAIN r = RowFields /\ r.id \in Nat /\ 0 < r.id /\ r.id < t.next
  /\ r.ts \in Nat /\ r.ts <= ts /\ r.run \in Nat /\ r.run <= t.run
  /\ r.dur \in Int /\ (r.dur # Unknown => r.dur >= 0 /\ r.ts + r.dur <= ts)

TableTyped(t) ==
  /\ DOMAIN t = TableFields /\ {t.next, t.run, t.open, t.last} \subseteq Nat
  /\ t.open < t.next /\ t.last < t.next /\ \A r \in t.rows : RowRight(r, t)

\* An opening is over when the next begins; one without an end is the one that is open, and the last.
AirtimeOf(t) ==
  /\ \A r, q \in t.rows : /\ r.kind = "active" /\ q.kind = "active"
                          => /\ r.dur # Unknown /\ q.id > r.id => r.ts + r.dur <= q.ts
                             /\ r.id = t.open => q.id <= r.id
  /\ \A r \in t.rows : r.kind = "active" /\ r.dur = Unknown => r.id = t.open \/ r.run < t.run

ReadingsOf(t, stale) == \A r \in t.rows : r.rf # 0 => r.rf = r.tx \/ r.rf \in stale

TableRight(t, stale) == TableTyped(t) /\ AirtimeOf(t) /\ ReadingsOf(t, stale)

\* The row a reading goes to, and that it is the transmission's, or that has none.
RowOf(t) == IF t.open # NoRow THEN t.open ELSE t.last
IsFor(tx, t, stale) == tx \in stale \/ \A r \in t.rows : r.id = RowOf(t) => r.tx = tx

\* What is in the pipe follows its opening; what is read next, and what is to come, is of the last one.
Lines == [what : {"open", "rf", "close"}, tx : Nat]
PipeFollows(h, t, stale) ==
  /\ DOMAIN h = LaneFields /\ h.open \in BOOLEAN /\ h.pipe \in Seq(Lines) /\ h.tx \in Nat
  /\ \A i \in 1 .. Len(h.pipe) - 1 : h.pipe[i + 1].what # "open" => h.pipe[i + 1].tx = h.pipe[i].tx
  /\ h.pipe # << >> /\ h.pipe[1].what # "open" => IsFor(h.pipe[1].tx, t, stale)
  /\ h.open => IF h.pipe = << >> THEN IsFor(h.tx, t, stale) ELSE h.pipe[Len(h.pipe)].tx = h.tx

HistoryInv ==
  /\ ts \in Nat /\ DOMAIN engine = {"inGroup", "open", "stale"}
  /\ TableRight(table, engine.stale) /\ PipeFollows(helper, table, engine.stale)

-----------------------------------------------------------------------------
(* The store's operators. *)

SameRow(x, r) ==
  /\ DOMAIN x = RowFields /\ x.id = r.id /\ x.kind = r.kind /\ x.ts = r.ts /\ x.tx = r.tx /\ x.run = r.run

\* EndedAt(): the row that is open ends now.
LEMMA RowEnds ==
  ASSUME NEW rows, NEW id, NEW x \in EndedAt(rows, id), \A r \in rows : DOMAIN r = RowFields /\ r.ts \in Nat /\ r.ts <= ts,
         ts \in Nat
  PROVE  \E r \in rows : /\ SameRow(x, r) /\ x.rf = r.rf
                         /\ IF r.id = id /\ r.dur = Unknown THEN x.dur = ts - r.ts ELSE x.dur = r.dur
<1>1. PICK r \in rows :
         x = IF r.id = id /\ r.dur = Unknown THEN [r EXCEPT !.dur = IF ts > r.ts THEN ts - r.ts ELSE 0] ELSE r
  BY DEF EndedAt
<1>2. DOMAIN r = RowFields /\ r.ts \in Nat /\ r.ts <= ts
  OBVIOUS
<1>3. CASE r.id = id /\ r.dur = Unknown
  <2>1. x = [r EXCEPT !.dur = IF ts > r.ts THEN ts - r.ts ELSE 0]
    BY <1>1, <1>3
  <2>2. SameRow(x, r) /\ x.rf = r.rf /\ x.dur = IF ts > r.ts THEN ts - r.ts ELSE 0
    BY <1>2, <2>1 DEF SameRow, RowFields
  <2>3. x.dur = ts - r.ts
    BY <1>2, <2>2
  <2> QED BY <1>3, <2>2, <2>3
<1>4. CASE ~(r.id = id /\ r.dur = Unknown)
  BY <1>1, <1>2, <1>4 DEF SameRow
<1> QED BY <1>3, <1>4

\* Inserted(): one row more, the newest.
LEMMA RowInserted ==
  ASSUME NEW t, TableTyped(t), NEW kind, NEW tx, ts \in Nat
  PROVE  LET q == Inserted(t, kind, tx)
         IN  \E n : /\ n.id = t.next /\ n.kind = kind /\ n.ts = ts /\ n.dur = Unknown /\ n.tx = tx /\ n.rf = 0 /\ n.run = t.run
                    /\ DOMAIN n = RowFields /\ DOMAIN q = TableFields /\ q.rows = t.rows \cup {n} /\ q.next = t.next + 1
                    /\ q.open = t.open /\ q.last = t.last /\ q.run = t.run
<1>1. PICK n : n = [id |-> t.next, kind |-> kind, ts |-> ts, dur |-> Unknown, tx |-> tx, rf |-> 0, run |-> t.run]
  OBVIOUS
<1>2. Inserted(t, kind, tx) = [t EXCEPT !.next = @ + 1, !.rows = @ \union {n}]
  BY <1>1 DEF Inserted
<1>3. /\ n.id = t.next /\ n.kind = kind /\ n.ts = ts /\ n.dur = Unknown /\ n.tx = tx /\ n.rf = 0 /\ n.run = t.run
      /\ DOMAIN n = RowFields
  BY <1>1 DEF RowFields
<1> QED BY <1>2, <1>3 DEF TableTyped, TableFields

\* An alert or a find is no opening.
LEMMA OtherKind ==
  ASSUME NEW t, NEW stale, TableRight(t, stale), NEW kind, kind # "active", NEW tx, ts \in Nat
  PROVE  LET q == Inserted(t, kind, tx)
         IN  TableRight(q, stale) /\ \A k : IsFor(k, t, stale) => IsFor(k, q, stale)
<1> DEFINE q == Inserted(t, kind, tx)
<1>1. PICK n : /\ n.id = t.next /\ n.kind = kind /\ n.ts = ts /\ n.dur = Unknown /\ n.tx = tx /\ n.rf = 0 /\ n.run = t.run
               /\ DOMAIN n = RowFields /\ DOMAIN q = TableFields /\ q.rows = t.rows \cup {n} /\ q.next = t.next + 1
               /\ q.open = t.open /\ q.last = t.last /\ q.run = t.run
  BY RowInserted DEF TableRight
<1> HIDE DEF q
<1>2. TableTyped(q)
  BY <1>1 DEF TableRight, TableTyped, RowRight, Unknown
<1>3. AirtimeOf(q)
  BY <1>1 DEF TableRight, AirtimeOf
<1>4. ReadingsOf(q, stale)
  BY <1>1 DEF TableRight, ReadingsOf
<1>5. RowOf(q) = RowOf(t) /\ RowOf(t) # n.id
  BY <1>1 DEF RowOf, TableRight, TableTyped
<1>6. \A k : IsFor(k, t, stale) => IsFor(k, q, stale)
  BY <1>1, <1>5 DEF IsFor
<1> QED BY <1>2, <1>3, <1>4, <1>6 DEF TableRight, q

\* Alerted().
LEMMA AlertRow ==
  ASSUME NEW t, NEW stale, TableRight(t, stale), NEW tx, ts \in Nat
  PROVE  LET q == Alerted(t, tx)
         IN  TableRight(q, stale) /\ \A k : IsFor(k, t, stale) => IsFor(k, q, stale)
<1> DEFINE a == Inserted(t, "alert", tx)
<1> DEFINE q == [a EXCEPT !.alerted = ts]
<1>1. TableRight(a, stale) /\ \A k : IsFor(k, t, stale) => IsFor(k, a, stale)
  BY OtherKind
<1> HIDE DEF a
<1>2. /\ DOMAIN q = TableFields /\ q.rows = a.rows /\ q.next = a.next /\ q.open = a.open /\ q.last = a.last
      /\ q.run = a.run
  BY <1>1 DEF TableRight, TableTyped, TableFields
<1> HIDE DEF q
<1>3. TableRight(q, stale)
  BY <1>1, <1>2 DEF TableRight, TableTyped, RowRight, AirtimeOf, ReadingsOf
<1>4. \A k : IsFor(k, a, stale) => IsFor(k, q, stale)
  BY <1>2 DEF IsFor, RowOf
<1> QED BY <1>1, <1>3, <1>4 DEF Alerted, q, a

\* record(): an opening ends the one still open.
LEMMA Records ==
  ASSUME NEW t, NEW stale, TableRight(t, stale), NEW tx, ts \in Nat
  PROVE  LET q == RecordActive(t, tx) IN TableRight(q, stale) /\ IsFor(tx, q, stale)
<1> DEFINE a == Inserted(t, "active", tx)
<1> DEFINE rows == IF t.open = NoRow THEN a.rows ELSE EndedAt(a.rows, t.open)
<1> DEFINE q == [a EXCEPT !.rows = rows, !.open = t.next]
<1>1. PICK n : /\ n.id = t.next /\ n.kind = "active" /\ n.ts = ts /\ n.dur = Unknown /\ n.tx = tx /\ n.rf = 0 /\ n.run = t.run
               /\ DOMAIN n = RowFields /\ DOMAIN a = TableFields /\ a.rows = t.rows \cup {n} /\ a.next = t.next + 1
               /\ a.open = t.open /\ a.last = t.last /\ a.run = t.run
  BY RowInserted DEF TableRight
<1>2. RecordActive(t, tx) = q
  BY DEF RecordActive
<1> HIDE DEF a
<1>3. /\ DOMAIN q = TableFields /\ q.rows = rows /\ q.next = t.next + 1 /\ q.open = t.next /\ q.last = t.last /\ q.run = t.run
  BY <1>1 DEF TableFields
<1>4. \A r \in a.rows : DOMAIN r = RowFields /\ r.ts \in Nat /\ r.ts <= ts
  BY <1>1 DEF TableRight, TableTyped, RowRight
<1>5. /\ {t.next, t.run, t.open, t.last} \subseteq Nat /\ t.open < t.next /\ t.last < t.next
      /\ \A r \in t.rows : RowRight(r, t)
  BY DEF TableRight, TableTyped
<1>6. ASSUME NEW x \in rows
      PROVE  \E r \in a.rows : /\ SameRow(x, r) /\ x.rf = r.rf
                               /\ IF t.open # NoRow /\ r.id = t.open /\ r.dur = Unknown THEN x.dur = ts - r.ts ELSE x.dur = r.dur
  <2>1. CASE t.open = NoRow
    BY <1>4, <2>1 DEF SameRow
  <2>2. CASE t.open # NoRow
    <3>1. x \in EndedAt(a.rows, t.open)
      BY <2>2
    <3> QED BY <1>4, <2>2, <3>1, RowEnds
  <2> QED BY <2>1, <2>2
<1> HIDE DEF rows, q
<1>7. ASSUME NEW x \in rows
      PROVE  \/ /\ x.id = t.next /\ x.kind = "active" /\ x.ts = ts /\ x.dur = Unknown /\ x.tx = tx /\ x.rf = 0 /\ x.run = t.run
                /\ DOMAIN x = RowFields
             \/ \E r \in t.rows : /\ SameRow(x, r) /\ x.rf = r.rf
                                  /\ IF r.id = t.open /\ r.dur = Unknown THEN x.dur = ts - r.ts ELSE x.dur = r.dur
  <2>1. PICK r \in a.rows : /\ SameRow(x, r) /\ x.rf = r.rf
                            /\ IF t.open # NoRow /\ r.id = t.open /\ r.dur = Unknown THEN x.dur = ts - r.ts ELSE x.dur = r.dur
    BY <1>6
  <2>2. CASE r = n
    BY <1>1, <1>5, <2>1, <2>2 DEF SameRow
  <2>3. CASE r \in t.rows
    <3>1. r.id # NoRow
      BY <1>5, <2>3 DEF RowRight, NoRow
    <3> QED BY <2>1, <2>3, <3>1
  <2> QED BY <1>1, <2>2, <2>3
<1>8. TableTyped(q)
  <2>1. ASSUME NEW x \in rows PROVE RowRight(x, q)
    <3>1. CASE /\ x.id = t.next /\ x.kind = "active" /\ x.ts = ts /\ x.dur = Unknown /\ x.tx = tx /\ x.rf = 0 /\ x.run = t.run
               /\ DOMAIN x = RowFields
      BY <1>3, <1>5, <3>1 DEF RowRight, Unknown
    <3>2. ASSUME NEW r \in t.rows, SameRow(x, r), x.rf = r.rf,
                 IF r.id = t.open /\ r.dur = Unknown THEN x.dur = ts - r.ts ELSE x.dur = r.dur
          PROVE  RowRight(x, q)
      BY <1>3, <1>5, <3>2 DEF RowRight, SameRow, Unknown
    <3> QED BY <1>7, <3>1, <3>2
  <2> QED BY <1>3, <1>5, <2>1 DEF TableTyped
<1>9. AirtimeOf(q)
  <2> DEFINE Newest(x) == x.id = t.next /\ x.kind = "active" /\ x.ts = ts /\ x.dur = Unknown /\ x.run = t.run
  <2> DEFINE Of(x, r) == /\ x.id = r.id /\ x.kind = r.kind /\ x.ts = r.ts /\ x.run = r.run
                         /\ IF r.id = t.open /\ r.dur = Unknown THEN x.dur = ts - r.ts ELSE x.dur = r.dur
  <2>1. \A x \in rows : Newest(x) \/ \E r \in t.rows : Of(x, r)
    BY <1>7 DEF SameRow
  <2>2. /\ \A r, p \in t.rows : /\ r.kind = "active" /\ p.kind = "active"
                          => /\ r.dur # Unknown /\ p.id > r.id => r.ts + r.dur <= p.ts
                             /\ r.id = t.open => p.id <= r.id
        /\ \A r \in t.rows : r.kind = "active" /\ r.dur = Unknown => r.id = t.open \/ r.run < t.run
    BY DEF TableRight, AirtimeOf
  <2>3. \A r \in t.rows : /\ r.id \in Nat /\ r.id < t.next /\ r.ts \in Nat /\ r.ts <= ts /\ r.dur \in Int
                          /\ r.dur # Unknown => r.ts + r.dur <= ts
    BY <1>5 DEF RowRight
  <2>4. ASSUME NEW x \in rows, NEW y \in rows, x.kind = "active", y.kind = "active"
        PROVE  /\ x.dur # Unknown /\ y.id > x.id => x.ts + x.dur <= y.ts
               /\ x.id = q.open => y.id <= x.id
    <3>1. CASE Newest(x)
      <4>1. y.id <= t.next
        BY <1>5, <2>1, <2>3
      <4> QED BY <1>3, <3>1, <4>1
    <3>2. ASSUME NEW r \in t.rows, Of(x, r)
          PROVE  /\ x.dur # Unknown /\ y.id > x.id => x.ts + x.dur <= y.ts
                 /\ x.id = q.open => y.id <= x.id
      <4>1. x.id # q.open
        BY <1>3, <1>5, <2>3, <3>2
      <4>2. CASE Newest(y)
        BY <2>3, <3>2, <4>1, <4>2
      <4>3. ASSUME NEW p \in t.rows, Of(y, p) PROVE x.dur # Unknown /\ y.id > x.id => x.ts + x.dur <= y.ts
        <5>1. CASE r.id = t.open /\ r.dur = Unknown
          BY <2>2, <2>3, <2>4, <3>2, <4>3, <5>1
        <5>2. CASE ~(r.id = t.open /\ r.dur = Unknown)
          BY <2>2, <2>3, <2>4, <3>2, <4>3, <5>2
        <5> QED BY <5>1, <5>2
      <4> QED BY <2>1, <4>1, <4>2, <4>3
    <3> QED BY <2>1, <3>1, <3>2
  <2>5. ASSUME NEW x \in rows, x.kind = "active", x.dur = Unknown PROVE x.id = q.open \/ x.run < q.run
    <3>1. CASE Newest(x)
      BY <1>3, <3>1
    <3>2. ASSUME NEW r \in t.rows, Of(x, r) PROVE x.run < q.run
      BY <1>3, <2>2, <2>3, <2>5, <3>2 DEF Unknown
    <3> QED BY <2>1, <3>1, <3>2
  <2> QED BY <1>3, <2>4, <2>5 DEF AirtimeOf
<1>10. ReadingsOf(q, stale)
  <2>1. \A x \in rows : x.rf = 0 \/ \E r \in t.rows : x.rf = r.rf /\ x.tx = r.tx
    BY <1>7 DEF SameRow
  <2> QED BY <1>3, <2>1 DEF TableRight, ReadingsOf
<1>11. IsFor(tx, q, stale)
  <2>1. RowOf(q) = t.next
    BY <1>3, <1>5 DEF RowOf, NoRow
  <2>2. \A x \in rows : x.id = t.next => x.tx = tx
    BY <1>5, <1>7 DEF SameRow, RowRight
  <2> QED BY <1>3, <2>1, <2>2 DEF IsFor
<1> QED BY <1>2, <1>8, <1>9, <1>10, <1>11 DEF TableRight

\* release(): the reading still goes to the row that closed.
LEMMA Releases ==
  ASSUME NEW t, NEW stale, TableRight(t, stale), ts \in Nat
  PROVE  LET q == Release(t) IN TableRight(q, stale) /\ \A k : IsFor(k, t, stale) => IsFor(k, q, stale)
<1> DEFINE rows == EndedAt(t.rows, t.open)
<1> DEFINE q == [t EXCEPT !.rows = rows, !.last = t.open, !.open = NoRow]
<1>1. CASE t.open = NoRow
  BY <1>1 DEF Release
<1>2. CASE t.open # NoRow
  <2>1. Release(t) = q
    BY <1>2 DEF Release
  <2>2. DOMAIN q = TableFields /\ q.rows = rows /\ q.next = t.next /\ q.open = NoRow /\ q.last = t.open /\ q.run = t.run
    BY DEF TableRight, TableTyped, TableFields
  <2>3. \A r \in t.rows : DOMAIN r = RowFields /\ r.ts \in Nat /\ r.ts <= ts
    BY DEF TableRight, TableTyped, RowRight
  <2>4. ASSUME NEW x \in rows
        PROVE  \E r \in t.rows : /\ SameRow(x, r) /\ x.rf = r.rf
                                 /\ IF r.id = t.open /\ r.dur = Unknown THEN x.dur = ts - r.ts ELSE x.dur = r.dur
    BY <2>3, RowEnds
  <2> HIDE DEF rows, q
  <2>5. /\ {t.next, t.run, t.open, t.last} \subseteq Nat /\ t.open < t.next /\ t.last < t.next
        /\ \A r \in t.rows : RowRight(r, t)
    BY DEF TableRight, TableTyped
  <2>6. TableTyped(q)
    <3>1. ASSUME NEW x \in rows PROVE RowRight(x, q)
      <4>1. PICK r \in t.rows : /\ SameRow(x, r) /\ x.rf = r.rf
                                /\ IF r.id = t.open /\ r.dur = Unknown THEN x.dur = ts - r.ts ELSE x.dur = r.dur
        BY <2>4
      <4> QED BY <2>2, <2>5, <4>1 DEF RowRight, SameRow, Unknown
    <3> QED BY <1>2, <2>2, <2>5, <3>1 DEF TableTyped, NoRow
  <2>7. AirtimeOf(q)
    <3> DEFINE Of(x, r) == /\ x.id = r.id /\ x.kind = r.kind /\ x.ts = r.ts /\ x.run = r.run
                           /\ IF r.id = t.open /\ r.dur = Unknown THEN x.dur = ts - r.ts ELSE x.dur = r.dur
    <3>1. \A x \in rows : \E r \in t.rows : Of(x, r)
      BY <2>4 DEF SameRow
    <3>2. /\ \A r, p \in t.rows : /\ r.kind = "active" /\ p.kind = "active"
                            => /\ r.dur # Unknown /\ p.id > r.id => r.ts + r.dur <= p.ts
                               /\ r.id = t.open => p.id <= r.id
          /\ \A r \in t.rows : r.kind = "active" /\ r.dur = Unknown => r.id = t.open \/ r.run < t.run
      BY DEF TableRight, AirtimeOf
    <3>3. \A r \in t.rows : /\ r.id \in Nat /\ r.id > 0 /\ r.id < t.next /\ r.ts \in Nat /\ r.ts <= ts /\ r.dur \in Int
                            /\ r.dur # Unknown => r.ts + r.dur <= ts
      BY <2>5 DEF RowRight
    <3>4. ASSUME NEW x \in rows, NEW y \in rows, x.kind = "active", y.kind = "active"
          PROVE  /\ x.dur # Unknown /\ y.id > x.id => x.ts + x.dur <= y.ts
                 /\ x.id = q.open => y.id <= x.id
      <4>1. PICK r \in t.rows : Of(x, r)
        BY <3>1
      <4>2. PICK p \in t.rows : Of(y, p)
        BY <3>1
      <4>3. CASE r.id = t.open /\ r.dur = Unknown
        BY <2>2, <3>2, <3>3, <3>4, <4>1, <4>2, <4>3 DEF NoRow
      <4>4. CASE ~(r.id = t.open /\ r.dur = Unknown)
        BY <2>2, <3>2, <3>3, <3>4, <4>1, <4>2, <4>4 DEF NoRow
      <4> QED BY <4>3, <4>4
    <3>5. ASSUME NEW x \in rows, x.kind = "active", x.dur = Unknown PROVE x.id = q.open \/ x.run < q.run
      <4>1. PICK r \in t.rows : Of(x, r)
        BY <3>1
      <4> QED BY <2>2, <3>2, <3>3, <3>5, <4>1 DEF Unknown
    <3> QED BY <2>2, <3>4, <3>5 DEF AirtimeOf
  <2>8. ReadingsOf(q, stale)
    BY <2>2, <2>4 DEF TableRight, ReadingsOf, SameRow
  <2>9. RowOf(q) = RowOf(t)
    BY <1>2, <2>2 DEF RowOf
  <2>10. \A k : IsFor(k, t, stale) => IsFor(k, q, stale)
    BY <2>2, <2>4, <2>9 DEF IsFor, SameRow
  <2> QED BY <2>1, <2>6, <2>7, <2>8, <2>10 DEF TableRight
<1> QED BY <1>1, <1>2

\* setRf(): a reading of the transmission the row is for.
LEMMA ReadingSet ==
  ASSUME NEW t, NEW stale, TableRight(t, stale), NEW tx, IsFor(tx, t, stale), ts \in Nat
  PROVE  LET q == SetRf(t, tx) IN TableRight(q, stale) /\ IsFor(tx, q, stale)
<1> DEFINE rows == {IF r.id = RowOf(t) THEN [r EXCEPT !.rf = tx] ELSE r : r \in t.rows}
<1> DEFINE q == [t EXCEPT !.rows = rows]
<1>1. SetRf(t, tx) = q
  BY DEF SetRf, RowOf
<1>2. /\ DOMAIN q = TableFields /\ q.rows = rows /\ q.next = t.next /\ q.open = t.open /\ q.last = t.last /\ q.run = t.run
  BY DEF TableRight, TableTyped, TableFields
<1>3. ASSUME NEW x \in rows
      PROVE  \E r \in t.rows : SameRow(x, r) /\ x.dur = r.dur /\ (x.rf = r.rf \/ (r.id = RowOf(t) /\ x.rf = tx))
  <2>1. PICK r \in t.rows : x = IF r.id = RowOf(t) THEN [r EXCEPT !.rf = tx] ELSE r
    OBVIOUS
  <2>2. DOMAIN r = RowFields
    BY DEF TableRight, TableTyped, RowRight
  <2>3. CASE r.id = RowOf(t)
    <3>1. x = [r EXCEPT !.rf = tx]
      BY <2>1, <2>3
    <3> QED BY <2>2, <2>3, <3>1 DEF SameRow, RowFields
  <2>4. CASE r.id # RowOf(t)
    BY <2>1, <2>2, <2>4 DEF SameRow
  <2> QED BY <2>3, <2>4
<1> HIDE DEF rows, q
<1>4. TableTyped(q)
  BY <1>2, <1>3 DEF TableRight, TableTyped, RowRight, SameRow
<1>5. AirtimeOf(q)
  <2>1. \A x \in rows : \E r \in t.rows : x.id = r.id /\ x.kind = r.kind /\ x.ts = r.ts /\ x.run = r.run /\ x.dur = r.dur
    BY <1>3 DEF SameRow
  <2> QED BY <1>2, <2>1 DEF TableRight, AirtimeOf
<1>6. ReadingsOf(q, stale)
  BY <1>2, <1>3 DEF TableRight, ReadingsOf, SameRow, IsFor
<1>7. IsFor(tx, q, stale)
  <2>1. RowOf(q) = RowOf(t)
    BY <1>2 DEF RowOf
  <2> QED BY <1>2, <1>3, <2>1 DEF IsFor, SameRow
<1> QED BY <1>1, <1>4, <1>5, <1>6, <1>7 DEF TableRight

\* Rows that are pruned or dismissed leave the others right; so does a row the engine took for stale.
LEMMA RowsGone ==
  ASSUME NEW t, NEW stale, TableRight(t, stale), NEW rows \in SUBSET t.rows
  PROVE  LET q == [t EXCEPT !.rows = rows] IN TableRight(q, stale) /\ \A k : IsFor(k, t, stale) => IsFor(k, q, stale)
<1> DEFINE q == [t EXCEPT !.rows = rows]
<1>1. /\ DOMAIN q = TableFields /\ q.rows = rows /\ q.next = t.next /\ q.open = t.open /\ q.last = t.last /\ q.run = t.run
  BY DEF TableRight, TableTyped, TableFields
<1> HIDE DEF q
<1>2. TableTyped(q)
  BY <1>1 DEF TableRight, TableTyped, RowRight
<1>3. AirtimeOf(q)
  BY <1>1 DEF TableRight, AirtimeOf
<1>4. ReadingsOf(q, stale)
  BY <1>1 DEF TableRight, ReadingsOf
<1>5. \A k : IsFor(k, t, stale) => IsFor(k, q, stale)
  BY <1>1 DEF IsFor, RowOf
<1> QED BY <1>2, <1>3, <1>4, <1>5 DEF TableRight, q

LEMMA StaleGrows ==
  ASSUME NEW t, NEW stale, TableRight(t, stale), NEW tx
  PROVE  TableRight(t, stale \cup {tx}) /\ IsFor(tx, t, stale \cup {tx})
BY DEF TableRight, ReadingsOf, IsFor

\* A service that starts has forgotten what was open.
LEMMA ServiceStarts ==
  ASSUME NEW t, NEW stale, TableRight(t, stale), NEW rows \in SUBSET t.rows
  PROVE  TableRight([t EXCEPT !.rows = rows, !.open = NoRow, !.last = NoRow, !.alerted = 0, !.run = @ + 1], stale)
<1> DEFINE q == [t EXCEPT !.rows = rows, !.open = NoRow, !.last = NoRow, !.alerted = 0, !.run = @ + 1]
<1>1. DOMAIN q = TableFields /\ q.rows = rows /\ q.next = t.next /\ q.open = 0 /\ q.last = 0 /\ q.run = t.run + 1
  BY DEF TableRight, TableTyped, TableFields, NoRow
<1> HIDE DEF q
<1>2. /\ {t.next, t.run, t.open, t.last} \subseteq Nat /\ t.open < t.next /\ \A r \in t.rows : RowRight(r, t)
  BY DEF TableRight, TableTyped
<1>3. TableTyped(q)
  BY <1>1, <1>2 DEF TableTyped, RowRight
<1>4. AirtimeOf(q)
  BY <1>1, <1>2 DEF TableRight, AirtimeOf, RowRight
<1>5. ReadingsOf(q, stale)
  BY <1>1 DEF TableRight, ReadingsOf
<1> QED BY <1>3, <1>4, <1>5 DEF TableRight, q


-----------------------------------------------------------------------------
(* The pipe. *)

\* A line more, of the transmission under way or of a new one.
LEMMA LineFollows ==
  ASSUME NEW h, NEW t, NEW stale, PipeFollows(h, t, stale), NEW n \in Lines, n.what = "open" \/ (h.open /\ n.tx = h.tx),
         NEW g, DOMAIN g = LaneFields, g.pipe = Append(h.pipe, n), g.open \in BOOLEAN, g.tx \in Nat, g.open => g.tx = n.tx
  PROVE  PipeFollows(g, t, stale)
<1> DEFINE p == h.pipe
<1>1. p \in Seq(Lines)
  BY DEF PipeFollows
<1>2. /\ g.pipe \in Seq(Lines) /\ Len(g.pipe) = Len(p) + 1 /\ g.pipe[Len(p) + 1] = n /\ g.pipe # << >>
      /\ \A i \in 1 .. Len(p) : g.pipe[i] = p[i]
  BY SMTT(60), <1>1
<1>3. ASSUME NEW i \in 1 .. Len(g.pipe) - 1, g.pipe[i + 1].what # "open" PROVE g.pipe[i + 1].tx = g.pipe[i].tx
  <2>1. CASE i = Len(p)
    <3>1. p # << >> /\ g.pipe[i] = p[Len(p)] /\ n.what # "open"
      BY <1>1, <1>2, <1>3, <2>1
    <3> QED BY <1>2, <2>1, <3>1 DEF PipeFollows
  <2>2. CASE i # Len(p)
    <3>1. i \in 1 .. Len(p) - 1 /\ i + 1 \in 1 .. Len(p) /\ i \in 1 .. Len(p)
      BY <1>1, <1>2, <2>2
    <3> QED BY <1>2, <1>3, <3>1 DEF PipeFollows
  <2> QED BY <2>1, <2>2
<1>4. g.pipe # << >> /\ g.pipe[1].what # "open" => IsFor(g.pipe[1].tx, t, stale)
  <2>1. CASE p = << >>
    <3>1. g.pipe[1] = n
      BY <1>2, <2>1
    <3> QED BY <2>1, <3>1 DEF PipeFollows
  <2>2. CASE p # << >>
    <3>1. g.pipe[1] = p[1]
      BY <1>1, <1>2, <2>2
    <3> QED BY <2>2, <3>1 DEF PipeFollows
  <2> QED BY <2>1, <2>2
<1>5. g.open => g.pipe[Len(g.pipe)].tx = g.tx
  BY <1>2
<1> QED BY <1>2, <1>3, <1>4, <1>5 DEF PipeFollows

\* A line less: its transmission is the one what follows it is of.
LEMMA LineRead ==
  ASSUME NEW h, NEW t, NEW stale, PipeFollows(h, t, stale), h.pipe # << >>,
         NEW g, DOMAIN g = LaneFields, g.pipe = Tail(h.pipe), g.open = h.open, g.tx = h.tx,
         NEW q, NEW s, IsFor(h.pipe[1].tx, q, s)
  PROVE  PipeFollows(g, q, s)
<1> DEFINE p == h.pipe
<1>1. p \in Seq(Lines) /\ h.open \in BOOLEAN /\ h.tx \in Nat
  BY DEF PipeFollows
<1>2. /\ g.pipe \in Seq(Lines) /\ Len(g.pipe) = Len(p) - 1 /\ \A i \in 1 .. Len(g.pipe) : g.pipe[i] = p[i + 1]
  BY <1>1
<1>3. ASSUME NEW i \in 1 .. Len(g.pipe) - 1, g.pipe[i + 1].what # "open" PROVE g.pipe[i + 1].tx = g.pipe[i].tx
  <2>1. i + 1 \in 1 .. Len(p) - 1 /\ g.pipe[i] = p[i + 1] /\ g.pipe[i + 1] = p[(i + 1) + 1]
    BY <1>1, <1>2
  <2> QED BY <1>3, <2>1 DEF PipeFollows
<1>4. ASSUME g.pipe # << >>, g.pipe[1].what # "open" PROVE IsFor(g.pipe[1].tx, q, s)
  <2>1. 1 \in 1 .. Len(p) - 1 /\ g.pipe[1] = p[1 + 1]
    BY <1>1, <1>2, <1>4
  <2>2. p[1 + 1].tx = p[1].tx
    BY <1>4, <2>1 DEF PipeFollows
  <2> QED BY <2>1, <2>2
<1>5. h.open => p[Len(p)].tx = h.tx
  BY DEF PipeFollows
<1>6. g.open => IF g.pipe = << >> THEN IsFor(g.tx, q, s) ELSE g.pipe[Len(g.pipe)].tx = g.tx
  <2>1. CASE g.pipe = << >>
    <3>4. Len(<< >>) = 0
      OBVIOUS
    <3>1. Len(g.pipe) = 0
      BY <2>1, <3>4, Zenon
    <3>3. Len(p) \in Nat
      BY <1>1
    <3>2. Len(p) = 1
      BY <1>2, <3>1, <3>3
    <3> QED BY <1>5, <2>1, <3>2
  <2>2. CASE g.pipe # << >>
    <3>1. g.pipe[Len(g.pipe)] = p[Len(p)]
      BY <1>1, <1>2, <2>2
    <3> QED BY <1>5, <2>2, <3>1
  <2> QED BY <2>1, <2>2
<1> QED BY <1>1, <1>2, <1>3, <1>4, <1>6 DEF PipeFollows

\* A table on which a reading has the row it had.
KeepsRows(t, q, stale) == TableRight(q, stale) /\ \A k : IsFor(k, t, stale) => IsFor(k, q, stale)

LEMMA RowsKept ==
  ASSUME NEW h, NEW t, NEW stale, PipeFollows(h, t, stale), NEW q, KeepsRows(t, q, stale)
  PROVE  PipeFollows(h, q, stale)
BY DEF KeepsRows, PipeFollows

\* A new helper, and one whose pipe is not read: the lane and its window are the helper's own.
LEMMA PipeEmpty ==
  ASSUME NEW h, NEW t, NEW stale, DOMAIN h = LaneFields, h.open = FALSE, h.pipe = << >>, h.tx \in Nat
  PROVE  PipeFollows(h, t, stale)
<1>1. << >> \in Seq(Lines) /\ Len(<< >>) = 0
  OBVIOUS
<1>2. h.pipe \in Seq(Lines) /\ Len(h.pipe) = 0
  BY <1>1, Zenon
<1>3. h.open \in BOOLEAN /\ ~h.open
  OBVIOUS
<1> QED BY <1>2, <1>3 DEF PipeFollows

LEMMA SamePipe ==
  ASSUME NEW h, NEW t, NEW stale, PipeFollows(h, t, stale),
         NEW g, DOMAIN g = LaneFields, g.pipe = h.pipe, g.tx = h.tx, g.open = h.open
  PROVE  PipeFollows(g, t, stale)
BY DEF PipeFollows

-----------------------------------------------------------------------------
(* The steps. *)

\* What a step leaves of the invariant once the table and the pipe are right.
LEMMA HistoryStep ==
  ASSUME HistoryInv, ts' = ts, DOMAIN engine' = {"inGroup", "open", "stale"},
         NEW t, table' = t, NEW s, engine'.stale = s, NEW h, helper' = h, TableRight(t, s), PipeFollows(h, t, s)
  PROVE  HistoryInv'
<1>1. TableRight(table, engine.stale)'
  BY DEF TableRight, TableTyped, RowRight, AirtimeOf, ReadingsOf
<1>2. PipeFollows(helper, table, engine.stale)'
  BY DEF PipeFollows, IsFor, RowOf
<1> QED BY <1>1, <1>2 DEF HistoryInv

LEMMA HistoryFirst == HistoryInit => HistoryInv
<1> SUFFICES ASSUME HistoryInit PROVE HistoryInv
  OBVIOUS
<1>1. /\ table = [rows |-> {}, next |-> 1, open |-> NoRow, last |-> NoRow, alerted |-> 0, run |-> 1]
      /\ helper = [tuned |-> TRUE, open |-> FALSE, tx |-> 0, pipe |-> <<>>, told |-> <<>>]
  BY DEF HistoryInit
<1>2. DOMAIN table = TableFields /\ table.rows = {} /\ table.next = 1 /\ table.open = 0 /\ table.last = 0 /\ table.run = 1
  BY <1>1 DEF TableFields, NoRow
<1>3. TableRight(table, engine.stale)
  BY <1>2 DEF TableRight, TableTyped, AirtimeOf, ReadingsOf
<1>4. DOMAIN helper = LaneFields /\ helper.open = FALSE /\ helper.pipe = << >> /\ helper.tx = 0
  BY <1>1 DEF LaneFields
<1>5. PipeFollows(helper, table, engine.stale)
  BY <1>4, PipeEmpty, 0 \in Nat
<1> QED BY <1>3, <1>5 DEF HistoryInit, HistoryInv

LEMMA OpensFollow == ASSUME HistoryInv, LaneOpens PROVE HistoryInv'
<1> DEFINE n == [what |-> "open", tx |-> helper.tx + 1]
<1> DEFINE h == [helper EXCEPT !.open = TRUE, !.tx = @ + 1, !.pipe = Append(@, n)]
<1>1. ts' = ts /\ engine' = engine /\ table' = table /\ helper' = h /\ DOMAIN helper = LaneFields /\ helper.tx \in Nat
  BY DEF LaneOpens, HistoryInv, PipeFollows
<1>2. /\ DOMAIN h = LaneFields /\ h.open = TRUE /\ h.tx = helper.tx + 1 /\ h.pipe = Append(helper.pipe, n)
      /\ n \in Lines /\ n.what = "open" /\ n.tx = helper.tx + 1
  BY <1>1 DEF LaneFields, Lines
<1> HIDE DEF n, h
<1>3. PipeFollows(h, table, engine.stale)
  <2>1. h.tx \in Nat /\ h.tx = n.tx /\ h.open \in BOOLEAN /\ PipeFollows(helper, table, engine.stale)
    <3>1. h.tx \in Nat /\ h.tx = n.tx
      BY <1>1, <1>2
    <3>2. h.open \in BOOLEAN
      BY <1>2
    <3> QED BY <3>1, <3>2 DEF HistoryInv
  <2> QED BY <1>2, <2>1, LineFollows
<1> QED BY <1>1, <1>3, HistoryStep DEF HistoryInv

LEMMA ClosesFollow == ASSUME HistoryInv, LaneCloses PROVE HistoryInv'
<1> DEFINE p == helper.pipe
           n == [what |-> "rf", tx |-> helper.tx]
           c == [what |-> "close", tx |-> helper.tx]
<1>1. /\ ts' = ts /\ engine' = engine /\ table' = table /\ helper.open = TRUE
      /\ DOMAIN helper = LaneFields /\ helper.tx \in Nat /\ p \in Seq(Lines) /\ PipeFollows(helper, table, engine.stale)
  BY DEF LaneCloses, HistoryInv, PipeFollows
<1>2. n \in Lines /\ c \in Lines /\ n.tx = helper.tx /\ c.tx = helper.tx
  BY <1>1 DEF Lines
<1>3. PICK lines \in {<<n, c>>, <<c>>} : helper' = [helper EXCEPT !.open = FALSE, !.pipe = @ \o lines]
  BY DEF LaneCloses, Line
<1> DEFINE h == [helper EXCEPT !.open = FALSE, !.pipe = @ \o lines]
<1>4. DOMAIN h = LaneFields /\ h.open = FALSE /\ h.tx = helper.tx /\ h.pipe = p \o lines
  BY <1>1 DEF LaneFields
<1> DEFINE m == [helper EXCEPT !.pipe = Append(@, n)]
<1>5. DOMAIN m = LaneFields /\ m.open = helper.open /\ m.tx = helper.tx /\ m.pipe = Append(p, n)
  BY <1>1 DEF LaneFields
<1> HIDE DEF h, m
<1>6. PipeFollows(h, table, engine.stale)
  <2>1. CASE lines = <<c>>
    <3>1. p \o lines = Append(p, c)
      BY <1>1, <1>2, <2>1
    <3> HIDE DEF c, n
    <3> QED BY <1>1, <1>2, <1>4, <3>1, LineFollows
  <2>2. CASE lines = <<n, c>>
    <3>1. p \o lines = Append(Append(p, n), c)
      BY SMTT(60), <1>1, <1>2, <2>2
    <3> HIDE DEF c, n
    <3>2. PipeFollows(m, table, engine.stale)
      BY <1>1, <1>2, <1>5, LineFollows
    <3> QED BY <1>1, <1>2, <1>4, <1>5, <3>1, <3>2, LineFollows
  <2> QED BY <2>1, <2>2
<1> QED BY <1>1, <1>3, <1>6, HistoryStep DEF HistoryInv, h

LEMMA TunesFollow == ASSUME HistoryInv, LaneTunes PROVE HistoryInv'
<1> DEFINE p == helper.pipe
           c == [what |-> "close", tx |-> helper.tx]
           h == [helper EXCEPT !.tuned = Head(helper.told), !.told = Tail(@), !.open = FALSE,
                               !.pipe = IF helper.open THEN Append(@, c) ELSE @]
<1>1. /\ ts' = ts /\ engine' = engine /\ table' = table /\ helper' = h /\ helper.open \in BOOLEAN
      /\ DOMAIN helper = LaneFields /\ helper.tx \in Nat /\ PipeFollows(helper, table, engine.stale)
  BY DEF LaneTunes, Line, HistoryInv, PipeFollows
<1>2. /\ DOMAIN h = LaneFields /\ h.open = FALSE /\ h.tx = helper.tx /\ h.pipe = IF helper.open THEN Append(p, c) ELSE p
      /\ c \in Lines /\ c.tx = helper.tx
  BY <1>1 DEF LaneFields, Lines
<1> HIDE DEF h, c
<1>3. PipeFollows(h, table, engine.stale)
  <2>1. CASE helper.open
    BY <1>1, <1>2, <2>1, LineFollows
  <2>2. CASE ~helper.open
    BY <1>1, <1>2, <2>2, SamePipe
  <2> QED BY <2>1, <2>2
<1> QED BY <1>1, <1>3, HistoryStep DEF HistoryInv

\* A line is read: an opening is a row, or is stale; a close ends the row, and a reading is of it.
LEMMA ReadsFollow == ASSUME HistoryInv, Reads PROVE HistoryInv'
<1> DEFINE p == helper.pipe
           line == Head(p)
           h == [helper EXCEPT !.pipe = Tail(@)]
<1>1. /\ ts' = ts /\ ts \in Nat /\ helper' = h /\ p # << >> /\ p \in Seq(Lines) /\ DOMAIN helper = LaneFields
      /\ TableRight(table, engine.stale) /\ PipeFollows(helper, table, engine.stale)
      /\ DOMAIN engine = {"inGroup", "open", "stale"}
  BY DEF Reads, HistoryInv, PipeFollows
<1>2. line \in Lines /\ line = p[1]
  BY <1>1
<1>3. DOMAIN h = LaneFields /\ h.pipe = Tail(p) /\ h.open = helper.open /\ h.tx = helper.tx
  BY <1>1 DEF LaneFields
<1>4. line.what # "open" => IsFor(line.tx, table, engine.stale)
  BY <1>1, <1>2 DEF PipeFollows
<1> DEFINE Done(t, s) == /\ table' = t /\ engine'.stale = s /\ DOMAIN engine' = {"inGroup", "open", "stale"}
                         /\ TableRight(t, s) /\ IsFor(line.tx, t, s)
<1>5. ASSUME line.what = "open" PROVE \E t, s : Done(t, s)
  <2>1. ReadsOpen(line)
    BY <1>5 DEF Reads
  <2>2. CASE ~engine.inGroup
    <3>1. engine' = [engine EXCEPT !.stale = @ \union {line.tx}] /\ table' = table
      BY <2>1, <2>2 DEF ReadsOpen
    <3>2. engine'.stale = engine.stale \cup {line.tx} /\ DOMAIN engine' = {"inGroup", "open", "stale"}
      BY <1>1, <3>1
    <3> HIDE DEF line
    <3>3. Done(table, engine.stale \cup {line.tx})
      BY <1>1, <3>1, <3>2, StaleGrows
    <3> QED BY <3>3
  <2>3. CASE engine.inGroup
    <3>1. engine' = [engine EXCEPT !.open = TRUE] /\ table' = Alerted(RecordActive(table, line.tx), line.tx)
      BY <2>1, <2>3 DEF ReadsOpen
    <3>2. engine'.stale = engine.stale /\ DOMAIN engine' = {"inGroup", "open", "stale"}
      BY <1>1, <3>1
    <3> HIDE DEF line
    <3>3. PICK a : a = RecordActive(table, line.tx)
      OBVIOUS
    <3>4. TableRight(a, engine.stale) /\ IsFor(line.tx, a, engine.stale)
      BY <1>1, <3>3, Records
    <3>5. Done(Alerted(a, line.tx), engine.stale)
      BY <1>1, <3>1, <3>2, <3>3, <3>4, AlertRow
    <3> QED BY <3>5
  <2> QED BY <2>2, <2>3
<1>6. ASSUME line.what = "close" PROVE \E t, s : Done(t, s)
  <2>1. ReadsClose
    BY <1>6 DEF Reads
  <2>2. engine' = [engine EXCEPT !.open = FALSE] /\ table' = IF engine.open THEN Release(table) ELSE table
    BY <2>1 DEF ReadsClose
  <2>3. engine'.stale = engine.stale /\ DOMAIN engine' = {"inGroup", "open", "stale"}
    BY <1>1, <2>2
  <2>4. IsFor(line.tx, table, engine.stale)
    BY <1>4, <1>6
  <2> HIDE DEF line
  <2>5. CASE engine.open
    <3>1. Done(Release(table), engine.stale)
      BY <1>1, <2>2, <2>3, <2>4, <2>5, Releases
    <3> QED BY <3>1
  <2>6. CASE ~engine.open
    <3>1. Done(table, engine.stale)
      BY <1>1, <2>2, <2>3, <2>4, <2>6
    <3> QED BY <3>1
  <2> QED BY <2>5, <2>6
<1>7. ASSUME line.what = "rf" PROVE \E t, s : Done(t, s)
  <2>1. ReadsRf(line)
    BY <1>7 DEF Reads
  <2>2. IsFor(line.tx, table, engine.stale)
    BY <1>4, <1>7
  <2> HIDE DEF line
  <2>3. table' = SetRf(table, line.tx) /\ engine' = engine
    BY <2>1 DEF ReadsRf
  <2>4. Done(SetRf(table, line.tx), engine.stale)
    BY <1>1, <2>2, <2>3, ReadingSet
  <2> QED BY <2>4
<1>8. \E t, s : Done(t, s)
  <2>1. line.what \in {"open", "rf", "close"}
    BY <1>2 DEF Lines
  <2> QED BY <1>5, <1>6, <1>7, <2>1
<1> HIDE DEF h
<1>9. PICK t, s : Done(t, s)
  BY <1>8
<1>10. PipeFollows(h, t, s)
  BY <1>1, <1>2, <1>3, <1>9, LineRead
<1> QED BY <1>1, <1>9, <1>10, HistoryStep

LEMMA HopsFollow == ASSUME HistoryInv, Hops PROVE HistoryInv'
<1> DEFINE h == [helper EXCEPT !.told = Append(@, engine'.inGroup)]
           t == IF engine.open THEN Release(table) ELSE table
<1>1. /\ ts' = ts /\ ts \in Nat /\ helper' = h /\ table' = t /\ DOMAIN helper = LaneFields
      /\ engine' = [engine EXCEPT !.inGroup = ~@, !.open = FALSE] /\ DOMAIN engine = {"inGroup", "open", "stale"}
      /\ TableRight(table, engine.stale) /\ PipeFollows(helper, table, engine.stale)
  BY DEF Hops, HistoryInv, PipeFollows
<1>2. DOMAIN h = LaneFields /\ h.pipe = helper.pipe /\ h.open = helper.open /\ h.tx = helper.tx
  BY <1>1 DEF LaneFields
<1>3. engine'.stale = engine.stale /\ DOMAIN engine' = {"inGroup", "open", "stale"}
  BY <1>1
<1>4. KeepsRows(table, t, engine.stale)
  BY <1>1, Releases DEF KeepsRows
<1> HIDE DEF h, t
<1>5. PipeFollows(h, t, engine.stale)
  BY <1>1, <1>2, <1>4, RowsKept, SamePipe
<1> QED BY <1>1, <1>3, <1>4, <1>5, HistoryStep DEF KeepsRows

\* A new helper: what was in the old one's pipe is gone.
LEMMA RespawnFollows == ASSUME HistoryInv, Respawns PROVE HistoryInv'
<1> DEFINE h == [helper EXCEPT !.open = FALSE, !.pipe = <<>>, !.told = <<>>, !.tuned = engine.inGroup]
<1>1. /\ ts' = ts /\ helper' = h /\ table' = table /\ DOMAIN helper = LaneFields /\ helper.tx \in Nat
      /\ engine' = [engine EXCEPT !.open = FALSE] /\ DOMAIN engine = {"inGroup", "open", "stale"}
      /\ TableRight(table, engine.stale)
  BY DEF Respawns, HistoryInv, PipeFollows
<1>2. DOMAIN h = LaneFields /\ h.pipe = << >> /\ h.open = FALSE /\ h.tx = helper.tx
  BY <1>1 DEF LaneFields
<1>3. engine'.stale = engine.stale /\ DOMAIN engine' = {"inGroup", "open", "stale"}
  BY <1>1
<1> HIDE DEF h
<1>4. PipeFollows(h, table, engine.stale)
  BY <1>1, <1>2, PipeEmpty
<1> QED BY <1>1, <1>3, <1>4, HistoryStep

LEMMA RestartFollows == ASSUME HistoryInv, Restarts PROVE HistoryInv'
<1> DEFINE h == [helper EXCEPT !.open = FALSE, !.pipe = <<>>, !.told = <<>>, !.tuned = TRUE]
           t == [table EXCEPT !.rows = Kept(table.rows), !.open = NoRow, !.last = NoRow, !.alerted = 0, !.run = @ + 1]
<1>1. /\ ts' = ts /\ helper' = h /\ DOMAIN helper = LaneFields /\ helper.tx \in Nat
      /\ engine' = [engine EXCEPT !.inGroup = TRUE, !.open = FALSE] /\ DOMAIN engine = {"inGroup", "open", "stale"}
      /\ TableRight(table, engine.stale)
  BY DEF Restarts, HistoryInv, PipeFollows
<1>2. DOMAIN h = LaneFields /\ h.pipe = << >> /\ h.open = FALSE /\ h.tx = helper.tx
  BY <1>1 DEF LaneFields
<1>3. engine'.stale = engine.stale /\ DOMAIN engine' = {"inGroup", "open", "stale"}
  BY <1>1
<1>4. table' = t
  BY DEF Restarts
<1>5. Kept(table.rows) \in SUBSET table.rows
  BY DEF Kept
<1> HIDE DEF h
<1>6. TableRight(t, engine.stale)
  BY ZenonT(60), <1>1, <1>5, ServiceStarts
<1> HIDE DEF t
<1>7. PipeFollows(h, t, engine.stale)
  BY <1>1, <1>2, PipeEmpty
<1> QED BY <1>1, <1>3, <1>4, <1>6, <1>7, HistoryStep

\* Steps that touch the table alone, and those that touch none of it.
LEMMA TableFollows ==
  ASSUME HistoryInv, ts' = ts, helper' = helper, engine' = engine, NEW t, table' = t, KeepsRows(table, t, engine.stale)
  PROVE  HistoryInv'
<1>1. /\ DOMAIN engine' = {"inGroup", "open", "stale"} /\ TableRight(t, engine.stale)
      /\ PipeFollows(helper, table, engine.stale)
  BY DEF HistoryInv, KeepsRows
<1>2. PipeFollows(helper, t, engine.stale)
  BY <1>1, RowsKept
<1> QED BY <1>1, <1>2, HistoryStep

LEMMA HistoryUntouched == ASSUME HistoryInv, UNCHANGED <<ts, helper, engine, table>> PROVE HistoryInv'
BY TableFollows DEF HistoryInv, KeepsRows

LEMMA TicksFollow == ASSUME HistoryInv, Ticks PROVE HistoryInv'
<1>1. ts' = ts + 1 /\ ts \in Nat /\ helper' = helper /\ engine' = engine /\ table' = table
  BY DEF Ticks, HistoryInv
<1>2. TableTyped(table)'
  BY <1>1 DEF HistoryInv, TableRight, TableTyped, RowRight
<1>3. TableRight(table, engine.stale)'
  BY <1>1, <1>2 DEF HistoryInv, TableRight, AirtimeOf, ReadingsOf
<1>4. PipeFollows(helper, table, engine.stale)'
  BY <1>1 DEF HistoryInv, PipeFollows, IsFor, RowOf
<1> QED BY <1>1, <1>3, <1>4 DEF HistoryInv

LEMMA HistorySteps == HistoryInv /\ [HistoryNext]_historyVars => HistoryInv'
<1> SUFFICES ASSUME HistoryInv, [HistoryNext]_historyVars PROVE HistoryInv'
  OBVIOUS
<1>1. CASE LaneOpens  BY <1>1, OpensFollow
<1>2. CASE LaneCloses  BY <1>2, ClosesFollow
<1>3. CASE LaneTunes  BY <1>3, TunesFollow
<1>4. CASE Reads  BY <1>4, ReadsFollow
<1>5. CASE Hops  BY <1>5, HopsFollow
<1>6. CASE Respawns  BY <1>6, RespawnFollows
<1>7. CASE Restarts  BY <1>7, RestartFollows
<1>8. CASE CloseCall
  <2>1. KeepsRows(table, Inserted(table, "closecall", 0), engine.stale)
    BY OtherKind DEF HistoryInv, KeepsRows
  <2> QED BY <1>8, <2>1, TableFollows DEF CloseCall
<1>9. CASE Ticks  BY <1>9, TicksFollow
<1>10. CASE Prunes
  <2>1. KeepsRows(table, [table EXCEPT !.rows = Kept(table.rows)], engine.stale)
    BY RowsGone DEF HistoryInv, KeepsRows, Kept
  <2> QED BY <1>10, <2>1, TableFollows DEF Prunes
<1>11. CASE Deletes
  <2> DEFINE rows == {r \in table.rows : ~(r.kind = "alert" /\ (desk.wire.rows = {} \/ r.id \in desk.wire.rows))}
  <2>1. rows \in SUBSET table.rows
    OBVIOUS
  <2>2. table' = [table EXCEPT !.rows = rows] /\ ts' = ts /\ helper' = helper /\ engine' = engine
    BY <1>11 DEF Deletes
  <2> HIDE DEF rows
  <2>3. KeepsRows(table, [table EXCEPT !.rows = rows], engine.stale)
    BY <2>1, RowsGone DEF HistoryInv, KeepsRows
  <2> QED BY <2>2, <2>3, TableFollows
<1>12. CASE \/ ListAsked \/ ListServed \/ ListLands \/ MinuteComes \/ RequestFails \/ Dismisses \/ SocketDrops \/ SocketReturns
  BY ZenonT(60), <1>12, HistoryUntouched
     DEF ListAsked, ListServed, ListLands, MinuteComes, RequestFails, Dismisses, SocketDrops, SocketReturns
<1>13. CASE UNCHANGED historyVars
  BY <1>13, HistoryUntouched DEF historyVars
<1> QED BY <1>1, <1>2, <1>3, <1>4, <1>5, <1>6, <1>7, <1>8, <1>9, <1>10, <1>11, <1>12, <1>13
        DEF HistoryNext, Radio, PageRuns

\* Airtime is counted once, and a reading is on the row of its own transmission, for any number of
\* transmissions, any retention and any mishaps.
THEOREM RowsTheorem == HistorySpec => []RowsSound
<1>1. HistoryInv => RowsSound
  BY DEF HistoryInv, TableRight, AirtimeOf, ReadingsOf, RowsSound, AirtimeOnce, ReadingOnItsRow, Openings
<1> QED BY <1>1, HistoryFirst, HistorySteps, PTL DEF HistorySpec
-----------------------------------------------------------------------------
-----------------------------------------------------------------------------
(* Edits kept.  An edit is in the countdown, behind the Apply bar, marked, *)
(* or a save of it is in the lane and the page's entry for the field is    *)
(* what the last such save sent; an entry is dropped by the save that sent *)
(* that value, so it is missing only where the page let go of a save.      *)

\* What the page and the requests of its lane hold.
Settings == [Fields -> Values]
Sending == [Fields -> Values \cup {Nothing}]
Copy == {Nothing} \cup [cfg : Settings, fresh : BOOLEAN] \cup [cfg : Settings] \cup [proc : Int]
        \cup [cfg : Settings, wx : Values \cup {Nothing}]
At == {"new", "got", "ok", "no"}
SentPart == UNION {[ids -> Values] : ids \in SUBSET Fields}
SaveRequest == [kind : {"save"}, by : {"batch", "direct", "apply"}, sent : SentPart, at : At, copy : Copy]
PassRequest == [kind : {"pass"}, todo : Seq({"status", "tune"}), at : At, copy : Copy]
OtherRequest == [kind : {"weather"}, sent : Values \cup {Nothing}, at : At, copy : Copy] \cup [kind : {"power"}, at : At, copy : Copy]
Request == SaveRequest \cup PassRequest \cup OtherRequest

BatchKind == {"idle", "pending", "saving", "saved", "error"}
BatchState == [kind : BatchKind, ids : SUBSET Fields, timer : BOOLEAN, saving : SUBSET Fields, waits : Int]
WeatherState == [shown : Values \cup {Nothing}, loaded : Values \cup {Nothing}, timer : BOOLEAN, saving : BOOLEAN,
                 queued : BOOLEAN, err : BOOLEAN]

\* The page has these parts and no other.
PageShape(p) ==
  p = [ready |-> p.ready, values |-> p.values, loaded |-> p.loaded, sending |-> p.sending,
       inflight |-> p.inflight, heavy |-> p.heavy, errs |-> p.errs, focus |-> p.focus, retry |-> p.retry,
       batch |-> p.batch, wx |-> p.wx, lane |-> p.lane, paused |-> p.paused, resync |-> p.resync,
       startedAt |-> p.startedAt, busy |-> p.busy, powerBase |-> p.powerBase, watch |-> p.watch]

PageOK(p) ==
  /\ PageShape(p)
  /\ p.ready \in BOOLEAN /\ p.paused \in BOOLEAN /\ p.focus \in Fields \cup {Nothing}
  /\ p.values \in Settings /\ p.loaded \in Settings /\ p.sending \in Sending
  /\ p.heavy \in SUBSET Fields /\ p.errs \in SUBSET Fields /\ p.retry \in SUBSET Fields
  /\ p.batch \in BatchState /\ p.wx \in WeatherState /\ p.lane \in Seq(Request)

\* A save that was obeyed has what it sent back; the others of what a landing reads.
RequestOK(j) ==
  /\ j.kind = "save" /\ j.at = "ok" => \A f \in DOMAIN j.sent : j.copy.cfg[f] = j.sent[f]
  /\ j.kind = "save" /\ j.at = "got" => j.copy \in [cfg : Settings, fresh : BOOLEAN]
  /\ j.kind = "pass" => j.todo # << >> /\ j.at # "got"
  /\ j.kind = "pass" /\ j.at = "ok" /\ Head(j.todo) # "status" => j.copy \in [cfg : Settings, wx : Values \cup {Nothing}]

RequestsOK(p) == \A i \in DOMAIN p.lane : RequestOK(p.lane[i])

\* A field marked in error shows something else than what was loaded.
MarksRight(p) == \A f \in p.errs : p.focus # f => p.values[f] # p.loaded[f]

\* What waits for the countdown is in the batch's state.
BatchShown(p) == p.batch.ids # {} => p.batch.kind \in {"pending", "error"}

\* v is what the last save of f in the lane sent.
LastSent(p, f, v) == \E i \in SavesOf(p, f) : p.lane[i].sent[f] = v /\ \A j \in SavesOf(p, f) : j <= i

\* A field's entry is what the last save of it in the lane sent.
EntriesRight(p) == \A f \in Fields : p.sending[f] # Nothing => LastSent(p, f, p.sending[f])

\* What holds of the page whatever the operator asked of it.
Fit(p) == PageOK(p) /\ RequestsOK(p) /\ MarksRight(p) /\ BatchShown(p) /\ EntriesRight(p)

\* v was entered in f: it is there, and in the countdown, behind the Apply bar, on its way or marked,
\* or the page let go of it.
Owed(p, v, f) ==
  v # Nothing /\ p.focus # f =>
    /\ p.values[f] = v
    /\ \/ f \in p.batch.ids \cup p.heavy
       \/ p.sending[f] = v
       \/ p.sending[f] = Nothing /\ (f \in p.errs \/ SavesOf(p, f) # {})

\* Before the first load nothing is marked, held, counted down or on its way.
Early(p) ==
  p.errs = {} /\ p.focus = Nothing /\ ~p.batch.timer /\ \A i \in DOMAIN p.lane : p.lane[i].kind # "save"

Server == [cfg : Settings, wx : Values \cup {Nothing}, proc : Int, up : BOOLEAN, leaving : BOOLEAN]

\* What holds between any two steps of the page.
AdminInv ==
  /\ server \in Server
  /\ want \in Sending
  /\ Fit(tune)
  /\ \A f \in Fields : LetGo(tune, f) => f \in disowned
  /\ \A f \in Fields \ disowned : Owed(tune, want[f], f)
  /\ ~tune.ready => Early(tune) /\ want = [f \in Fields |-> Nothing]

-----------------------------------------------------------------------------
\* The lane.

LEMMA SavesJoin ==
  ASSUME NEW p, NEW q, NEW j \in Request, NEW f \in Fields,
         p.lane \in Seq(Request), q.lane = Append(p.lane, j)
  PROVE  /\ ~(j.kind = "save" /\ f \in DOMAIN j.sent) =>
              SavesOf(q, f) = SavesOf(p, f) /\ \A v : LastSent(p, f, v) => LastSent(q, f, v)
         /\ j.kind = "save" /\ f \in DOMAIN j.sent => SavesOf(q, f) # {} /\ LastSent(q, f, j.sent[f])
<1> DEFINE n == Len(p.lane)
<1>1. /\ n \in Nat /\ DOMAIN p.lane = 1 .. n /\ DOMAIN q.lane = 1 .. n + 1 /\ q.lane[n + 1] = j
      /\ \A i \in 1 .. n : q.lane[i] = p.lane[i]
  OBVIOUS
<1>2. /\ SavesOf(p, f) \subseteq 1 .. n
      /\ SavesOf(q, f) = SavesOf(p, f) \cup (IF j.kind = "save" /\ f \in DOMAIN j.sent THEN {n + 1} ELSE {})
  BY <1>1 DEF SavesOf
<1> HIDE DEF n
<1>3. CASE ~(j.kind = "save" /\ f \in DOMAIN j.sent)
  <2>1. SavesOf(q, f) = SavesOf(p, f)
    BY <1>2, <1>3
  <2>2. \A i \in SavesOf(p, f) : q.lane[i] = p.lane[i]
    BY <1>1, <1>2
  <2> QED BY <1>3, <2>1, <2>2 DEF LastSent
<1>4. CASE j.kind = "save" /\ f \in DOMAIN j.sent
  <2>1. n + 1 \in SavesOf(q, f) /\ \A i \in SavesOf(q, f) : i <= n + 1
    BY <1>1, <1>2, <1>4
  <2> QED BY <1>1, <1>4, <2>1 DEF LastSent
<1> QED BY <1>3, <1>4

LEMMA SavesLeave ==
  ASSUME NEW p, NEW q, NEW f \in Fields,
         p.lane \in Seq(Request), p.lane # << >>, q.lane = Tail(p.lane)
  PROVE  /\ ~(p.lane[1].kind = "save" /\ f \in DOMAIN p.lane[1].sent) => (SavesOf(q, f) = {} <=> SavesOf(p, f) = {})
         /\ SavesOf(q, f) = {} <=> SavesOf(p, f) \subseteq {1}
         /\ \A v : LastSent(p, f, v) => \/ LastSent(q, f, v)
                                        \/ SavesOf(p, f) = {1} /\ v = p.lane[1].sent[f]
<1> DEFINE n == Len(p.lane)
<1>1. /\ n \in Nat \ {0} /\ DOMAIN p.lane = 1 .. n /\ DOMAIN q.lane = 1 .. n - 1
      /\ \A i \in 1 .. n - 1 : q.lane[i] = p.lane[i + 1]
  OBVIOUS
<1>2. /\ SavesOf(p, f) \subseteq 1 .. n /\ SavesOf(q, f) \subseteq 1 .. n - 1
      /\ \A i \in 1 .. n - 1 : i \in SavesOf(q, f) <=> i + 1 \in SavesOf(p, f)
      /\ 1 \in SavesOf(p, f) <=> p.lane[1].kind = "save" /\ f \in DOMAIN p.lane[1].sent
  BY <1>1 DEF SavesOf
<1> HIDE DEF n
<1>3. \A i \in SavesOf(p, f) : i = 1 \/ (i - 1 \in SavesOf(q, f) /\ i - 1 \in 1 .. n - 1)
  BY <1>1, <1>2
<1>4. SavesOf(q, f) = {} <=> SavesOf(p, f) \subseteq {1}
  BY <1>1, <1>2, <1>3
<1>5. ASSUME NEW v, LastSent(p, f, v)
      PROVE  LastSent(q, f, v) \/ (SavesOf(p, f) = {1} /\ v = p.lane[1].sent[f])
  <2>1. PICK i \in SavesOf(p, f) : p.lane[i].sent[f] = v /\ \A k \in SavesOf(p, f) : k <= i
    BY <1>5 DEF LastSent
  <2>2. CASE i = 1
    BY <2>1, <2>2, <1>1, <1>2
  <2>3. CASE i # 1
    <3>1. i - 1 \in SavesOf(q, f) /\ q.lane[i - 1] = p.lane[i]
      BY <2>1, <2>3, <1>1, <1>2, <1>3
    <3>2. \A k \in SavesOf(q, f) : k <= i - 1
      BY <2>1, <1>1, <1>2
    <3> QED BY <2>1, <3>1, <3>2 DEF LastSent
  <2> QED BY <2>2, <2>3
<1>6. ~(p.lane[1].kind = "save" /\ f \in DOMAIN p.lane[1].sent) => (SavesOf(q, f) = {} <=> SavesOf(p, f) = {})
  BY <1>2, <1>4
<1> QED BY <1>4, <1>5, <1>6

\* Answers on the wire, and one poll put for another, leave the saves as they are.
LEMMA SavesStay ==
  ASSUME NEW p, NEW q, NEW f \in Fields, DOMAIN q.lane = DOMAIN p.lane,
         \A i \in DOMAIN p.lane : q.lane[i].kind = p.lane[i].kind
                                  /\ (p.lane[i].kind = "save" => q.lane[i].sent = p.lane[i].sent)
  PROVE  SavesOf(q, f) = SavesOf(p, f) /\ \A v : LastSent(p, f, v) => LastSent(q, f, v)
<1>1. SavesOf(q, f) = SavesOf(p, f)
  BY DEF SavesOf
<1>2. \A i \in SavesOf(p, f) : q.lane[i].sent = p.lane[i].sent
  BY DEF SavesOf
<1> QED BY <1>1, <1>2 DEF LastSent

LEMMA SavesSame ==
  ASSUME NEW p, NEW q, NEW f, q.lane = p.lane
  PROVE  SavesOf(q, f) = SavesOf(p, f) /\ \A v : LastSent(p, f, v) <=> LastSent(q, f, v)
BY DEF SavesOf, LastSent

-----------------------------------------------------------------------------
\* Saving.

\* Painting the rows leaves all but the marks.
LEMMA Painted ==
  ASSUME NEW p, PageOK(p), RequestsOK(p), BatchShown(p), EntriesRight(p), NEW q, q = PaintRows(p)
  PROVE  /\ Fit(q) /\ q.errs = {f \in p.errs : p.values[f] # p.loaded[f]}
         /\ q = [p EXCEPT !.errs = q.errs]
         /\ \A f \in Fields : SavesOf(q, f) = SavesOf(p, f)
<1>1. q.errs = {f \in p.errs : p.values[f] # p.loaded[f]} /\ q = [p EXCEPT !.errs = q.errs]
  BY DEF PaintRows, PageOK, PageShape
<1>2. PageOK(q)
  BY <1>1 DEF PageOK, PageShape
<1>3. /\ q.lane = p.lane /\ q.sending = p.sending /\ q.batch = p.batch /\ q.values = p.values
      /\ q.loaded = p.loaded
  BY <1>1 DEF PageOK, PageShape
<1>4. MarksRight(q)
  BY <1>1, <1>3 DEF MarksRight
<1>5. RequestsOK(q) /\ BatchShown(q)
  BY <1>3 DEF RequestsOK, BatchShown
<1>6. \A f \in Fields : SavesOf(q, f) = SavesOf(p, f) /\ \A v : LastSent(p, f, v) <=> LastSent(q, f, v)
  BY <1>3, SavesSame
<1>7. EntriesRight(q)
  BY <1>3, <1>6 DEF EntriesRight
<1> QED BY <1>1, <1>2, <1>4, <1>5, <1>6, <1>7 DEF Fit

\* What becomes of a save's caller when it failed.
LEMMA SaveFails ==
  ASSUME NEW p, Fit(p), NEW ids \in SUBSET Fields, NEW by \in {"batch", "direct", "apply"},
         NEW q, q = Failed(p, by, ids)
  PROVE  /\ Fit(q) /\ q.values = p.values /\ q.loaded = p.loaded /\ q.focus = p.focus /\ q.ready = p.ready
         /\ q.lane = p.lane /\ q.sending = p.sending /\ q.errs = p.errs /\ q.paused = p.paused
         /\ \A f \in Fields : f \in q.batch.ids <=> f \in p.batch.ids \/ (by = "batch" /\ f \in ids)
         /\ \A f \in Fields : f \in q.heavy <=> f \in p.heavy \/ (by = "apply" /\ f \in ids /\ p.values[f] # p.loaded[f])
<1>0. PageShape(p) /\ p.batch \in BatchState /\ p.retry \in SUBSET Fields /\ p.heavy \in SUBSET Fields
  BY DEF Fit, PageOK
<1>1. /\ PageShape(q) /\ q.values = p.values /\ q.loaded = p.loaded /\ q.focus = p.focus /\ q.ready = p.ready
      /\ q.lane = p.lane /\ q.sending = p.sending /\ q.errs = p.errs /\ q.paused = p.paused /\ q.wx = p.wx
  BY <1>0 DEF Failed, BatchFails, PageShape
<1>2. /\ q.batch = IF by = "batch" THEN [p.batch EXCEPT !.ids = @ \cup ids, !.timer = FALSE, !.kind = "error", !.saving = {}]
                   ELSE p.batch
      /\ q.heavy = IF by = "apply" THEN p.heavy \cup {f \in ids : p.values[f] # p.loaded[f]} ELSE p.heavy
      /\ q.retry = IF by = "direct" THEN ids ELSE p.retry
  <2>1. CASE by = "batch"
    <3>1. q = BatchFails(p, ids)
      BY <2>1 DEF Failed
    <3>2. q.batch = [p.batch EXCEPT !.ids = @ \cup ids, !.timer = FALSE, !.kind = "error", !.saving = {}]
      BY <3>1, <1>0 DEF BatchFails, PageShape
    <3>3. q.heavy = p.heavy /\ q.retry = p.retry
      BY <3>1, <1>0 DEF BatchFails, PageShape
    <3> QED BY <2>1, <3>2, <3>3
  <2>2. CASE by = "direct"
    BY <1>0, <2>2 DEF Failed, PageShape
  <2>3. CASE by = "apply"
    BY ZenonT(60), <1>0, <2>3 DEF Failed, PageShape
  <2> QED BY <2>1, <2>2, <2>3
<1>3. /\ q.batch \in BatchState
      /\ q.batch.ids = IF by = "batch" THEN p.batch.ids \cup ids ELSE p.batch.ids
      /\ q.batch.kind = IF by = "batch" THEN "error" ELSE p.batch.kind
  <2>1. CASE by = "batch"
    <3>1. q.batch = [p.batch EXCEPT !.ids = @ \cup ids, !.timer = FALSE, !.kind = "error", !.saving = {}]
      BY <1>2, <2>1
    <3>2. p.batch \in BatchState
      BY <1>0
    <3>3. q.batch \in BatchState
      <4> DEFINE all == p.batch.ids \cup ids
      <4>1. q.batch = [p.batch EXCEPT !.ids = all, !.timer = FALSE, !.kind = "error", !.saving = {}]
        BY <3>1
      <4>2. all \in SUBSET Fields
        BY <3>2 DEF BatchState
      <4> HIDE DEF all
      <4> QED BY ONLY <3>2, <4>1, <4>2 DEF BatchState, BatchKind
    <3>4. q.batch.ids = p.batch.ids \cup ids /\ q.batch.kind = "error"
      BY <3>1, <3>2 DEF BatchState
    <3> QED BY <2>1, <3>3, <3>4
  <2>2. CASE by # "batch"
    BY <1>0, <1>2, <2>2
  <2> QED BY <2>1, <2>2
<1>4. PageOK(q)
  BY <1>0, <1>1, <1>2, <1>3 DEF Fit, PageOK
<1>5. \A f \in Fields : SavesOf(q, f) = SavesOf(p, f) /\ \A v : LastSent(p, f, v) <=> LastSent(q, f, v)
  BY <1>1, SavesSame
<1>6. RequestsOK(q) /\ MarksRight(q) /\ EntriesRight(q)
  BY <1>1, <1>5 DEF Fit, RequestsOK, MarksRight, EntriesRight
<1>7. BatchShown(q)
  BY <1>1, <1>3 DEF Fit, BatchShown
<1>9. \A f \in Fields : f \in q.batch.ids <=> f \in p.batch.ids \/ (by = "batch" /\ f \in ids)
  BY <1>3
<1>8. \A f \in Fields : f \in q.heavy <=> f \in p.heavy \/ (by = "apply" /\ f \in ids /\ p.values[f] # p.loaded[f])
  BY <1>2
<1> QED BY <1>1, <1>3, <1>4, <1>6, <1>7, <1>8, <1>9 DEF Fit

\* What a save does: it is in the lane and known, or refused at once and back where it was.
LEMMA SaveGoes ==
  ASSUME NEW p, Fit(p), NEW ids \in SUBSET Fields, NEW by \in {"batch", "direct", "apply"},
         NEW q, q = SaveIds(p, ids, by)
  PROVE  /\ Fit(q) /\ q.values = p.values /\ q.loaded = p.loaded /\ q.focus = p.focus /\ q.ready = p.ready
         /\ \A f \in Fields \ ids, v \in Values \cup {Nothing} : Owed(p, v, f) => Owed(q, v, f)
         /\ \A f \in ids, v \in Values :
              /\ p.focus # f => p.values[f] = v
              /\ ~p.paused \/ by = "batch" \/ v # p.loaded[f] \/ f \in p.batch.ids \cup p.heavy \/ SavesOf(p, f) # {}
              => Owed(q, v, f)
<1> DEFINE job == SaveJob(p, ids, by)
<1>0. p.paused \in BOOLEAN /\ PageShape(p) /\ p.lane \in Seq(Request) /\ p.values \in Settings
  BY DEF Fit, PageOK
<1>j. /\ job \in SaveRequest /\ job \in Request /\ job.kind = "save" /\ job.at = "new" /\ DOMAIN job.sent = ids
      /\ \A f \in ids : job.sent[f] = p.values[f] /\ job.sent[f] \in Values
  BY <1>0 DEF SaveJob, SaveRequest, Request, SentPart, At, Copy, Settings
<1>1. CASE ~p.paused
  <2>1. /\ q = [p EXCEPT !.sending = q.sending, !.lane = Append(p.lane, job)]
        /\ q.sending = [f \in Fields |-> IF f \notin ids THEN p.sending[f] ELSE job.sent[f]]
    BY SMTT(60), <1>0, <1>1 DEF SaveIds, PageShape
  <2> HIDE DEF job
  <2>2. /\ q.values = p.values /\ q.loaded = p.loaded /\ q.focus = p.focus /\ q.ready = p.ready
        /\ q.batch = p.batch /\ q.heavy = p.heavy /\ q.errs = p.errs /\ q.lane = Append(p.lane, job)
    BY ZenonT(60), <2>1, <1>0 DEF PageShape
  <2>3. PageOK(q)
    <3>1. PageShape(q) /\ q.retry = p.retry /\ q.wx = p.wx /\ q.paused = p.paused
      BY ZenonT(60), <2>1, <1>0 DEF PageShape
    <3>2. q.sending \in Sending
      BY <2>1, <1>j DEF Fit, PageOK, Sending
    <3>3. q.lane \in Seq(Request)
      BY <2>2, <1>0, <1>j
    <3> QED BY <2>2, <3>1, <3>2, <3>3 DEF Fit, PageOK
  <2>4. MarksRight(q) /\ BatchShown(q)
    BY <2>2 DEF Fit, MarksRight, BatchShown
  <2>5. RequestsOK(q)
    <3>1. RequestOK(job)
      BY <1>j DEF RequestOK
    <3>2. \A i \in DOMAIN q.lane : q.lane[i] = job \/ (i \in DOMAIN p.lane /\ q.lane[i] = p.lane[i])
      BY <1>0, <2>2, <1>j
    <3> QED BY <3>1, <3>2 DEF Fit, RequestsOK
  <2>6. \A f \in Fields \ ids : SavesOf(q, f) = SavesOf(p, f) /\ \A v : LastSent(p, f, v) => LastSent(q, f, v)
    BY SMTT(60), <1>0, <1>j, <2>2, SavesJoin
  <2>7. \A f \in ids : SavesOf(q, f) # {} /\ LastSent(q, f, job.sent[f])
    BY <1>0, <1>j, <2>2, SavesJoin
  <2>8. EntriesRight(q)
    BY ZenonT(60), <2>1, <2>6, <2>7 DEF Fit, EntriesRight
  <2>9. \A f \in Fields \ ids, v \in Values \cup {Nothing} : Owed(p, v, f) => Owed(q, v, f)
    BY ZenonT(60), <2>1, <2>2, <2>6 DEF Owed
  <2>10. ASSUME NEW f \in ids, NEW v \in Values, p.focus # f => p.values[f] = v PROVE Owed(q, v, f)
    <3>1. q.sending[f] = job.sent[f] /\ job.sent[f] = p.values[f]
      BY <2>1, <1>j
    <3> QED BY <2>2, <2>10, <3>1 DEF Owed
  <2> QED BY <2>2, <2>3, <2>4, <2>5, <2>8, <2>9, <2>10 DEF Fit
<1>2. CASE p.paused
  <2> DEFINE s == [p EXCEPT !.sending = [f \in Fields |-> IF f \notin ids THEN p.sending[f] ELSE Nothing]]
             t == Flagged(s, ids)
  <2>1. q = Failed(t, by, ids)
    BY <1>0, <1>2 DEF SaveIds, PageShape
  <2> DEFINE sending == [f \in Fields |-> IF f \notin ids THEN p.sending[f] ELSE Nothing]
             errs == p.errs \cup ids
             u == [p EXCEPT !.sending = sending, !.errs = errs]
  <2>3. t = PaintRows(u)
    <3>1. t = PaintRows([s EXCEPT !.errs = @ \cup ids])
      BY DEF Flagged
    <3>2. s.errs = p.errs
      BY <1>0 DEF PageShape
    <3>3. [s EXCEPT !.errs = @ \cup ids] = [s EXCEPT !.errs = errs]
      BY <3>2
    <3>4. [s EXCEPT !.errs = errs] = u
      <4>1. s = [p EXCEPT !.sending = sending] /\ u = [p EXCEPT !.sending = sending, !.errs = errs]
        OBVIOUS
      <4> HIDE DEF s, u, sending, errs
      <4> QED BY ONLY <4>1, <1>0 DEF PageShape
    <3> QED BY <3>1, <3>3, <3>4
  <2>4. /\ u.values = p.values /\ u.loaded = p.loaded /\ u.focus = p.focus /\ u.ready = p.ready
        /\ u.batch = p.batch /\ u.heavy = p.heavy /\ u.lane = p.lane /\ u.sending = sending /\ u.errs = errs
        /\ PageShape(u) /\ u.retry = p.retry /\ u.wx = p.wx /\ u.paused = p.paused
    <3>1. u = [p EXCEPT !.sending = sending, !.errs = errs]
      OBVIOUS
    <3> HIDE DEF u, sending, errs
    <3> QED BY ONLY <3>1, <1>0 DEF PageShape
  <2> HIDE DEF u, s, t
  <2>2. /\ u.errs = p.errs \cup ids
        /\ u.sending = [f \in Fields |-> IF f \notin ids THEN p.sending[f] ELSE Nothing]
    BY <2>4
  <2> HIDE DEF sending, errs
  <2>5. PageOK(u)
    <3>2. u.sending \in Sending /\ u.errs \in SUBSET Fields
      BY <2>2 DEF Fit, PageOK, Sending
    <3> QED BY <2>4, <3>2 DEF Fit, PageOK
  <2>6. \A f \in Fields : SavesOf(u, f) = SavesOf(p, f) /\ \A v : LastSent(p, f, v) <=> LastSent(u, f, v)
    BY <2>4, SavesSame
  <2>7. RequestsOK(u) /\ BatchShown(u) /\ EntriesRight(u)
    BY <2>2, <2>4, <2>6 DEF Fit, RequestsOK, BatchShown, EntriesRight
  <2>8. /\ Fit(t) /\ t.errs = {f \in p.errs \cup ids : p.values[f] # p.loaded[f]}
        /\ t = [u EXCEPT !.errs = t.errs] /\ \A f \in Fields : SavesOf(t, f) = SavesOf(p, f)
    <3>1. /\ Fit(t) /\ t.errs = {f \in u.errs : u.values[f] # u.loaded[f]} /\ t = [u EXCEPT !.errs = t.errs]
          /\ \A f \in Fields : SavesOf(t, f) = SavesOf(u, f)
      BY <2>3, <2>5, <2>7, Painted
    <3>2. t.errs = {f \in p.errs \cup ids : p.values[f] # p.loaded[f]}
      BY <3>1, <2>2, <2>4
    <3> QED BY <3>1, <3>2, <2>6
  <2>9. /\ t.values = p.values /\ t.loaded = p.loaded /\ t.focus = p.focus /\ t.ready = p.ready
        /\ t.batch = p.batch /\ t.heavy = p.heavy /\ t.lane = p.lane /\ t.sending = u.sending
    BY <2>8, <2>4, <2>5 DEF PageOK, PageShape
  <2>10. /\ Fit(q) /\ q.values = t.values /\ q.loaded = t.loaded /\ q.focus = t.focus /\ q.ready = t.ready
         /\ q.lane = t.lane /\ q.sending = t.sending /\ q.errs = t.errs
         /\ \A f \in Fields : f \in q.batch.ids <=> f \in t.batch.ids \/ (by = "batch" /\ f \in ids)
         /\ \A f \in Fields : f \in q.heavy <=> f \in t.heavy \/ (by = "apply" /\ f \in ids /\ t.values[f] # t.loaded[f])
    <3>1. Fit(t)
      BY <2>8
    <3> QED BY <2>1, <3>1, SaveFails
  <2>11. /\ q.values = p.values /\ q.loaded = p.loaded /\ q.focus = p.focus /\ q.ready = p.ready
         /\ q.lane = p.lane /\ q.sending = u.sending /\ q.errs = t.errs
         /\ \A f \in Fields : f \in q.batch.ids <=> f \in p.batch.ids \/ (by = "batch" /\ f \in ids)
         /\ \A f \in Fields : f \in q.heavy <=> f \in p.heavy \/ (by = "apply" /\ f \in ids /\ p.values[f] # p.loaded[f])
    BY <2>9, <2>10
  <2>13. \A f \in Fields : SavesOf(q, f) = SavesOf(p, f)
    BY <2>11, SavesSame
  <2>15. \A f \in Fields \ ids, v \in Values \cup {Nothing} : Owed(p, v, f) => Owed(q, v, f)
    <3> SUFFICES ASSUME NEW f \in Fields \ ids, NEW v \in Values \cup {Nothing}, Owed(p, v, f), v # Nothing, p.focus # f
                 PROVE  Owed(q, v, f)
      BY <2>11 DEF Owed
    <3>1. q.values[f] = v /\ q.sending[f] = p.sending[f] /\ SavesOf(q, f) = SavesOf(p, f)
      BY <2>2, <2>11, <2>13 DEF Owed
    <3>2. f \in p.errs => f \in q.errs
      BY <2>8, <2>11 DEF Fit, MarksRight
    <3>3. f \in p.batch.ids \cup p.heavy => f \in q.batch.ids \cup q.heavy
      BY <2>11
    <3> QED BY <3>1, <3>2, <3>3 DEF Owed
  <2>16. ASSUME NEW f \in ids, NEW v \in Values, p.focus # f => p.values[f] = v,
                by = "batch" \/ v # p.loaded[f] \/ f \in p.batch.ids \cup p.heavy \/ SavesOf(p, f) # {}
         PROVE  Owed(q, v, f)
    <3> SUFFICES ASSUME v # Nothing, p.focus # f PROVE Owed(q, v, f)
      BY <2>11 DEF Owed
    <3>0. u.sending[f] = Nothing
      BY <2>2
    <3>1. q.values[f] = v /\ q.sending[f] = Nothing
      BY <2>11, <2>16, <3>0
    <3>2. CASE by = "batch" \/ f \in p.batch.ids \cup p.heavy
      <4>1. f \in q.batch.ids \cup q.heavy
        BY <2>11, <3>2
      <4> QED BY <3>1, <4>1 DEF Owed
    <3>3. CASE v # p.loaded[f]
      <4>1. f \in q.errs
        BY <2>8, <2>11, <2>16, <3>3
      <4> QED BY <3>1, <4>1 DEF Owed
    <3>4. CASE SavesOf(p, f) # {}
      BY <2>13, <3>1, <3>4 DEF Owed
    <3> QED BY <2>16, <3>2, <3>3, <3>4
  <2> QED BY <1>2, <2>10, <2>11, <2>15, <2>16
<1> QED BY <1>0, <1>1, <1>2

-----------------------------------------------------------------------------
\* What a function of the page leaves as it was.

\* Every entry that was there is there.
Keeps(p, q) ==
  /\ Fit(q) /\ q.values = p.values /\ q.loaded = p.loaded /\ q.focus = p.focus /\ q.ready = p.ready
  /\ \A f \in Fields, v \in Values \cup {Nothing} : Owed(p, v, f) => Owed(q, v, f)

LEMMA KeepsOn == ASSUME NEW p, NEW q, NEW r, Keeps(p, q), Keeps(q, r) PROVE Keeps(p, r)
BY DEF Keeps

LEMMA Alike ==
  ASSUME NEW p, Fit(p), NEW q, PageOK(q), BatchShown(q), q.values = p.values, q.loaded = p.loaded, q.sending = p.sending,
         q.focus = p.focus, q.lane = p.lane, q.errs = p.errs
  PROVE  /\ Fit(q)
         /\ \A f \in Fields, v \in Values \cup {Nothing} :
              Owed(p, v, f) /\ (f \in p.batch.ids \cup p.heavy => f \in q.batch.ids \cup q.heavy) => Owed(q, v, f)
<1>1. \A f \in Fields : SavesOf(q, f) = SavesOf(p, f) /\ \A v : LastSent(p, f, v) <=> LastSent(q, f, v)
  BY SavesSame
<1>2. RequestsOK(q) /\ MarksRight(q) /\ EntriesRight(q)
  BY <1>1 DEF Fit, RequestsOK, MarksRight, EntriesRight
<1>3. ASSUME NEW f \in Fields, NEW v \in Values \cup {Nothing}, Owed(p, v, f),
             f \in p.batch.ids \cup p.heavy => f \in q.batch.ids \cup q.heavy
      PROVE  Owed(q, v, f)
  BY <1>1, <1>3 DEF Owed
<1> QED BY <1>2, <1>3 DEF Fit

LEMMA SavesNow ==
  ASSUME NEW p, Fit(p), NEW ids \in SUBSET Fields, NEW by \in {"direct", "apply"},
         NEW q, q = SaveNow(p, ids, by)
  PROVE  /\ Fit(q) /\ q.values = p.values /\ q.loaded = p.loaded /\ q.focus = p.focus /\ q.ready = p.ready
         /\ \A f \in Fields \ ids, v \in Values \cup {Nothing} : Owed(p, v, f) => Owed(q, v, f)
         /\ \A f \in ids, v \in Values :
              /\ p.focus # f => p.values[f] = v
              /\ ~p.paused \/ v # p.loaded[f] \/ f \in p.batch.ids \cup p.heavy \/ SavesOf(p, f) # {}
              => Owed(q, v, f)
<1> DEFINE s == [p EXCEPT !.inflight = @ \cup ids, !.retry = {}]
<1>1. q = SaveIds(s, ids, by)
  BY DEF SaveNow
<1>0. PageShape(p)
  BY DEF Fit, PageOK
<1>2. /\ PageShape(s) /\ s.values = p.values /\ s.loaded = p.loaded /\ s.focus = p.focus /\ s.ready = p.ready
      /\ s.sending = p.sending /\ s.batch = p.batch /\ s.heavy = p.heavy /\ s.errs = p.errs /\ s.lane = p.lane
      /\ s.wx = p.wx /\ s.paused = p.paused /\ s.retry = {}
  <2> DEFINE x == p.inflight \cup ids
  <2>1. s = [p EXCEPT !.inflight = x, !.retry = {}]
    OBVIOUS
  <2> HIDE DEF x, s
  <2> QED BY <2>1, <1>0 DEF PageShape
<1> HIDE DEF s
<1>3. PageOK(s) /\ BatchShown(s)
  BY <1>2 DEF Fit, PageOK, BatchShown
<1>4. Fit(s) /\ \A f \in Fields, v \in Values \cup {Nothing} : Owed(p, v, f) => Owed(s, v, f)
  BY <1>2, <1>3, Alike
<1>5. /\ Fit(q) /\ q.values = s.values /\ q.loaded = s.loaded /\ q.focus = s.focus /\ q.ready = s.ready
      /\ \A f \in Fields \ ids, v \in Values \cup {Nothing} : Owed(s, v, f) => Owed(q, v, f)
      /\ \A f \in ids, v \in Values :
           /\ s.focus # f => s.values[f] = v
           /\ ~s.paused \/ v # s.loaded[f] \/ f \in s.batch.ids \cup s.heavy \/ SavesOf(s, f) # {}
           => Owed(q, v, f)
  BY <1>1, <1>4, SaveGoes
<1>6. \A f \in Fields : SavesOf(s, f) = SavesOf(p, f)
  BY <1>2, SavesSame
<1> QED BY <1>2, <1>4, <1>5, <1>6

\* A batch taken is a save on its way, or waits again.
LEMMA BatchGoes ==
  ASSUME NEW p, Fit(p), NEW q, q = TakeBatch(p)
  PROVE  Keeps(p, q)
<1>1. CASE p.batch.ids = {}
  BY <1>1 DEF TakeBatch, Keeps
<1>2. CASE p.batch.ids # {}
  <2> DEFINE ids == p.batch.ids
             s == [p EXCEPT !.batch.ids = {}, !.batch.saving = ids, !.batch.kind = "saving"]
  <2>0. PageShape(p) /\ p.batch \in BatchState /\ ids \in SUBSET Fields
    BY DEF Fit, PageOK, BatchState
  <2>1. q = SaveIds(s, ids, "batch")
    BY <1>2 DEF TakeBatch
  <2>2. /\ PageShape(s) /\ s.values = p.values /\ s.loaded = p.loaded /\ s.focus = p.focus /\ s.ready = p.ready
        /\ s.sending = p.sending /\ s.heavy = p.heavy /\ s.errs = p.errs /\ s.lane = p.lane
        /\ s.wx = p.wx /\ s.paused = p.paused /\ s.retry = p.retry
        /\ s.batch = [p.batch EXCEPT !.ids = {}, !.saving = ids, !.kind = "saving"]
    <3> DEFINE b == [p.batch EXCEPT !.ids = {}, !.saving = ids, !.kind = "saving"]
    <3>1. s = [p EXCEPT !.batch = b]
      BY <2>0 DEF PageShape
    <3> HIDE DEF s, b
    <3>2. s.batch = b
      BY <3>1, <2>0 DEF PageShape
    <3>3. /\ PageShape(s) /\ s.values = p.values /\ s.loaded = p.loaded /\ s.focus = p.focus /\ s.ready = p.ready
          /\ s.sending = p.sending /\ s.heavy = p.heavy /\ s.errs = p.errs /\ s.lane = p.lane
          /\ s.wx = p.wx /\ s.paused = p.paused /\ s.retry = p.retry
      BY <3>1, <2>0 DEF PageShape
    <3> QED BY <3>2, <3>3 DEF b
  <2>3. s.batch \in BatchState /\ s.batch.ids = {}
    <3> HIDE DEF s, ids
    <3> QED BY <2>0, <2>2 DEF BatchState, BatchKind
  <2> HIDE DEF s
  <2>4. PageOK(s) /\ BatchShown(s)
    BY <2>2, <2>3 DEF Fit, PageOK, BatchShown
  <2>5. /\ Fit(s)
        /\ \A f \in Fields \ ids, v \in Values \cup {Nothing} : Owed(p, v, f) => Owed(s, v, f)
    BY <2>2, <2>4, Alike
  <2> HIDE DEF ids
  <2>6. /\ Fit(q) /\ q.values = s.values /\ q.loaded = s.loaded /\ q.focus = s.focus /\ q.ready = s.ready
        /\ \A f \in Fields \ ids, v \in Values \cup {Nothing} : Owed(s, v, f) => Owed(q, v, f)
        /\ \A f \in ids, v \in Values : (s.focus # f => s.values[f] = v) => Owed(q, v, f)
    BY <2>0, <2>1, <2>5, SaveGoes
  <2>7. ASSUME NEW f \in ids, NEW v \in Values \cup {Nothing}, Owed(p, v, f)
        PROVE  Owed(q, v, f)
    BY <2>2, <2>6, <2>7 DEF Owed
  <2> QED BY <2>2, <2>5, <2>6, <2>7 DEF Keeps
<1> QED BY <1>1, <1>2

\* A change of the batch's timer, waits or saving part.
LEMMA BatchTouched ==
  ASSUME NEW p, Fit(p), NEW b \in BatchState, b.ids = p.batch.ids, b.ids # {} => b.kind \in {"pending", "error"},
         NEW q, q = [p EXCEPT !.batch = b]
  PROVE  Keeps(p, q)
<1>1. /\ PageShape(q) /\ q.values = p.values /\ q.loaded = p.loaded /\ q.focus = p.focus /\ q.ready = p.ready
      /\ q.sending = p.sending /\ q.heavy = p.heavy /\ q.errs = p.errs /\ q.lane = p.lane
      /\ q.wx = p.wx /\ q.paused = p.paused /\ q.retry = p.retry /\ q.batch = b
  BY DEF Fit, PageOK, PageShape
<1>2. PageOK(q) /\ BatchShown(q)
  BY <1>1 DEF Fit, PageOK, BatchShown
<1> QED BY <1>1, <1>2, Alike DEF Keeps

LEMMA Flushes ==
  ASSUME NEW p, Fit(p), NEW q, q = Flush(p)
  PROVE  Keeps(p, q)
<1> DEFINE b == [p.batch EXCEPT !.timer = FALSE]
           s == [p EXCEPT !.batch.timer = FALSE]
<1>0. PageShape(p) /\ p.batch \in BatchState /\ BatchShown(p)
  BY DEF Fit, PageOK
<1>1. b \in BatchState /\ b.ids = p.batch.ids /\ b.kind = p.batch.kind /\ b.saving = p.batch.saving /\ s = [p EXCEPT !.batch = b]
  BY <1>0 DEF PageShape, BatchState
<1> HIDE DEF b
<1>2. Keeps(p, s)
  BY <1>0, <1>1, BatchTouched DEF BatchShown
<1>3. CASE p.batch.saving # {}
  <2> DEFINE c == [s.batch EXCEPT !.waits = @ + 1]
  <2>1. PageShape(s) /\ s.batch \in BatchState /\ BatchShown(s) /\ Fit(s)
    BY <1>2 DEF Keeps, Fit, PageOK
  <2>2. q = [s EXCEPT !.batch = c]
    BY <1>3, <2>1 DEF Flush, PageShape
  <2> HIDE DEF s
  <2>3. c \in BatchState /\ c.ids = s.batch.ids /\ c.kind = s.batch.kind
    BY <2>1 DEF BatchState
  <2> HIDE DEF c
  <2>4. Keeps(s, q)
    BY <2>1, <2>2, <2>3, BatchTouched DEF BatchShown
  <2> QED BY <1>2, <2>4, KeepsOn
<1>4. CASE p.batch.saving = {}
  <2>1. q = TakeBatch(s)
    BY <1>4 DEF Flush
  <2> HIDE DEF s
  <2>2. Fit(s)
    BY <1>2 DEF Keeps
  <2>3. Keeps(s, q)
    BY <2>1, <2>2, BatchGoes
  <2> QED BY <1>2, <2>3, KeepsOn
<1> QED BY <1>3, <1>4

LEMMA Resumes ==
  ASSUME NEW p, Fit(p), NEW q, q = Resumed(p)
  PROVE  Keeps(p, q)
<1>1. CASE p.batch.waits = 0
  BY <1>1 DEF Resumed, Keeps
<1>2. CASE p.batch.waits # 0
  <2>1. PICK n \in Int : q = TakeBatch([p EXCEPT !.batch.waits = n])
    <3>1. p.batch.waits \in Int
      BY DEF Fit, PageOK, BatchState
    <3>2. \/ q = TakeBatch([p EXCEPT !.batch.waits = 0])
          \/ q = TakeBatch([p EXCEPT !.batch.waits = p.batch.waits - 1])
      BY <1>2 DEF Resumed
    <3>3. 0 \in Int /\ p.batch.waits - 1 \in Int
      BY <3>1
    <3> QED BY <3>2, <3>3, Zenon
  <2> DEFINE c == [p.batch EXCEPT !.waits = n]
             s == [p EXCEPT !.batch.waits = n]
  <2>2. PageShape(p) /\ p.batch \in BatchState /\ BatchShown(p)
    BY DEF Fit, PageOK
  <2>3. c \in BatchState /\ c.ids = p.batch.ids /\ c.kind = p.batch.kind /\ s = [p EXCEPT !.batch = c]
    BY <2>2 DEF PageShape, BatchState
  <2> HIDE DEF c
  <2>4. Keeps(p, s)
    BY <2>2, <2>3, BatchTouched DEF BatchShown
  <2>5. Fit(s)
    BY <2>4 DEF Keeps
  <2>6. q = TakeBatch(s)
    BY <2>1
  <2> HIDE DEF s
  <2>7. Keeps(s, q)
    BY <2>5, <2>6, BatchGoes
  <2> QED BY <2>4, <2>7, KeepsOn
<1> QED BY <1>1, <1>2

-----------------------------------------------------------------------------
\* What the operator enters, takes back and waits for.

\* Undo and Cancel: what is taken back shows what the radio will have.
LEMMA Reverts ==
  ASSUME NEW p, Fit(p), NEW ids \in SUBSET Fields, NEW q, q = Revert(p, ids)
  PROVE  /\ Fit(q) /\ q.focus = p.focus /\ q.ready = p.ready
         /\ \A f \in Fields \ ids, v \in Values \cup {Nothing} : Owed(p, v, f) => Owed(q, v, f)
         /\ \A f \in ids : Owed(q, p.sending[f], f)
<1> DEFINE display == [f \in Fields |-> IF f \in ids THEN Baseline(p, f) ELSE p.values[f]]
           s == [p EXCEPT !.values = display]
<1>0. PageShape(p) /\ p.values \in Settings /\ p.loaded \in Settings /\ p.sending \in Sending
  BY DEF Fit, PageOK
<1>1. q = PaintRows(s)
  BY DEF Revert
<1>2. display \in Settings
  <2>1. \A f \in Fields : Baseline(p, f) \in Values
    BY <1>0 DEF Baseline, Settings, Sending
  <2> QED BY <1>0, <2>1 DEF Settings
<1>3. /\ \A f \in Fields \ ids : display[f] = p.values[f]
      /\ \A f \in ids : p.sending[f] # Nothing => display[f] = p.sending[f]
  BY DEF Baseline
<1> HIDE DEF display
<1>4. /\ PageShape(s) /\ s.values = display /\ s.loaded = p.loaded /\ s.focus = p.focus /\ s.ready = p.ready
      /\ s.sending = p.sending /\ s.heavy = p.heavy /\ s.errs = p.errs /\ s.lane = p.lane
      /\ s.wx = p.wx /\ s.paused = p.paused /\ s.retry = p.retry /\ s.batch = p.batch
  BY <1>0 DEF PageShape
<1> HIDE DEF s
<1>5. PageOK(s) /\ BatchShown(s) /\ RequestsOK(s)
  BY <1>2, <1>4 DEF Fit, PageOK, BatchShown, RequestsOK
<1>6. \A f \in Fields : SavesOf(s, f) = SavesOf(p, f) /\ \A v : LastSent(p, f, v) <=> LastSent(s, f, v)
  BY <1>4, SavesSame
<1>7. EntriesRight(s)
  BY <1>4, <1>6 DEF Fit, EntriesRight
<1>8. /\ Fit(q) /\ q.errs = {f \in s.errs : s.values[f] # s.loaded[f]}
      /\ q = [s EXCEPT !.errs = q.errs] /\ \A f \in Fields : SavesOf(q, f) = SavesOf(s, f)
  BY <1>1, <1>5, <1>7, Painted
<1>9. /\ q.values = display /\ q.focus = p.focus /\ q.ready = p.ready
      /\ q.batch = p.batch /\ q.heavy = p.heavy /\ q.sending = p.sending
  BY <1>4, <1>8 DEF PageShape
<1>10. ASSUME NEW f \in Fields \ ids, NEW v \in Values \cup {Nothing}, Owed(p, v, f)
       PROVE  Owed(q, v, f)
  <2> SUFFICES ASSUME v # Nothing, p.focus # f PROVE Owed(q, v, f)
    BY <1>9 DEF Owed
  <2>1. f \in p.errs => f \in q.errs
    <3>1. f \in p.errs => p.values[f] # p.loaded[f]
      BY DEF Fit, MarksRight
    <3> QED BY <3>1, <1>3, <1>4, <1>8
  <2> QED BY <1>3, <1>6, <1>8, <1>9, <1>10, <2>1 DEF Owed
<1>11. \A f \in ids : Owed(q, p.sending[f], f)
  BY <1>3, <1>9 DEF Owed
<1> QED BY <1>8, <1>9, <1>10, <1>11

\* A scan field's change: into the countdown, or out of it.
LEMMA BatchTakes ==
  ASSUME NEW p, Fit(p), NEW f \in Fields, NEW q, q \in {Change(p, f), Drop(p, f)}
  PROVE  /\ Fit(q) /\ q.values = p.values /\ q.loaded = p.loaded /\ q.focus = p.focus /\ q.ready = p.ready
         /\ q.sending = p.sending /\ q.heavy = p.heavy
         /\ q = Change(p, f) => f \in q.batch.ids
         /\ \A g \in Fields \ {f}, v \in Values \cup {Nothing} : Owed(p, v, g) => Owed(q, v, g)
<1>0. PageShape(p) /\ p.batch \in BatchState /\ BatchShown(p) /\ PageOK(p)
  BY DEF Fit, PageOK
<1>1. \E b \in BatchState : /\ q = [p EXCEPT !.batch = b] /\ (b.ids # {} => b.kind \in {"pending", "error"})
                            /\ \A g \in Fields \ {f} : g \in b.ids <=> g \in p.batch.ids
                            /\ q = Change(p, f) => f \in b.ids
  <2>1. CASE q = Change(p, f)
    <3> DEFINE b == [p.batch EXCEPT !.ids = @ \cup {f}, !.timer = TRUE, !.kind = "pending"]
    <3>1. q = [p EXCEPT !.batch = b]
      BY <1>0, <2>1 DEF Change, PageShape
    <3>2. b \in BatchState
      BY <1>0 DEF BatchState, BatchKind
    <3>3. b.ids = p.batch.ids \cup {f} /\ b.kind = "pending"
      BY <1>0 DEF BatchState
    <3> QED BY <3>1, <3>2, <3>3
  <2>2. CASE q # Change(p, f) /\ q = Drop(p, f) /\ f \notin p.batch.ids
    <3>1. q = p
      BY <2>2 DEF Drop
    <3>2. q = [p EXCEPT !.batch = p.batch]
      BY <3>1, <1>0 DEF PageShape
    <3> QED BY <3>2, <2>2, <1>0 DEF BatchShown
  <2>3. CASE q # Change(p, f) /\ q = Drop(p, f) /\ p.batch.ids = {f}
    <3> DEFINE display == IF p.batch.saving # {} THEN "saving" ELSE "idle"
               b == [p.batch EXCEPT !.ids = {}, !.timer = FALSE, !.kind = display]
    <3>1. q = [p EXCEPT !.batch.ids = {}, !.batch.timer = FALSE, !.batch.kind = display]
      BY <2>3, Zenon DEF Drop
    <3>2. display \in BatchKind
      BY DEF BatchKind
    <3> HIDE DEF display
    <3>3. q = [p EXCEPT !.batch = b]
      BY <1>0, <3>1 DEF PageShape
    <3>4. b \in BatchState
      BY <1>0, <3>2 DEF BatchState
    <3>5. b.ids = {}
      BY <1>0 DEF BatchState
    <3> QED BY <2>3, <3>3, <3>4, <3>5
  <2>4. CASE q # Change(p, f) /\ q = Drop(p, f) /\ f \in p.batch.ids /\ p.batch.ids # {f}
    <3> DEFINE b == [p.batch EXCEPT !.ids = @ \ {f}]
    <3>1. q = [p EXCEPT !.batch.ids = @ \ {f}]
      BY <2>4 DEF Drop
    <3>2. q = [p EXCEPT !.batch = b]
      BY <1>0, <3>1 DEF PageShape
    <3>3. b \in BatchState
      BY <1>0 DEF BatchState
    <3>4. b.ids = p.batch.ids \ {f} /\ b.kind = p.batch.kind
      BY <1>0 DEF BatchState
    <3> QED BY <1>0, <2>4, <3>2, <3>3, <3>4 DEF BatchShown
  <2> QED BY <2>1, <2>2, <2>3, <2>4
<1>2. PICK b \in BatchState : /\ q = [p EXCEPT !.batch = b] /\ (b.ids # {} => b.kind \in {"pending", "error"})
                              /\ \A g \in Fields \ {f} : g \in b.ids <=> g \in p.batch.ids
                              /\ q = Change(p, f) => f \in b.ids
  BY <1>1
<1>q. q = [p EXCEPT !.batch = b]
  BY <1>2
<1>b. b.ids # {} => b.kind \in {"pending", "error"}
  BY <1>2
<1>3. /\ PageShape(q) /\ q.values = p.values /\ q.loaded = p.loaded /\ q.focus = p.focus /\ q.ready = p.ready
      /\ q.sending = p.sending /\ q.heavy = p.heavy /\ q.errs = p.errs /\ q.lane = p.lane
      /\ q.wx = p.wx /\ q.paused = p.paused /\ q.retry = p.retry /\ q.batch = b
  BY ONLY <1>0, <1>q DEF PageShape
<1>4. PageOK(q) /\ BatchShown(q)
  <2>1. PageOK(q)
    BY ONLY <1>0, <1>3, b \in BatchState DEF PageOK
  <2>2. BatchShown(q)
    BY <1>b, <1>3 DEF BatchShown
  <2> QED BY <2>1, <2>2
<1>5. /\ Fit(q)
      /\ \A g \in Fields, v \in Values \cup {Nothing} :
           Owed(p, v, g) /\ (g \in p.batch.ids \cup p.heavy => g \in q.batch.ids \cup q.heavy) => Owed(q, v, g)
  BY <1>3, <1>4, Alike
<1> QED BY <1>2, <1>3, <1>5

\* The Apply bar takes a field, or lets it go.
LEMMA BarTakes ==
  ASSUME NEW p, Fit(p), NEW h \in SUBSET Fields, NEW q, q = [p EXCEPT !.heavy = h]
  PROVE  /\ Fit(q) /\ q.values = p.values /\ q.loaded = p.loaded /\ q.focus = p.focus /\ q.ready = p.ready
         /\ q.sending = p.sending /\ q.heavy = h /\ q.batch = p.batch /\ q.paused = p.paused
         /\ \A g \in Fields, v \in Values \cup {Nothing} : Owed(p, v, g) /\ (g \in p.heavy => g \in h) => Owed(q, v, g)
<1>0. PageShape(p) /\ BatchShown(p) /\ PageOK(p)
  BY DEF Fit, PageOK
<1>3. /\ PageShape(q) /\ q.values = p.values /\ q.loaded = p.loaded /\ q.focus = p.focus /\ q.ready = p.ready
      /\ q.sending = p.sending /\ q.heavy = h /\ q.errs = p.errs /\ q.lane = p.lane
      /\ q.wx = p.wx /\ q.paused = p.paused /\ q.retry = p.retry /\ q.batch = p.batch
  BY <1>0 DEF PageShape
<1>4. PageOK(q) /\ BatchShown(q)
  BY <1>0, <1>3 DEF PageOK, BatchShown
<1>5. /\ Fit(q)
      /\ \A g \in Fields, v \in Values \cup {Nothing} :
           Owed(p, v, g) /\ (g \in p.batch.ids \cup p.heavy => g \in q.batch.ids \cup q.heavy) => Owed(q, v, g)
  BY <1>3, <1>4, Alike
<1> QED BY <1>3, <1>5

\* What the operator set a field to is asked for where its cost says, refused, or what the radio will have.
LEMMA Commits ==
  ASSUME NEW p, PageOK(p), RequestsOK(p), BatchShown(p), EntriesRight(p), p.focus = Nothing,
         NEW f \in Fields, \A g \in p.errs \ {f} : p.values[g] # p.loaded[g],
         NEW q, q = Commit(p, f)
  PROVE  /\ Fit(q) /\ q.focus = Nothing /\ q.ready = p.ready
         /\ \A g \in Fields \ {f}, v \in Values \cup {Nothing} : Owed(p, v, g) => Owed(q, v, g)
         /\ Owed(q, Due(p, f), f)
<1> DEFINE queued == Cost[f] \in {"scan", "heavy"}
           noChange == queued /\ IsNoOp(p, f)
           err == ~noChange /\ p.values[f] \in Invalid
           errs == IF err THEN p.errs \cup {f} ELSE p.errs \ {f}
           heavy == IF Cost[f] = "scan" THEN p.heavy \ {f} ELSE p.heavy
           s == [p EXCEPT !.errs = errs, !.heavy = heavy]
           t == PaintRows(s)
<1>0. /\ PageShape(p) /\ p.values \in Settings /\ p.sending \in Sending /\ p.errs \in SUBSET Fields
      /\ p.heavy \in SUBSET Fields
  BY DEF PageOK
<1>c. Cost[f] \in {"live", "scan", "heavy"}
  BY AdminAssumption
<1>d. q = CASE (noChange \/ err) /\ Cost[f] = "scan" -> Drop(t, f)
            [] (noChange \/ err) /\ Cost[f] # "scan" -> [t EXCEPT !.heavy = @ \ {f}]
            [] ~noChange /\ ~err /\ Cost[f] = "live" -> SaveNow(t, {f}, "direct")
            [] ~noChange /\ ~err /\ Cost[f] = "scan" -> Change(t, f)
            [] OTHER -> [t EXCEPT !.heavy = @ \cup {f}]
  BY DEF Commit
<1>1. errs \in SUBSET Fields /\ heavy \in SUBSET Fields /\ \A g \in Fields \ {f} : (g \in errs <=> g \in p.errs) /\ (g \in heavy <=> g \in p.heavy)
  BY <1>0
<1> HIDE DEF errs, heavy
<1>2. /\ PageShape(s) /\ s.values = p.values /\ s.loaded = p.loaded /\ s.focus = p.focus /\ s.ready = p.ready
      /\ s.sending = p.sending /\ s.heavy = heavy /\ s.errs = errs /\ s.lane = p.lane
      /\ s.wx = p.wx /\ s.paused = p.paused /\ s.retry = p.retry /\ s.batch = p.batch
  <2>1. s = [p EXCEPT !.errs = errs, !.heavy = heavy]
    OBVIOUS
  <2> HIDE DEF s
  <2> QED BY ONLY <1>0, <2>1 DEF PageShape
<1> HIDE DEF s
<1>3. PageOK(s) /\ BatchShown(s) /\ RequestsOK(s)
  BY <1>1, <1>2 DEF PageOK, BatchShown, RequestsOK
<1>4. \A g \in Fields : SavesOf(s, g) = SavesOf(p, g) /\ \A v : LastSent(p, g, v) <=> LastSent(s, g, v)
  BY <1>2, SavesSame
<1>5. EntriesRight(s)
  BY <1>2, <1>4 DEF EntriesRight
<1>6. /\ Fit(t) /\ t.errs = {g \in s.errs : s.values[g] # s.loaded[g]} /\ t = [s EXCEPT !.errs = t.errs]
      /\ \A g \in Fields : SavesOf(t, g) = SavesOf(s, g)
  BY <1>3, <1>5, Painted
<1> HIDE DEF t
<1>7. /\ t.values = p.values /\ t.loaded = p.loaded /\ t.focus = Nothing /\ t.ready = p.ready /\ t.sending = p.sending
      /\ t.heavy = heavy /\ t.batch = p.batch /\ t.paused = p.paused
  <2>1. t = [s EXCEPT !.errs = t.errs] /\ PageShape(s)
    BY <1>2, <1>6
  <2>2. /\ t.values = s.values /\ t.loaded = s.loaded /\ t.focus = s.focus /\ t.ready = s.ready /\ t.sending = s.sending
        /\ t.heavy = s.heavy /\ t.batch = s.batch /\ t.paused = s.paused
    BY ONLY <2>1 DEF PageShape
  <2> QED BY <2>2, <1>2
<1>8. \A g \in Fields \ {f}, v \in Values \cup {Nothing} : Owed(p, v, g) => Owed(t, v, g)
  <2> SUFFICES ASSUME NEW g \in Fields \ {f}, NEW v \in Values \cup {Nothing}, Owed(p, v, g), v # Nothing
               PROVE  Owed(t, v, g)
    BY DEF Owed
  <2>1. g # Nothing
    BY AdminAssumption
  <2>2. g \in p.errs => g \in t.errs
    BY <1>1, <1>2, <1>6
  <2>3. g \in p.heavy <=> g \in t.heavy
    BY <1>1, <1>7
  <2>4. SavesOf(t, g) = SavesOf(p, g)
    BY <1>4, <1>6
  <2> QED BY <1>7, <2>1, <2>2, <2>3, <2>4 DEF Owed
<1>9. t.heavy \ {f} \in SUBSET Fields /\ t.heavy \cup {f} \in SUBSET Fields /\ t.values[f] = p.values[f] /\ p.values[f] \in Values
  BY <1>0, <1>1, <1>7 DEF Settings
<1>10. CASE noChange \/ err
  <2>1. Due(p, f) = IF noChange THEN p.sending[f] ELSE Nothing
    BY <1>10, <1>c DEF Due
  <2>2. noChange /\ p.sending[f] # Nothing => p.values[f] = p.sending[f]
    BY DEF IsNoOp, Baseline
  <2>3. /\ Fit(q) /\ q.values = t.values /\ q.focus = t.focus /\ q.ready = t.ready /\ q.sending = t.sending
        /\ \A g \in Fields \ {f}, v \in Values \cup {Nothing} : Owed(t, v, g) => Owed(q, v, g)
    <3>1. CASE Cost[f] = "scan"
      <4>1. q \in {Change(t, f), Drop(t, f)}
        BY <1>10, <1>d, <3>1
      <4>2. Fit(t)
        BY <1>6
      <4> QED BY ONLY <4>1, <4>2, f \in Fields, BatchTakes
    <3>2. CASE Cost[f] # "scan"
      <4>1. q = [t EXCEPT !.heavy = t.heavy \ {f}]
        BY <1>10, <1>d, <3>2
      <4>2. Fit(t) /\ t.heavy \ {f} \in SUBSET Fields /\ \A g \in Fields \ {f} : g \in t.heavy => g \in t.heavy \ {f}
        BY <1>6, <1>9
      <4> QED BY ONLY <4>1, <4>2, f \in Fields, BarTakes
    <3> QED BY <3>1, <3>2
  <2> QED BY <1>7, <1>8, <2>1, <2>2, <2>3 DEF Owed
<1>11. CASE ~noChange /\ ~err /\ Cost[f] = "live"
  <2>1. Due(p, f) = IF Moot(p, f) THEN Nothing ELSE p.values[f]
    BY <1>11 DEF Due
  <2>2. q = SaveNow(t, {f}, "direct")
    BY <1>11, <1>d
  <2>3. /\ Fit(q) /\ q.values = t.values /\ q.loaded = t.loaded /\ q.focus = t.focus /\ q.ready = t.ready
        /\ \A g \in Fields \ {f}, v \in Values \cup {Nothing} : Owed(t, v, g) => Owed(q, v, g)
        /\ \A g \in {f}, v \in Values :
              /\ t.focus # g => t.values[g] = v
              /\ ~t.paused \/ v # t.loaded[g] \/ g \in t.batch.ids \cup t.heavy
              => Owed(q, v, g)
    <3>1. Fit(t) /\ {f} \in SUBSET Fields
      BY <1>6
    <3> QED BY ONLY <2>2, <3>1, SavesNow
  <2>4. ~Moot(p, f) => Owed(q, p.values[f], f)
    BY <1>7, <1>9, <2>3 DEF Moot
  <2>5. Owed(q, Nothing, f)
    BY DEF Owed
  <2> QED BY <1>7, <1>8, <2>1, <2>3, <2>4, <2>5
<1>12. CASE ~noChange /\ ~err /\ Cost[f] = "scan"
  <2>1. Due(p, f) = p.values[f]
    BY <1>12 DEF Due
  <2>2. q = Change(t, f)
    BY <1>12, <1>d
  <2>3. /\ Fit(q) /\ q.values = t.values /\ q.focus = t.focus /\ q.ready = t.ready /\ f \in q.batch.ids
        /\ \A g \in Fields \ {f}, v \in Values \cup {Nothing} : Owed(t, v, g) => Owed(q, v, g)
    <3>1. Fit(t) /\ q \in {Change(t, f), Drop(t, f)}
      BY <1>6, <2>2
    <3> QED BY ONLY <2>2, <3>1, f \in Fields, BatchTakes
  <2> QED BY <1>7, <1>8, <2>1, <2>3 DEF Owed
<1>13. CASE ~noChange /\ ~err /\ Cost[f] = "heavy"
  <2>1. Due(p, f) = p.values[f]
    BY <1>13 DEF Due
  <2>2. q = [t EXCEPT !.heavy = t.heavy \cup {f}]
    BY <1>13, <1>d
  <2>3. /\ Fit(q) /\ q.values = t.values /\ q.focus = t.focus /\ q.ready = t.ready /\ f \in q.heavy
        /\ \A g \in Fields \ {f}, v \in Values \cup {Nothing} : Owed(t, v, g) => Owed(q, v, g)
    <3>1. Fit(t) /\ t.heavy \cup {f} \in SUBSET Fields /\ \A g \in Fields : g \in t.heavy => g \in t.heavy \cup {f}
      BY <1>6, <1>9
    <3> QED BY ONLY <2>2, <3>1, f \in Fields, BarTakes
  <2> QED BY <1>7, <1>8, <2>1, <2>3 DEF Owed
<1> QED BY <1>c, <1>10, <1>11, <1>12, <1>13

-----------------------------------------------------------------------------
\* What touches the lane, the weather channel or the power keys.

\* Of what is owed and told, nothing changed but the lane.
Elsewhere(p, q) ==
  /\ PageShape(q) /\ q.values = p.values /\ q.loaded = p.loaded /\ q.sending = p.sending /\ q.focus = p.focus
  /\ q.ready = p.ready /\ q.errs = p.errs /\ q.heavy = p.heavy /\ q.batch = p.batch /\ q.retry = p.retry
  /\ q.wx \in WeatherState /\ q.paused \in BOOLEAN

LEMMA Apart ==
  ASSUME NEW p, Fit(p), NEW q, Elsewhere(p, q), q.lane \in Seq(Request), RequestsOK(q),
         \A f \in Fields : (SavesOf(q, f) = {} <=> SavesOf(p, f) = {}) /\ \A v : LastSent(p, f, v) => LastSent(q, f, v)
  PROVE  Keeps(p, q)
<1>1. PageOK(q)
  BY DEF Elsewhere, Fit, PageOK
<1>2. MarksRight(q) /\ BatchShown(q) /\ EntriesRight(q)
  BY DEF Elsewhere, Fit, MarksRight, BatchShown, EntriesRight
<1>3. \A f \in Fields, v \in Values \cup {Nothing} : Owed(p, v, f) => Owed(q, v, f)
  BY DEF Elsewhere, Owed
<1> QED BY <1>1, <1>2, <1>3 DEF Elsewhere, Keeps, Fit

LEMMA LaneSame ==
  ASSUME NEW p, Fit(p), NEW q, Elsewhere(p, q), q.lane = p.lane
  PROVE  Keeps(p, q) /\ (Early(p) => Early(q))
<1>1. q.lane \in Seq(Request) /\ RequestsOK(q)
  BY DEF Fit, PageOK, RequestsOK
<1>2. \A f \in Fields : SavesOf(q, f) = SavesOf(p, f) /\ \A v : LastSent(p, f, v) <=> LastSent(q, f, v)
  BY SavesSame
<1>3. Early(p) => Early(q)
  BY DEF Early, Elsewhere
<1> QED BY <1>1, <1>2, <1>3, Apart

LEMMA Queued ==
  ASSUME NEW p, Fit(p), NEW q, Elsewhere(p, q), NEW j \in Request, RequestOK(j), j.kind # "save",
         q.lane = Append(p.lane, j)
  PROVE  Keeps(p, q) /\ (Early(p) => Early(q))
<1>0. p.lane \in Seq(Request)
  BY DEF Fit, PageOK
<1>1. q.lane \in Seq(Request)
  BY <1>0
<1>2. \A i \in DOMAIN q.lane : q.lane[i] = j \/ (i \in DOMAIN p.lane /\ q.lane[i] = p.lane[i])
  BY <1>0
<1>3. RequestsOK(q)
  BY <1>2 DEF Fit, RequestsOK
<1>4. \A f \in Fields : SavesOf(q, f) = SavesOf(p, f) /\ \A v : LastSent(p, f, v) => LastSent(q, f, v)
  BY <1>0, SavesJoin
<1>5. Early(p) => Early(q)
  BY <1>2 DEF Early, Elsewhere
<1> QED BY <1>1, <1>3, <1>4, <1>5, Apart

\* The first request of the lane answered, or put on to its next poll.
LEMMA WireAnswered ==
  ASSUME NEW p, Fit(p), p.lane # << >>, NEW q, Elsewhere(p, q), NEW j \in Request, RequestOK(j),
         j.kind = p.lane[1].kind, j.kind = "save" => j.sent = p.lane[1].sent,
         q.lane \in Seq(Request), DOMAIN q.lane = DOMAIN p.lane, q.lane[1] = j,
         \A i \in DOMAIN p.lane \ {1} : q.lane[i] = p.lane[i]
  PROVE  Keeps(p, q) /\ (Early(p) => Early(q))
<1>3. RequestsOK(q)
  BY DEF Fit, RequestsOK
<1>4. \A i \in DOMAIN p.lane : q.lane[i].kind = p.lane[i].kind /\ (p.lane[i].kind = "save" => q.lane[i].sent = p.lane[i].sent)
  OBVIOUS
<1>5. \A f \in Fields : SavesOf(q, f) = SavesOf(p, f) /\ \A v : LastSent(p, f, v) => LastSent(q, f, v)
  BY <1>4, SavesStay
<1>6. Early(p) => Early(q)
  BY <1>4 DEF Early, Elsewhere
<1> QED BY <1>3, <1>5, <1>6, Apart

\* A request that is no save has landed.
LEMMA Done ==
  ASSUME NEW p, Fit(p), p.lane # << >>, p.lane[1].kind # "save", NEW q, Elsewhere(p, q), q.lane = Tail(p.lane)
  PROVE  Keeps(p, q) /\ (Early(p) => Early(q))
<1>0. p.lane \in Seq(Request)
  BY DEF Fit, PageOK
<1>1. q.lane \in Seq(Request)
  BY <1>0
<1>2. \A i \in DOMAIN q.lane : i + 1 \in DOMAIN p.lane /\ q.lane[i] = p.lane[i + 1]
  BY <1>0
<1>3. RequestsOK(q)
  BY <1>2 DEF Fit, RequestsOK
<1>4. ASSUME NEW f \in Fields
      PROVE  (SavesOf(q, f) = {} <=> SavesOf(p, f) = {}) /\ \A v : LastSent(p, f, v) => LastSent(q, f, v)
  <2>1. /\ SavesOf(q, f) = {} <=> SavesOf(p, f) = {}
        /\ \A v : LastSent(p, f, v) => LastSent(q, f, v) \/ SavesOf(p, f) = {1}
    BY <1>0, SavesLeave
  <2>2. 1 \notin SavesOf(p, f)
    BY DEF SavesOf
  <2> QED BY <2>1, <2>2
<1>5. Early(p) => Early(q)
  BY <1>2 DEF Early, Elsewhere
<1> QED BY <1>1, <1>3, <1>4, <1>5, Apart

\* A reload: what the operator has not touched follows, and nothing of it is owed.
LEMMA Loads ==
  ASSUME NEW p, Fit(p), NEW cfg \in Settings, NEW q, q = Load(p, cfg)
  PROVE  /\ PageShape(q) /\ q.sending = p.sending /\ q.focus = p.focus /\ q.ready /\ q.lane = p.lane /\ q.wx = p.wx
         /\ q.paused = p.paused
         /\ p.ready \/ p.errs = {} => Fit(q)
         /\ p.ready => \A f \in Fields, v \in Values \cup {Nothing} : Owed(p, v, f) /\ ~LetGo(p, f) => Owed(q, v, f)
<1>0. PageShape(p) /\ PageOK(p) /\ p.values \in Settings /\ p.loaded \in Settings /\ p.ready \in BOOLEAN
  BY DEF Fit, PageOK
<1>1. CASE ~p.ready
  <2>1. q = [p EXCEPT !.ready = TRUE, !.values = cfg, !.loaded = cfg]
    BY <1>1 DEF Load
  <2>2. /\ PageShape(q) /\ q.values = cfg /\ q.loaded = cfg /\ q.sending = p.sending /\ q.focus = p.focus /\ q.ready
        /\ q.lane = p.lane /\ q.wx = p.wx /\ q.paused = p.paused /\ q.heavy = p.heavy /\ q.errs = p.errs
        /\ q.retry = p.retry /\ q.batch = p.batch /\ q.ready = TRUE
    BY ONLY <1>0, <2>1 DEF PageShape
  <2>3. PageOK(q) /\ BatchShown(q) /\ RequestsOK(q)
    BY <2>2, <1>0 DEF Fit, PageOK, BatchShown, RequestsOK
  <2>4. \A f \in Fields : SavesOf(q, f) = SavesOf(p, f) /\ \A v : LastSent(p, f, v) <=> LastSent(q, f, v)
    BY <2>2, SavesSame
  <2>5. EntriesRight(q)
    BY <2>2, <2>4 DEF Fit, EntriesRight
  <2>6. p.errs = {} => MarksRight(q)
    BY <2>2 DEF MarksRight
  <2> QED BY <1>1, <2>2, <2>3, <2>5, <2>6 DEF Fit
<1>2. CASE p.ready
  <2> DEFINE follow == {f \in Fields : Untouched(p, f)}
             display == [f \in Fields |-> IF f \in follow THEN cfg[f] ELSE p.values[f]]
             had == [f \in Fields |-> IF f \in follow THEN cfg[f] ELSE p.loaded[f]]
             s == [p EXCEPT !.values = display, !.loaded = had]
  <2>1. q = PaintRows(s)
    BY <1>2 DEF Load
  <2>2. display \in Settings /\ had \in Settings
    BY <1>0 DEF Settings
  <2>3. \A f \in Fields : ~Untouched(p, f) => display[f] = p.values[f] /\ had[f] = p.loaded[f]
    OBVIOUS
  <2> HIDE DEF display, had
  <2>4. /\ PageShape(s) /\ s.values = display /\ s.loaded = had /\ s.focus = p.focus /\ s.ready = p.ready
        /\ s.sending = p.sending /\ s.heavy = p.heavy /\ s.errs = p.errs /\ s.lane = p.lane
        /\ s.wx = p.wx /\ s.paused = p.paused /\ s.retry = p.retry /\ s.batch = p.batch
    <3>1. s = [p EXCEPT !.values = display, !.loaded = had]
      OBVIOUS
    <3> HIDE DEF s
    <3> QED BY ONLY <1>0, <3>1 DEF PageShape
  <2> HIDE DEF s
  <2>5. PageOK(s) /\ BatchShown(s) /\ RequestsOK(s)
    BY <1>0, <2>2, <2>4 DEF Fit, PageOK, BatchShown, RequestsOK
  <2>6. \A f \in Fields : SavesOf(s, f) = SavesOf(p, f) /\ \A v : LastSent(p, f, v) <=> LastSent(s, f, v)
    BY <2>4, SavesSame
  <2>7. EntriesRight(s)
    BY <2>4, <2>6 DEF Fit, EntriesRight
  <2>8. /\ Fit(q) /\ q.errs = {f \in s.errs : s.values[f] # s.loaded[f]} /\ q = [s EXCEPT !.errs = q.errs]
        /\ \A f \in Fields : SavesOf(q, f) = SavesOf(s, f)
    BY <2>1, <2>5, <2>7, Painted
  <2>9. /\ PageShape(q) /\ q.values = s.values /\ q.loaded = s.loaded /\ q.sending = s.sending /\ q.focus = s.focus
        /\ q.ready = s.ready /\ q.lane = s.lane /\ q.wx = s.wx /\ q.paused = s.paused /\ q.heavy = s.heavy
        /\ q.batch = s.batch
    BY ONLY <2>4, <2>8 DEF PageShape
  <2>10. ASSUME NEW f \in Fields, NEW v \in Values \cup {Nothing}, Owed(p, v, f), ~LetGo(p, f), v # Nothing, p.focus # f
         PROVE  Owed(q, v, f)
    <3>1. ~Untouched(p, f)
      <4>1. SUFFICES ASSUME Untouched(p, f) PROVE FALSE
        OBVIOUS
      <4>2. p.values[f] = p.loaded[f] /\ p.sending[f] = Nothing /\ f \notin p.heavy /\ f \notin BatchIds(p.batch)
        BY <4>1 DEF Untouched, Busy
      <4>3. f \notin p.batch.ids
        BY <4>2 DEF BatchIds, Fit, BatchShown
      <4>4. f \notin p.errs
        BY <4>2, <2>10 DEF Fit, MarksRight
      <4> QED BY <2>10, <4>2, <4>3, <4>4 DEF Owed, LetGo
    <3>2. q.values[f] = p.values[f] /\ q.loaded[f] = p.loaded[f]
      BY <2>3, <2>4, <2>9, <3>1
    <3>3. f \in p.errs => f \in q.errs
      <4>1. f \in p.errs => p.values[f] # p.loaded[f]
        BY <2>10 DEF Fit, MarksRight
      <4> QED BY <4>1, <2>4, <2>8, <2>9, <3>2
    <3> QED BY <2>4, <2>6, <2>8, <2>9, <2>10, <3>2, <3>3 DEF Owed
  <2>11. \A f \in Fields, v \in Values \cup {Nothing} : Owed(p, v, f) /\ ~LetGo(p, f) => Owed(q, v, f)
    BY SMTT(60), <2>4, <2>9, <2>10 DEF Owed
  <2> QED BY <1>2, <2>4, <2>8, <2>9, <2>11
<1> QED BY <1>0, <1>1, <1>2

-----------------------------------------------------------------------------
\* A save lands.

\* Its entries are dropped, no one else's.
LEMMA Settles ==
  ASSUME NEW p, Fit(p), p.lane # << >>, p.lane[1].kind = "save", NEW q,
         q = Settle([p EXCEPT !.lane = Tail(p.lane)], p.lane[1].sent)
  PROVE  /\ Fit(q) /\ PageShape(q) /\ q.values = p.values /\ q.loaded = p.loaded /\ q.focus = p.focus /\ q.ready = p.ready
         /\ q.errs = p.errs /\ q.heavy = p.heavy /\ q.batch = p.batch /\ q.paused = p.paused
         /\ \A f \in Fields : q.sending[f] = IF f \in DOMAIN p.lane[1].sent /\ p.sending[f] = p.lane[1].sent[f]
                                             THEN Nothing ELSE p.sending[f]
         /\ \A f \in Fields : SavesOf(q, f) = {} <=> SavesOf(p, f) \subseteq {1}
<1> DEFINE sent == p.lane[1].sent
           s == [p EXCEPT !.lane = Tail(p.lane)]
           sending == [f \in Fields |-> IF f \in DOMAIN sent /\ p.sending[f] = sent[f] THEN Nothing ELSE p.sending[f]]
<1>0. PageShape(p) /\ PageOK(p) /\ p.lane \in Seq(Request) /\ p.sending \in Sending
  BY DEF Fit, PageOK
<1>1. PageShape(s) /\ s.sending = p.sending
  <2>1. s = [p EXCEPT !.lane = Tail(p.lane)]
    OBVIOUS
  <2> HIDE DEF s
  <2> QED BY ONLY <1>0, <2>1 DEF PageShape
<1>2. q = [s EXCEPT !.sending = sending]
  BY <1>1 DEF Settle
<1>3. q = [p EXCEPT !.lane = Tail(p.lane), !.sending = sending]
  <2> HIDE DEF sending
  <2> QED BY ONLY <1>0, <1>2 DEF PageShape
<1>4. sending \in Sending
  BY <1>0 DEF Sending
<1>5. \A f \in Fields : sending[f] = IF f \in DOMAIN sent /\ p.sending[f] = sent[f] THEN Nothing ELSE p.sending[f]
  OBVIOUS
<1> HIDE DEF sending, s
<1>6. /\ PageShape(q) /\ q.values = p.values /\ q.loaded = p.loaded /\ q.focus = p.focus /\ q.ready = p.ready
      /\ q.errs = p.errs /\ q.heavy = p.heavy /\ q.batch = p.batch /\ q.paused = p.paused /\ q.wx = p.wx
      /\ q.retry = p.retry /\ q.lane = Tail(p.lane) /\ q.sending = sending
  BY ONLY <1>0, <1>3 DEF PageShape
<1>7. q.lane \in Seq(Request) /\ \A i \in DOMAIN q.lane : i + 1 \in DOMAIN p.lane /\ q.lane[i] = p.lane[i + 1]
  <2>1. p.lane \in Seq(Request) /\ p.lane # << >> /\ q.lane = Tail(p.lane)
    BY <1>0, <1>6
  <2> QED BY ONLY <2>1
<1>8. PageOK(q) /\ RequestsOK(q) /\ MarksRight(q) /\ BatchShown(q)
  <2>1. PageOK(q)
    BY ONLY <1>0, <1>4, <1>6, <1>7 DEF PageOK
  <2> QED BY ZenonT(60), <2>1, <1>6, <1>7 DEF Fit, RequestsOK, MarksRight, BatchShown
<1>9. \A f \in Fields : /\ SavesOf(q, f) = {} <=> SavesOf(p, f) \subseteq {1}
                        /\ \A v : LastSent(p, f, v) => LastSent(q, f, v) \/ (SavesOf(p, f) = {1} /\ v = p.lane[1].sent[f])
  <2>1. p.lane \in Seq(Request) /\ p.lane # << >> /\ q.lane = Tail(p.lane)
    BY <1>0, <1>6
  <2> QED BY ONLY <2>1, SavesLeave
<1>10. EntriesRight(q)
  <2> SUFFICES ASSUME NEW f \in Fields, q.sending[f] # Nothing PROVE LastSent(q, f, q.sending[f])
    BY DEF EntriesRight
  <2>1. q.sending[f] = p.sending[f] /\ ~(f \in DOMAIN sent /\ p.sending[f] = sent[f])
    BY <1>5, <1>6
  <2>2. LastSent(p, f, p.sending[f])
    BY <2>1 DEF Fit, EntriesRight
  <2>3. 1 \in SavesOf(p, f) => f \in DOMAIN sent
    BY DEF SavesOf
  <2>4. LastSent(q, f, p.sending[f])
    BY <1>9, <2>1, <2>2, <2>3
  <2> QED BY <2>1, <2>4
<1> QED BY <1>5, <1>6, <1>8, <1>9, <1>10 DEF Fit

\* The first request of the lane is a save whose answer is in.
SaveAnswered(p) == p.lane # << >> /\ p.lane[1].kind = "save" /\ p.lane[1].at \in {"ok", "no"}

\* The page when the answer is in: its entries dropped, then its rows painted.
Dropped(p) == Settle([p EXCEPT !.lane = Tail(p.lane)], p.lane[1].sent)

Repainted(p) ==
  LET job == p.lane[1]
  IN  IF job.at = "ok" THEN SaveSucceeds(Dropped(p), job.sent, job.copy.cfg) ELSE Flagged(Dropped(p), DOMAIN job.sent)

\* What the save's answer makes of the rows.
LEMMA SavePaints ==
  ASSUME NEW p, Fit(p), SaveAnswered(p), NEW job, job = p.lane[1], NEW r, r = Dropped(p), NEW q, q = Repainted(p)
  PROVE  /\ Fit(q) /\ q.values = p.values /\ q.focus = p.focus /\ q.ready = p.ready /\ q.heavy = p.heavy /\ q.batch = p.batch
         /\ q.sending = r.sending
         /\ job.at = "no" => q.loaded = p.loaded
         /\ \A f \in Fields : f \notin DOMAIN job.sent => q.loaded[f] = p.loaded[f]
         /\ \A f \in p.errs : f \notin DOMAIN job.sent /\ p.values[f] # p.loaded[f] => f \in q.errs
         /\ \A f \in DOMAIN job.sent : job.at = "no" /\ p.values[f] # p.loaded[f] => f \in q.errs
         /\ \A f \in Fields : SavesOf(q, f) = {} <=> SavesOf(p, f) \subseteq {1}
<1> DEFINE sent == job.sent
           ids == DOMAIN job.sent
<1>1. /\ Fit(r) /\ PageShape(r) /\ r.values = p.values /\ r.loaded = p.loaded /\ r.focus = p.focus /\ r.ready = p.ready
      /\ r.errs = p.errs /\ r.heavy = p.heavy /\ r.batch = p.batch /\ r.paused = p.paused
      /\ \A f \in Fields : SavesOf(r, f) = {} <=> SavesOf(p, f) \subseteq {1}
  <2>1. Fit(p) /\ p.lane # << >> /\ p.lane[1].kind = "save" /\ r = Settle([p EXCEPT !.lane = Tail(p.lane)], p.lane[1].sent)
    BY DEF SaveAnswered, Dropped
  <2> QED BY ONLY ZenonT(60), <2>1, Settles
<1>2. RequestOK(job) /\ job \in Request
  BY DEF Fit, PageOK, RequestsOK, SaveAnswered
<1>3. job \in SaveRequest
  BY <1>2 DEF Request, PassRequest, OtherRequest, SaveAnswered
<1>4. ids \in SUBSET Fields /\ \A f \in ids : sent[f] \in Values
  BY <1>3 DEF SaveRequest, SentPart
<1>5. /\ PageOK(r) /\ RequestsOK(r) /\ BatchShown(r) /\ EntriesRight(r) /\ r.values \in Settings /\ r.loaded \in Settings
      /\ r.errs \in SUBSET Fields
  BY <1>1 DEF Fit, PageOK
<1>6. CASE job.at = "ok"
  <2> DEFINE cfg == job.copy.cfg
             errs == r.errs \ ids
             had == [f \in Fields |-> IF f \in ids THEN cfg[f] ELSE r.loaded[f]]
             display == [f \in Fields |-> IF f \in ids /\ r.values[f] = sent[f] THEN cfg[f] ELSE r.values[f]]
             s == [r EXCEPT !.errs = errs, !.loaded = had, !.values = display]
  <2>1. q = PaintRows(s)
    BY <1>6 DEF SaveSucceeds, Repainted
  <2>2. \A f \in ids : cfg[f] = sent[f]
    BY <1>2, <1>6 DEF RequestOK, SaveAnswered
  <2>3. display = r.values
    <3>1. \A f \in Fields : display[f] = r.values[f]
      BY <2>2
    <3>2. display = [f \in Fields |-> r.values[f]] /\ r.values = [f \in Fields |-> r.values[f]]
      BY <1>5, <3>1 DEF Settings
    <3> QED BY <3>2
  <2>4. had \in Settings /\ \A f \in Fields : f \notin ids => had[f] = p.loaded[f]
    BY <1>1, <1>4, <1>5, <2>2 DEF Settings
  <2>5. errs \in SUBSET Fields /\ \A f \in p.errs : f \notin ids => f \in errs
    BY <1>1, <1>5
  <2> HIDE DEF had, errs, display
  <2>6. /\ PageShape(s) /\ s.values = r.values /\ s.loaded = had /\ s.focus = r.focus /\ s.ready = r.ready
        /\ s.sending = r.sending /\ s.heavy = r.heavy /\ s.errs = errs /\ s.lane = r.lane
        /\ s.wx = r.wx /\ s.paused = r.paused /\ s.retry = r.retry /\ s.batch = r.batch
    <3>1. s = [r EXCEPT !.errs = errs, !.loaded = had, !.values = display]
      OBVIOUS
    <3> HIDE DEF s
    <3> QED BY ONLY <1>1, <2>3, <3>1 DEF PageShape
  <2> HIDE DEF s
  <2>7. PageOK(s) /\ BatchShown(s) /\ RequestsOK(s)
    BY <1>5, <2>4, <2>5, <2>6 DEF PageOK, BatchShown, RequestsOK
  <2>8. \A f \in Fields : SavesOf(s, f) = SavesOf(r, f) /\ \A v : LastSent(r, f, v) <=> LastSent(s, f, v)
    BY <2>6, SavesSame
  <2>9. EntriesRight(s)
    BY <1>5, <2>6, <2>8 DEF EntriesRight
  <2>10. /\ Fit(q) /\ q.errs = {f \in s.errs : s.values[f] # s.loaded[f]} /\ q = [s EXCEPT !.errs = q.errs]
         /\ \A f \in Fields : SavesOf(q, f) = SavesOf(s, f)
    BY <2>1, <2>7, <2>9, Painted
  <2>11. /\ q.values = s.values /\ q.loaded = s.loaded /\ q.sending = s.sending /\ q.focus = s.focus
         /\ q.ready = s.ready /\ q.heavy = s.heavy /\ q.batch = s.batch
    BY ONLY <2>6, <2>10 DEF PageShape
  <2>12. \A f \in Fields : f \notin ids => q.loaded[f] = p.loaded[f]
    BY <2>4, <2>6, <2>11
  <2>13. \A f \in p.errs : f \notin ids /\ p.values[f] # p.loaded[f] => f \in q.errs
    <3> SUFFICES ASSUME NEW f \in p.errs, f \notin ids, p.values[f] # p.loaded[f] PROVE f \in q.errs
      OBVIOUS
    <3>1. f \in Fields
      BY <1>1, <1>5
    <3>2. f \in s.errs
      BY <2>5, <2>6
    <3>3. s.values[f] = p.values[f] /\ s.loaded[f] = p.loaded[f]
      BY <1>1, <2>4, <2>6, <3>1
    <3> QED BY <2>10, <3>2, <3>3
  <2>14. \A f \in Fields : SavesOf(q, f) = {} <=> SavesOf(p, f) \subseteq {1}
    BY <1>1, <2>8, <2>10
  <2>15. /\ q.values = p.values /\ q.focus = p.focus /\ q.ready = p.ready /\ q.heavy = p.heavy /\ q.batch = p.batch
         /\ q.sending = r.sending
    BY <1>1, <2>6, <2>11
  <2> QED BY <1>6, <2>10, <2>12, <2>13, <2>14, <2>15
<1>7. CASE job.at = "no"
  <2> DEFINE errs == r.errs \cup ids
             s == [r EXCEPT !.errs = errs]
  <2>1. q = PaintRows(s)
    BY <1>7 DEF Flagged, Repainted
  <2>5. errs \in SUBSET Fields /\ \A f \in Fields : f \in p.errs \/ f \in ids => f \in errs
    BY <1>1, <1>4, <1>5
  <2> HIDE DEF errs
  <2>6. /\ PageShape(s) /\ s.values = r.values /\ s.loaded = r.loaded /\ s.focus = r.focus /\ s.ready = r.ready
        /\ s.sending = r.sending /\ s.heavy = r.heavy /\ s.errs = errs /\ s.lane = r.lane
        /\ s.wx = r.wx /\ s.paused = r.paused /\ s.retry = r.retry /\ s.batch = r.batch
    <3>1. s = [r EXCEPT !.errs = errs]
      OBVIOUS
    <3> HIDE DEF s
    <3> QED BY ONLY <1>1, <3>1 DEF PageShape
  <2> HIDE DEF s
  <2>7. PageOK(s) /\ BatchShown(s) /\ RequestsOK(s)
    BY <1>5, <2>5, <2>6 DEF PageOK, BatchShown, RequestsOK
  <2>8. \A f \in Fields : SavesOf(s, f) = SavesOf(r, f) /\ \A v : LastSent(r, f, v) <=> LastSent(s, f, v)
    BY <2>6, SavesSame
  <2>9. EntriesRight(s)
    BY <1>5, <2>6, <2>8 DEF EntriesRight
  <2>10. /\ Fit(q) /\ q.errs = {f \in s.errs : s.values[f] # s.loaded[f]} /\ q = [s EXCEPT !.errs = q.errs]
         /\ \A f \in Fields : SavesOf(q, f) = SavesOf(s, f)
    BY <2>1, <2>7, <2>9, Painted
  <2>11. /\ q.values = s.values /\ q.loaded = s.loaded /\ q.sending = s.sending /\ q.focus = s.focus
         /\ q.ready = s.ready /\ q.heavy = s.heavy /\ q.batch = s.batch
    BY ONLY <2>6, <2>10 DEF PageShape
  <2>13. \A f \in Fields : (f \in p.errs \/ f \in ids) /\ p.values[f] # p.loaded[f] => f \in q.errs
    <3> SUFFICES ASSUME NEW f \in Fields, f \in p.errs \/ f \in ids, p.values[f] # p.loaded[f] PROVE f \in q.errs
      OBVIOUS
    <3>2. f \in s.errs
      BY <2>5, <2>6
    <3>3. s.values[f] = p.values[f] /\ s.loaded[f] = p.loaded[f]
      BY <1>1, <2>6
    <3> QED BY <2>10, <3>2, <3>3
  <2>14. \A f \in Fields : SavesOf(q, f) = {} <=> SavesOf(p, f) \subseteq {1}
    BY <1>1, <2>8, <2>10
  <2>15. /\ q.values = p.values /\ q.loaded = p.loaded /\ q.focus = p.focus /\ q.ready = p.ready /\ q.heavy = p.heavy
         /\ q.batch = p.batch /\ q.sending = r.sending
    BY <1>1, <2>6, <2>11
  <2>16. p.errs \subseteq Fields
    BY <1>1, <1>5
  <2> QED BY <1>4, <1>7, <2>10, <2>13, <2>14, <2>15, <2>16
<1> QED BY <1>6, <1>7 DEF SaveAnswered

\* The operator has what was asked, and no later save is to be waited for.
Has(p, job, v, f) ==
  f \in DOMAIN job.sent /\ v = job.sent[f] /\ (job.at = "ok" \/ p.loaded[f] = v) /\ SavesOf(p, f) \subseteq {1}

\* Whatever the answer, what is still owed is on its way again, or marked.
LEMMA PaintKeeps ==
  ASSUME NEW p, Fit(p), SaveAnswered(p), NEW job, job = p.lane[1], NEW r, r = Dropped(p), NEW q, q = Repainted(p),
         NEW f \in Fields, NEW v \in Values \cup {Nothing}, Owed(p, v, f), ~LetGo(p, f), ~Has(p, job, v, f)
  PROVE  Owed(q, v, f)
<1> DEFINE ids == DOMAIN job.sent
<1>1. /\ Fit(q) /\ q.values = p.values /\ q.focus = p.focus /\ q.ready = p.ready /\ q.heavy = p.heavy /\ q.batch = p.batch
      /\ q.sending = r.sending
      /\ \A g \in p.errs : g \notin DOMAIN job.sent /\ p.values[g] # p.loaded[g] => g \in q.errs
      /\ \A g \in DOMAIN job.sent : job.at = "no" /\ p.values[g] # p.loaded[g] => g \in q.errs
      /\ \A g \in Fields : SavesOf(q, g) = {} <=> SavesOf(p, g) \subseteq {1}
  BY SavePaints
<1>2. q.sending[f] = IF f \in ids /\ p.sending[f] = job.sent[f] THEN Nothing ELSE p.sending[f]
  <2>1. \A g \in Fields : r.sending[g] = IF g \in DOMAIN p.lane[1].sent /\ p.sending[g] = p.lane[1].sent[g]
                                          THEN Nothing ELSE p.sending[g]
    <3>1. Fit(p) /\ p.lane # << >> /\ p.lane[1].kind = "save" /\ r = Settle([p EXCEPT !.lane = Tail(p.lane)], p.lane[1].sent)
      BY DEF SaveAnswered, Dropped
    <3> QED BY ONLY <3>1, Settles
  <2> QED BY <1>1, <2>1
<1> SUFFICES ASSUME v # Nothing, p.focus # f PROVE Owed(q, v, f)
  BY <1>1 DEF Owed
<1>3. q.values[f] = v
  BY <1>1 DEF Owed
<1>4. f \in ids <=> 1 \in SavesOf(p, f)
  <2>1. p.lane \in Seq(Request)
    BY DEF Fit, PageOK
  <2>2. 1 \in DOMAIN p.lane
    BY <2>1 DEF SaveAnswered
  <2> QED BY <2>2 DEF SavesOf, SaveAnswered
<1>5. CASE f \in p.batch.ids \cup p.heavy
  BY <1>1, <1>3, <1>5 DEF Owed
<1>6. CASE p.sending[f] = v /\ ~(f \in ids /\ job.sent[f] = v)
  BY <1>2, <1>3, <1>6 DEF Owed
<1>7. CASE p.sending[f] = v /\ f \in ids /\ job.sent[f] = v
  <2>1. q.sending[f] = Nothing
    BY <1>2, <1>7
  <2>2. CASE SavesOf(p, f) \subseteq {1}
    <3>1. job.at = "no" /\ p.loaded[f] # v
      BY <1>7, <2>2 DEF Has, SaveAnswered
    <3>2. p.values[f] = v
      BY DEF Owed
    <3>3. f \in q.errs
      BY <1>1, <1>7, <3>1, <3>2
    <3> QED BY <1>3, <2>1, <3>3 DEF Owed
  <2>3. CASE ~(SavesOf(p, f) \subseteq {1})
    BY <1>1, <1>3, <2>1, <2>3 DEF Owed
  <2> QED BY <2>2, <2>3
<1>8. CASE p.sending[f] = Nothing
  <2>1. SavesOf(p, f) = {} /\ f \notin ids
    BY <1>4, <1>8 DEF LetGo
  <2>2. q.sending[f] = Nothing
    BY <1>2, <1>8
  <2>3. CASE f \in p.batch.ids \cup p.heavy
    BY <1>5, <2>3
  <2>4. CASE f \notin p.batch.ids \cup p.heavy
    <3>1. f \in p.errs
      BY <1>8, <2>1, <2>4 DEF Owed
    <3>2. p.values[f] # p.loaded[f]
      BY <3>1 DEF Fit, MarksRight
    <3>3. f \in q.errs
      BY <1>1, <2>1, <3>1, <3>2
    <3> QED BY <1>3, <2>2, <3>3 DEF Owed
  <2> QED BY <2>3, <2>4
<1> QED BY <1>5, <1>6, <1>7, <1>8 DEF Owed

\* The caller hears of it: the batch looks again, the others are done or fall back.
LEMMA CallerHears ==
  ASSUME NEW p, Fit(p), NEW ids \in SUBSET Fields, NEW by \in {"batch", "direct", "apply"},
         NEW q, q = Failed(p, by, ids)
  PROVE  Keeps(p, q)
<1>1. /\ Fit(q) /\ q.values = p.values /\ q.loaded = p.loaded /\ q.focus = p.focus /\ q.ready = p.ready
      /\ q.lane = p.lane /\ q.sending = p.sending /\ q.errs = p.errs
      /\ \A f \in Fields : f \in p.batch.ids \cup p.heavy => f \in q.batch.ids \cup q.heavy
  BY SaveFails
<1>2. \A f \in Fields : SavesOf(q, f) = SavesOf(p, f)
  BY <1>1, SavesSame
<1>3. \A f \in Fields, v \in Values \cup {Nothing} : Owed(p, v, f) => Owed(q, v, f)
  BY <1>1, <1>2 DEF Owed
<1> QED BY <1>1, <1>3 DEF Keeps

LEMMA SaveEnds ==
  ASSUME NEW p, Fit(p), SaveAnswered(p), NEW job, job = p.lane[1], NEW q, q = SaveLands([p EXCEPT !.lane = Tail(p.lane)], job)
  PROVE  /\ Fit(q) /\ q.focus = p.focus /\ q.ready = p.ready
         /\ \A f \in Fields, v \in Values \cup {Nothing} : Owed(p, v, f) /\ ~LetGo(p, f) /\ ~Has(p, job, v, f) => Owed(q, v, f)
<1> DEFINE ids == DOMAIN job.sent
           s == Repainted(p)
<1>1. Fit(s) /\ s.focus = p.focus /\ s.ready = p.ready
  BY SavePaints
<1>2. \A f \in Fields, v \in Values \cup {Nothing} : Owed(p, v, f) /\ ~LetGo(p, f) /\ ~Has(p, job, v, f) => Owed(s, v, f)
  BY PaintKeeps
<1>3. job \in SaveRequest
  BY DEF Fit, PageOK, Request, PassRequest, OtherRequest, SaveAnswered
<1>4. job.by \in {"batch", "direct", "apply"} /\ ids \in SUBSET Fields
  BY SMTT(60), <1>3 DEF SaveRequest, SentPart
<1>5. q = CASE job.at = "no" /\ job.by = "batch" -> Resumed(BatchFails(s, ids))
            [] job.at = "no" /\ job.by # "batch" -> Failed(s, job.by, ids)
            [] job.at = "ok" /\ job.by = "batch" -> Resumed(BatchSaved(s))
            [] OTHER -> [s EXCEPT !.inflight = @ \ ids]
  BY DEF SaveLands, Repainted, Dropped
<1> HIDE DEF s, ids
<1>6. Keeps(s, q)
  <2>1. CASE job.at = "no" /\ job.by = "batch"
    <3> DEFINE t == Failed(s, "batch", ids)
    <3>1. Keeps(s, t)
      BY <1>1, <1>4, CallerHears
    <3>2. q = Resumed(t)
      BY <1>5, <2>1 DEF Failed
    <3> HIDE DEF t
    <3>3. Keeps(t, q)
      BY <3>1, <3>2, Resumes DEF Keeps
    <3> QED BY <3>1, <3>3, KeepsOn
  <2>2. CASE job.at = "no" /\ job.by # "batch"
    <3>1. q = Failed(s, job.by, ids)
      BY <1>5, <2>2
    <3> QED BY ONLY <1>1, <1>4, <3>1, CallerHears
  <2>3. CASE job.at = "ok" /\ job.by = "batch"
    <3> DEFINE t == BatchSaved(s)
               b == [s.batch EXCEPT !.kind = IF s.batch.ids = {} THEN "saved" ELSE @, !.saving = {}]
    <3>0. PageShape(s) /\ s.batch \in BatchState /\ BatchShown(s)
      BY SMTT(60), <1>1 DEF Fit, PageOK
    <3>1. b \in BatchState /\ b.ids = s.batch.ids /\ (b.ids # {} => b.kind = s.batch.kind)
      BY ZenonT(60), <3>0 DEF BatchState, BatchKind
    <3>2. t = [s EXCEPT !.batch = b]
      BY <3>0 DEF BatchSaved, PageShape
    <3> HIDE DEF b, t
    <3>3. Keeps(s, t)
      <4>1. b.ids # {} => b.kind \in {"pending", "error"}
        BY <3>0, <3>1 DEF BatchShown
      <4> QED BY ONLY <1>1, <3>1, <3>2, <4>1, BatchTouched
    <3>4. q = Resumed(t)
      BY <1>5, <2>3 DEF t
    <3>5. Keeps(t, q)
      BY <3>3, <3>4, Resumes DEF Keeps
    <3> QED BY <3>3, <3>5, KeepsOn
  <2>4. CASE job.at = "ok" /\ job.by # "batch"
    <3>0. PageShape(s) /\ s.wx \in WeatherState /\ s.paused \in BOOLEAN
      BY <1>1 DEF Fit, PageOK
    <3>1. q = [s EXCEPT !.inflight = s.inflight \ ids]
      BY <1>5, <2>4
    <3>2. Elsewhere(s, q) /\ q.lane = s.lane
      BY ONLY <3>0, <3>1 DEF PageShape, Elsewhere
    <3> QED BY <1>1, <3>2, LaneSame
  <2> QED BY <2>1, <2>2, <2>3, <2>4 DEF SaveAnswered
<1> QED BY <1>1, <1>2, <1>6 DEF Keeps

-----------------------------------------------------------------------------
\* The steps that ask for nothing new.

\* The operator asked nothing, and every entry that was on the page is there still.
Moves ==
  /\ server' \in Server /\ want' = want /\ Keeps(tune, tune')
  /\ tune.ready \/ (Early(tune) => Early(tune'))

LEMMA PageFacts ==
  ASSUME AdminInv
  PROVE  /\ Fit(tune) /\ PageShape(tune) /\ tune.wx \in WeatherState /\ tune.paused \in BOOLEAN
         /\ tune.lane \in Seq(Request) /\ tune.ready \in BOOLEAN /\ server \in Server
BY DEF AdminInv, Fit, PageOK

LEMMA Unmoved ==
  ASSUME AdminInv, Elsewhere(tune, tune'), tune'.lane = tune.lane, server' \in Server, want' = want
  PROVE  Moves
BY PageFacts, LaneSame DEF Moves

\* The power keys, the probes and the supervisor.
LEMMA PowerMoves ==
  ASSUME AdminInv, Step,
         \/ WatchAsks \/ \E late \in BOOLEAN : ProbeAnswered(late)
         \/ ProbeFails \/ Boots \/ Stays
  PROVE  Moves
<1>0. PageShape(tune) /\ tune.wx \in WeatherState /\ tune.paused \in BOOLEAN /\ server \in Server
  BY PageFacts
<1>1. CASE WatchAsks
  <2>1. tune' = [tune EXCEPT !.watch.probe = "asked"] /\ server' = server /\ want' = want
    BY <1>1 DEF WatchAsks, Wire
  <2>2. Elsewhere(tune, tune') /\ tune'.lane = tune.lane
    BY ONLY <1>0, <2>1 DEF PageShape, Elsewhere
  <2> QED BY <1>0, <2>1, <2>2, Unmoved
<1>2. ASSUME NEW proc, NEW late \in BOOLEAN, tune' = Probed(tune, proc, late)
      PROVE  Elsewhere(tune, tune') /\ tune'.lane = tune.lane
  <2>1. \/ \E w : tune' = [tune EXCEPT !.watch = w]
        \/ tune' = SettlePower([tune EXCEPT !.startedAt = Nothing, !.resync = TRUE])
        \/ tune' = SettlePower(tune)
    <3> DEFINE down == [tune.watch EXCEPT !.phase = "down", !.sawDown = TRUE, !.probe = "idle"]
               pending == [tune.watch EXCEPT !.phase = "pending", !.sawDown = FALSE, !.probe = "idle"]
    <3>1. \/ tune' = [tune EXCEPT !.watch = down]
          \/ tune' = SettlePower([tune EXCEPT !.startedAt = Nothing, !.resync = TRUE])
          \/ tune' = SettlePower(tune)
          \/ tune' = [tune EXCEPT !.watch = pending]
      BY <1>2 DEF Probed, Unchanged
    <3> HIDE DEF down, pending
    <3> QED BY ONLY <3>1
  <2>2. ASSUME NEW w, tune' = [tune EXCEPT !.watch = w]
        PROVE  Elsewhere(tune, tune') /\ tune'.lane = tune.lane
    BY ONLY <1>0, <2>2 DEF PageShape, Elsewhere
  <2>3. CASE tune' = SettlePower([tune EXCEPT !.startedAt = Nothing, !.resync = TRUE])
    <3>1. tune' = [tune EXCEPT !.startedAt = Nothing, !.resync = TRUE, !.busy = FALSE, !.paused = FALSE, !.watch = NoWatch]
      BY ONLY <1>0, <2>3 DEF PageShape, SettlePower
    <3> QED BY ONLY <1>0, <3>1 DEF PageShape, Elsewhere
  <2>4. CASE tune' = SettlePower(tune)
    BY ONLY <1>0, <2>4 DEF PageShape, Elsewhere, SettlePower
  <2> QED BY <2>1, <2>2, <2>3, <2>4
<1>3. CASE ProbeFails \/ \E late \in BOOLEAN : ProbeAnswered(late)
  <2>1. Elsewhere(tune, tune') /\ tune'.lane = tune.lane
    BY <1>2, <1>3 DEF ProbeFails, ProbeAnswered
  <2>2. server' = server /\ want' = want
    BY <1>3 DEF ProbeFails, ProbeAnswered
  <2> QED BY <1>0, <2>1, <2>2, Unmoved
<1>4. CASE Boots
  <2>1. tune' = [tune EXCEPT !.resync = TRUE] /\ server' = [server EXCEPT !.up = TRUE] /\ want' = want
    BY <1>4 DEF Boots
  <2>2. Elsewhere(tune, tune') /\ tune'.lane = tune.lane
    BY ONLY <1>0, <2>1 DEF PageShape, Elsewhere
  <2>3. server' \in Server
    BY <1>0, <2>1 DEF Server
  <2> QED BY <2>1, <2>2, <2>3, Unmoved
<1>5. CASE Stays
  <2>1. tune' = tune /\ server' = [server EXCEPT !.leaving = FALSE] /\ want' = want
    BY <1>5 DEF Stays
  <2>2. Elsewhere(tune, tune') /\ tune'.lane = tune.lane
    BY ONLY <1>0, <2>1 DEF PageShape, Elsewhere
  <2>3. server' \in Server
    BY <1>0, <2>1 DEF Server
  <2> QED BY <2>1, <2>2, <2>3, Unmoved
<1> QED BY <1>1, <1>3, <1>4, <1>5

\* The weather channel.
LEMMA WeatherMoves ==
  ASSUME AdminInv, \/ \E v \in Values : EditWeather(v)
                   \/ RetryWeather \/ WeatherDelay
  PROVE  Moves
<1>0. PageShape(tune) /\ tune.wx \in WeatherState /\ tune.paused \in BOOLEAN /\ server \in Server
  BY PageFacts
<1>1. ASSUME NEW w \in WeatherState, NEW x \in Values \cup {Nothing}
      PROVE  ScheduleWeather(w) \in WeatherState /\ ScheduleWeather([w EXCEPT !.shown = x]) \in WeatherState
             /\ [w EXCEPT !.timer = FALSE] \in WeatherState
  BY DEF ScheduleWeather, WeatherState
<1>2. ASSUME NEW w \in WeatherState, tune' = [tune EXCEPT !.wx = w], server' = server, want' = want
      PROVE  Moves
  <2>1. Elsewhere(tune, tune') /\ tune'.lane = tune.lane
    BY ONLY <1>0, <1>2 DEF PageShape, Elsewhere
  <2> QED BY <1>0, <1>2, <2>1, Unmoved
<1>3. ASSUME NEW w \in WeatherState, tune' = SaveWeather([tune EXCEPT !.wx = w]), server' = server, want' = want
      PROVE  Moves
  <2> DEFINE s == [tune EXCEPT !.wx = w]
             j == [kind |-> "weather", sent |-> w.shown, at |-> "new", copy |-> Nothing]
             on == [w EXCEPT !.saving = TRUE, !.err = FALSE]
             off == [w EXCEPT !.err = TRUE]
  <2>1. s = [tune EXCEPT !.wx = w]
    OBVIOUS
  <2>2. tune' = IF s.paused THEN [s EXCEPT !.wx.err = TRUE]
                ELSE [s EXCEPT !.wx = [@ EXCEPT !.saving = TRUE, !.err = FALSE],
                               !.lane = Append(@, [kind |-> "weather", sent |-> s.wx.shown, at |-> "new", copy |-> Nothing])]
    BY <1>3 DEF SaveWeather
  <2> HIDE DEF s
  <2>3. PageShape(s) /\ s.wx = w /\ s.lane = tune.lane /\ s.paused = tune.paused
    BY ONLY <1>0, <2>1 DEF PageShape
  <2>4. tune' = IF s.paused THEN [s EXCEPT !.wx = off] ELSE [s EXCEPT !.wx = on, !.lane = Append(s.lane, j)]
    BY <2>2, <2>3
  <2>5. on \in WeatherState /\ off \in WeatherState /\ w.shown \in Values \cup {Nothing}
    BY DEF WeatherState
  <2>6. j \in Request /\ RequestOK(j) /\ j.kind # "save"
    <3>1. j \in OtherRequest
      BY <2>5 DEF OtherRequest, At, Copy
    <3> QED BY <3>1 DEF Request, RequestOK
  <2> HIDE DEF on, off, j
  <2>7. CASE tune.paused
    <3>1. tune' = [tune EXCEPT !.wx = off]
      BY ONLY <2>1, <2>3, <2>4, <2>7, <1>0 DEF PageShape
    <3> QED BY <1>2, <1>3, <2>5, <3>1
  <2>8. CASE ~tune.paused
    <3>1. tune' = [s EXCEPT !.wx = on, !.lane = Append(s.lane, j)]
      BY <2>3, <2>4, <2>8
    <3>2. tune' = [tune EXCEPT !.wx = on, !.lane = Append(tune.lane, j)]
      BY ONLY ZenonT(60), <2>1, <2>3, <3>1, <1>0 DEF PageShape
    <3>3. Elsewhere(tune, tune') /\ tune'.lane = Append(tune.lane, j)
      BY ONLY <1>0, <2>5, <3>2 DEF PageShape, Elsewhere
    <3>4. Keeps(tune, tune') /\ (Early(tune) => Early(tune'))
      BY <2>6, <3>3, PageFacts, Queued
    <3> QED BY <1>0, <1>3, <3>4 DEF Moves
  <2> QED BY <2>7, <2>8
<1>4. tune = [tune EXCEPT !.wx = tune.wx]
  BY ONLY <1>0 DEF PageShape
<1>5. CASE \E v \in Values : EditWeather(v)
  <2>1. PICK v \in Values : EditWeather(v)
    BY <1>5
  <2>2. tune' = [tune EXCEPT !.wx = ScheduleWeather([tune.wx EXCEPT !.shown = v])] /\ server' = server /\ want' = want
    BY <2>1 DEF EditWeather, Wire
  <2> QED BY <1>0, <1>1, <1>2, <2>2
<1>6. CASE RetryWeather
  <2>1. /\ server' = server /\ want' = want
        /\ \/ tune' = [tune EXCEPT !.wx = ScheduleWeather(tune.wx)]
           \/ tune' = SaveWeather(tune)
    BY <1>6 DEF RetryWeather, Wire
  <2>2. ScheduleWeather(tune.wx) \in WeatherState
    BY <1>0, <1>1
  <2> QED BY <1>0, <1>2, <1>3, <1>4, <2>1, <2>2
<1>7. CASE WeatherDelay
  <2>1. tune' = SaveWeather([tune EXCEPT !.wx.timer = FALSE]) /\ server' = server /\ want' = want
    BY <1>7 DEF WeatherDelay, Wire
  <2>2. [tune EXCEPT !.wx.timer = FALSE] = [tune EXCEPT !.wx = [tune.wx EXCEPT !.timer = FALSE]]
    BY ONLY <1>0 DEF PageShape
  <2>3. [tune.wx EXCEPT !.timer = FALSE] \in WeatherState
    BY <1>0, <1>1
  <2> QED BY <1>3, <2>1, <2>2, <2>3
<1> QED BY <1>5, <1>6, <1>7

\* A request of the page's, in the lane.
LEMMA RequestMoves ==
  ASSUME AdminInv, Power \/ \E todo \in Passes : Tick(todo)
  PROVE  Moves
<1>0. PageShape(tune) /\ tune.wx \in WeatherState /\ tune.paused \in BOOLEAN /\ server \in Server /\ Fit(tune)
  BY PageFacts
<1>1. CASE Power
  <2> DEFINE j == [kind |-> "power", at |-> "new", copy |-> Nothing]
  <2>1. tune' = [tune EXCEPT !.busy = TRUE, !.powerBase = tune.startedAt, !.lane = Append(tune.lane, j)]
        /\ server' = server /\ want' = want
    BY <1>1 DEF Power, Wire
  <2>2. j \in Request /\ RequestOK(j) /\ j.kind # "save"
    <3>1. j \in OtherRequest
      BY DEF OtherRequest, At, Copy
    <3> QED BY <3>1 DEF Request, RequestOK
  <2> HIDE DEF j
  <2>3. Elsewhere(tune, tune') /\ tune'.lane = Append(tune.lane, j)
    BY ONLY <1>0, <2>1 DEF PageShape, Elsewhere
  <2> QED BY <1>0, <2>1, <2>2, <2>3, Queued DEF Moves
<1>2. ASSUME NEW todo \in Passes, Tick(todo) PROVE Moves
  <2> DEFINE j == [kind |-> "pass", todo |-> todo, at |-> "new", copy |-> Nothing]
  <2>1. tune' = [tune EXCEPT !.lane = Append(tune.lane, j)] /\ server' = server /\ want' = want
    BY <1>2 DEF Tick, Wire
  <2>2. j \in Request /\ RequestOK(j) /\ j.kind # "save"
    <3>1. todo \in Seq({"status", "tune"}) /\ todo # << >>
      <4>1. todo = <<"tune">> \/ todo = <<"status", "tune">>
        BY DEF Passes
      <4>2. <<"tune">> \in Seq({"status", "tune"}) /\ <<"status", "tune">> \in Seq({"status", "tune"})
        OBVIOUS
      <4>3. <<"tune">> # << >> /\ <<"status", "tune">> # << >>
        OBVIOUS
      <4> QED BY <4>1, <4>2, <4>3
    <3>2. j \in PassRequest
      BY <3>1 DEF PassRequest, At, Copy
    <3> QED BY <3>1, <3>2 DEF Request, RequestOK
  <2> HIDE DEF j
  <2>3. Elsewhere(tune, tune') /\ tune'.lane = Append(tune.lane, j)
    BY ONLY <1>0, <2>1 DEF PageShape, Elsewhere
  <2> QED BY <1>0, <2>1, <2>2, <2>3, Queued DEF Moves
<1> QED BY <1>1, <1>2

\* The first request of the lane, its answer noted.
LEMMA FirstNoted ==
  ASSUME NEW p, Fit(p), p.lane # << >>, NEW j \in Request, RequestOK(j), j.kind = p.lane[1].kind,
         j.kind = "save" => j.sent = p.lane[1].sent, NEW q, q = [p EXCEPT !.lane = [p.lane EXCEPT ![1] = j]]
  PROVE  Keeps(p, q) /\ (Early(p) => Early(q))
<1>0. PageShape(p) /\ p.wx \in WeatherState /\ p.paused \in BOOLEAN /\ p.lane \in Seq(Request)
  BY DEF Fit, PageOK
<1>1. Elsewhere(p, q) /\ q.lane = [p.lane EXCEPT ![1] = j]
  BY ONLY <1>0, q = [p EXCEPT !.lane = [p.lane EXCEPT ![1] = j]] DEF PageShape, Elsewhere
<1>2. 1 \in DOMAIN p.lane
  BY <1>0
<1>3. q.lane \in Seq(Request) /\ DOMAIN q.lane = DOMAIN p.lane /\ q.lane[1] = j /\ \A i \in DOMAIN p.lane \ {1} : q.lane[i] = p.lane[i]
  BY ONLY <1>0, <1>1, <1>2, j \in Request
<1>4. /\ Fit(p) /\ p.lane # << >> /\ Elsewhere(p, q) /\ j \in Request /\ RequestOK(j) /\ j.kind = p.lane[1].kind
      /\ j.kind = "save" => j.sent = p.lane[1].sent
      /\ q.lane \in Seq(Request) /\ DOMAIN q.lane = DOMAIN p.lane /\ q.lane[1] = j
      /\ \A i \in DOMAIN p.lane \ {1} : q.lane[i] = p.lane[i]
  BY <1>1, <1>3
<1> QED BY ONLY <1>4, WireAnswered

LEMMA AnswerMoves ==
  ASSUME AdminInv, tune.lane # << >>, NEW at \in At, NEW answer \in Copy, Answers(at, answer),
         tune.lane[1].kind = "save" /\ at = "ok" => \A f \in DOMAIN tune.lane[1].sent : answer.cfg[f] = tune.lane[1].sent[f],
         at = "got" => tune.lane[1].kind = "save" /\ answer \in [cfg : Settings, fresh : BOOLEAN],
         tune.lane[1].kind = "pass" /\ at = "ok" /\ Head(tune.lane[1].todo) # "status" =>
           answer \in [cfg : Settings, wx : Values \cup {Nothing}],
         server' \in Server, want' = want
  PROVE  Moves
<1> DEFINE i == tune.lane[1]
           j == [tune.lane[1] EXCEPT !.at = at, !.copy = answer]
<1>0. PageShape(tune) /\ Fit(tune) /\ tune.lane \in Seq(Request)
  BY PageFacts
<1>1. i \in Request /\ RequestOK(i)
  BY <1>0 DEF Fit, RequestsOK
<1>2. j \in Request /\ j.kind = i.kind /\ j.at = at /\ j.copy = answer /\ (i.kind = "save" => j.sent = i.sent)
      /\ (i.kind = "pass" => j.todo = i.todo)
  <2>1. CASE i \in SaveRequest
    <3>1. j \in SaveRequest /\ j.kind = i.kind /\ j.at = at /\ j.copy = answer /\ j.sent = i.sent /\ i.kind = "save"
      BY <2>1 DEF SaveRequest
    <3> QED BY <3>1 DEF Request
  <2>2. CASE i \in PassRequest
    <3>1. j \in PassRequest /\ j.kind = i.kind /\ j.at = at /\ j.copy = answer /\ j.todo = i.todo /\ i.kind = "pass"
      BY <2>2 DEF PassRequest
    <3> QED BY <3>1 DEF Request
  <2>3. CASE i \in OtherRequest
    <3>1. j \in OtherRequest /\ j.kind = i.kind /\ j.at = at /\ j.copy = answer /\ i.kind \in {"weather", "power"}
      BY <2>3 DEF OtherRequest
    <3> QED BY <3>1 DEF Request
  <2> QED BY <1>1, <2>1, <2>2, <2>3 DEF Request
<1>3. RequestOK(j)
  BY <1>1, <1>2 DEF RequestOK
<1>4. tune' = [tune EXCEPT !.lane = [tune.lane EXCEPT ![1] = j]]
  <2>1. 1 \in DOMAIN tune.lane
    BY <1>0
  <2>2. tune' = [tune EXCEPT !.lane[1].at = at, !.lane[1].copy = answer]
    BY DEF Answers
  <2>3. tune' = [tune EXCEPT !.lane = [[tune.lane EXCEPT ![1].at = at] EXCEPT ![1].copy = answer]]
    BY ONLY <1>0, <2>2 DEF PageShape
  <2>4. [[tune.lane EXCEPT ![1].at = at] EXCEPT ![1].copy = answer] = [tune.lane EXCEPT ![1] = j]
    BY <1>0, <2>1
  <2> QED BY <2>3, <2>4
<1> HIDE DEF j
<1> QED BY <1>0, <1>2, <1>3, <1>4, FirstNoted DEF Moves

LEMMA WireMoves ==
  ASSUME AdminInv, GivesCopy \/ Puts \/ SetsWeather \/ TakesPower \/ AnswersPoll \/ Fails
  PROVE  Moves
<1>0. server \in Server /\ Fit(tune) /\ tune.lane \in Seq(Request)
  BY PageFacts
<1>s. server.cfg \in Settings /\ server.wx \in Values \cup {Nothing} /\ server.proc \in Int
  BY <1>0 DEF Server
<1>h. tune.lane # << >> => Head1 = tune.lane[1] /\ tune.lane[1] \in Request /\ RequestOK(tune.lane[1])
  BY <1>0 DEF Head1, Fit, RequestsOK
<1>k. \A at : at = "ok" \/ at = "no" \/ at = "got" => at \in At
  BY DEF At
<1>n. Nothing \in Copy
  BY DEF Copy
<1>1. CASE GivesCopy
  <2>1. /\ tune.lane # << >> /\ tune.lane[1].kind = "save" /\ Answers("got", [cfg |-> server.cfg, fresh |-> TRUE])
        /\ server' = server /\ want' = want
    BY <1>1, <1>h DEF GivesCopy, Served
  <2>2. [cfg |-> server.cfg, fresh |-> TRUE] \in Copy /\ [cfg |-> server.cfg, fresh |-> TRUE] \in [cfg : Settings, fresh : BOOLEAN]
    BY <1>s DEF Copy
  <2> QED BY <1>0, <1>k, <2>1, <2>2, AnswerMoves
<1>2. CASE Puts
  <2> DEFINE new == Applied(Head1)
  <2>1. tune.lane # << >> /\ tune.lane[1].kind = "save" /\ tune.lane[1].at = "got" /\ want' = want
    BY <1>2, <1>h DEF Puts, Served
  <2>2. \/ Answers("ok", [cfg |-> new]) /\ server' = [server EXCEPT !.cfg = new]
        \/ Answers("no", Nothing) /\ server' = server
    BY <1>2 DEF Puts
  <2>3. /\ tune.lane[1].copy.cfg \in Settings
        /\ DOMAIN tune.lane[1].sent \in SUBSET Fields
        /\ \A f \in DOMAIN tune.lane[1].sent : tune.lane[1].sent[f] \in Values
    <3>1. tune.lane[1] \in SaveRequest
      BY <1>h, <2>1 DEF Request, PassRequest, OtherRequest
    <3> QED BY <1>h, <2>1, <3>1 DEF RequestOK, SaveRequest, SentPart
  <2>4. new \in Settings /\ \A f \in DOMAIN tune.lane[1].sent : new[f] = tune.lane[1].sent[f]
    <3>1. new = [f \in Fields |-> IF f \in DOMAIN tune.lane[1].sent THEN tune.lane[1].sent[f] ELSE tune.lane[1].copy.cfg[f]]
      BY DEF Applied, Head1
    <3>2. \A f \in Fields : tune.lane[1].copy.cfg[f] \in Values
      BY <2>3 DEF Settings
    <3> HIDE DEF new
    <3> QED BY <2>3, <3>1, <3>2 DEF Settings
  <2> HIDE DEF new
  <2>5. CASE Answers("ok", [cfg |-> new]) /\ server' = [server EXCEPT !.cfg = new]
    <3>1. [cfg |-> new] \in Copy /\ server' \in Server
      BY <1>0, <2>4, <2>5 DEF Copy, Server
    <3>2. \A f \in DOMAIN tune.lane[1].sent : [cfg |-> new].cfg[f] = tune.lane[1].sent[f]
      BY <2>4
    <3> QED BY <1>k, <2>1, <2>5, <3>1, <3>2, AnswerMoves
  <2>6. CASE Answers("no", Nothing) /\ server' = server
    BY <1>0, <1>k, <1>n, <2>1, <2>6, AnswerMoves
  <2> QED BY <2>2, <2>5, <2>6
<1>3. CASE SetsWeather \/ TakesPower
  <2>1. tune.lane # << >> /\ tune.lane[1].kind \in {"weather", "power"} /\ Answers("ok", Nothing) /\ want' = want
    BY <1>3, <1>h DEF SetsWeather, TakesPower, Served
  <2>2. server' \in Server
    <3>1. CASE SetsWeather
      <4>1. server' = [server EXCEPT !.wx = tune.lane[1].sent] /\ tune.lane[1].kind = "weather"
        BY <3>1, <1>h, <2>1 DEF SetsWeather, Served
      <4>2. tune.lane[1].sent \in Values \cup {Nothing}
        BY <1>h, <2>1, <4>1 DEF Request, SaveRequest, PassRequest, OtherRequest
      <4> QED BY <1>0, <4>1, <4>2 DEF Server
    <3>2. CASE TakesPower
      BY <1>0, <3>2 DEF TakesPower, Server
    <3> QED BY <1>3, <3>1, <3>2
  <2> QED BY <1>k, <1>n, <2>1, <2>2, AnswerMoves
<1>4. CASE AnswersPoll
  <2> DEFINE answer == IF Head(tune.lane[1].todo) = "status" THEN [proc |-> server.proc] ELSE [cfg |-> server.cfg, wx |-> server.wx]
  <2>1. tune.lane # << >> /\ tune.lane[1].kind = "pass" /\ Answers("ok", answer) /\ server' = server /\ want' = want
    BY <1>4, <1>h DEF AnswersPoll, Served
  <2>2. answer \in Copy /\ (Head(tune.lane[1].todo) # "status" => answer \in [cfg : Settings, wx : Values \cup {Nothing}])
    BY <1>s DEF Copy
  <2> HIDE DEF answer
  <2> QED BY <1>0, <1>k, <2>1, <2>2, AnswerMoves
<1>5. CASE Fails
  <2>1. tune.lane # << >> /\ Answers("no", Nothing) /\ server' = server /\ want' = want
    BY <1>5 DEF Fails
  <2> QED BY <1>0, <1>k, <1>n, <2>1, AnswerMoves
<1> QED BY <1>1, <1>2, <1>3, <1>4, <1>5

\* Somebody else's write, and the service's exit: the copy of a save on the wire is stale.
LEMMA OtherMoves ==
  ASSUME AdminInv, Exit \/ \E f \in Fields, v \in Values : OtherWrites(f, v)
  PROVE  Moves
<1>0. PageShape(tune) /\ server \in Server /\ Fit(tune) /\ tune.lane \in Seq(Request)
  BY PageFacts
<1>1. server' \in Server /\ want' = want /\ tune' = Overtaken(tune)
  <2>1. CASE Exit
    <3>1. server' = [server EXCEPT !.up = FALSE, !.leaving = FALSE, !.proc = server.proc + 1] /\ server.proc + 1 \in Int
      BY <1>0, <2>1 DEF Exit, Server
    <3>2. server' \in Server
      BY <1>0, <3>1 DEF Server
    <3> QED BY <2>1, <3>2 DEF Exit
  <2>2. ASSUME NEW f \in Fields, NEW v \in Values, OtherWrites(f, v)
        PROVE  server' \in Server /\ want' = want /\ tune' = Overtaken(tune)
    <3>1. server' = [server EXCEPT !.cfg[f] = v] /\ want' = want /\ tune' = Overtaken(tune)
      BY <2>2 DEF OtherWrites
    <3>2. [server.cfg EXCEPT ![f] = v] \in Settings
      BY <1>0 DEF Server, Settings
    <3>3. server' = [server EXCEPT !.cfg = [server.cfg EXCEPT ![f] = v]]
      BY <1>0, <3>1 DEF Server
    <3> QED BY <1>0, <3>1, <3>2, <3>3 DEF Server
  <2> QED BY <2>1, <2>2
<1>2. CASE ~(tune.lane # << >> /\ tune.lane[1].kind = "save" /\ tune.lane[1].at = "got")
  <2>1. tune' = tune
    BY <1>1, <1>2 DEF Overtaken
  <2> QED BY <1>0, <1>1, <2>1 DEF Moves, Keeps
<1>3. CASE tune.lane # << >> /\ tune.lane[1].kind = "save" /\ tune.lane[1].at = "got"
  <2> DEFINE i == tune.lane[1]
             answer == [i.copy EXCEPT !.fresh = FALSE]
             j == [tune.lane[1] EXCEPT !.copy = answer]
  <2>1. i \in SaveRequest /\ i.copy \in [cfg : Settings, fresh : BOOLEAN]
    <3>1. i \in Request /\ RequestOK(i)
      BY <1>0, <1>3 DEF Fit, RequestsOK
    <3> QED BY <1>3, <3>1 DEF Request, PassRequest, OtherRequest, RequestOK
  <2>2. answer \in [cfg : Settings, fresh : BOOLEAN]
    BY <2>1
  <2>3. answer \in Copy
    BY <2>2 DEF Copy
  <2>4. 1 \in DOMAIN tune.lane
    BY <1>0, <1>3
  <2>5. tune' = [tune EXCEPT !.lane[1].copy.fresh = FALSE]
    BY <1>1, <1>3 DEF Overtaken
  <2>6. tune' = [tune EXCEPT !.lane = [tune.lane EXCEPT ![1].copy.fresh = FALSE]]
    BY ONLY <1>0, <2>5 DEF PageShape
  <2>7. [tune.lane EXCEPT ![1].copy.fresh = FALSE] = [tune.lane EXCEPT ![1] = j]
    BY <1>0, <2>4
  <2> HIDE DEF answer
  <2>8. j \in SaveRequest /\ j.kind = "save" /\ j.at = "got" /\ j.copy = answer /\ j.sent = i.sent
    BY <1>3, <2>1, <2>3 DEF SaveRequest
  <2>9. j \in Request /\ RequestOK(j)
    BY <2>2, <2>8 DEF Request, RequestOK
  <2> HIDE DEF j
  <2>10. tune' = [tune EXCEPT !.lane = [tune.lane EXCEPT ![1] = j]]
    BY <2>6, <2>7 DEF j
  <2> QED BY <1>0, <1>1, <1>3, <2>8, <2>9, <2>10, FirstNoted DEF Moves
<1> QED BY <1>2, <1>3

-----------------------------------------------------------------------------
\* What the operator does.

\* Every entry owed before is owed after, but for the fields the page lets go of.
Follows ==
  /\ server' \in Server /\ want' \in Sending /\ Fit(tune')
  /\ \A f \in Fields : Owed(tune, want[f], f) /\ ~LetGo(tune, f) /\ ~LetGo(tune', f) => Owed(tune', want'[f], f)
  /\ ~tune'.ready => Early(tune') /\ want' = [f \in Fields |-> Nothing]

LEMMA MovesFollow == ASSUME AdminInv, Moves PROVE Follows
<1>1. /\ server' \in Server /\ want' = want /\ Keeps(tune, tune') /\ (tune.ready \/ (Early(tune) => Early(tune')))
  BY DEF Moves
<1>2. want \in Sending /\ (~tune.ready => Early(tune) /\ want = [f \in Fields |-> Nothing])
  BY DEF AdminInv
<1>3. \A f \in Fields : Owed(tune, want[f], f) => Owed(tune', want'[f], f)
  BY <1>1, <1>2 DEF Keeps, Sending
<1> QED BY <1>1, <1>2, <1>3 DEF Follows, Keeps

\* The last line of Follows, where the page is loaded.
LEMMA ReadyFacts ==
  ASSUME AdminInv
  PROVE  /\ tune.focus # Nothing => tune.ready
         /\ tune.batch.timer => tune.ready
         /\ want \in Sending /\ \A f \in Fields : want[f] \in Values \cup {Nothing} /\ f # Nothing
         /\ tune.focus \in Fields \cup {Nothing}
<1>1. tune.batch.timer \in BOOLEAN /\ tune.focus \in Fields \cup {Nothing}
  BY DEF AdminInv, Fit, PageOK, BatchState
<1> QED BY <1>1, AdminAssumption DEF AdminInv, Early, Sending

LEMMA Slides == ASSUME AdminInv, NEW f \in Fields, NEW v \in Values, Slide(f, v) PROVE Follows
<1>0. PageShape(tune) /\ PageOK(tune) /\ Fit(tune) /\ server \in Server
  BY PageFacts DEF Fit
<1>1. /\ tune' = [tune EXCEPT !.values[f] = v, !.focus = f] /\ server' = server /\ want' = want
      /\ tune.ready /\ tune.focus \in {f, Nothing}
  BY DEF Slide, Wire, Entry, Click
<1> DEFINE display == [tune.values EXCEPT ![f] = v]
<1>2. tune' = [tune EXCEPT !.values = display, !.focus = f]
  BY ONLY <1>0, <1>1 DEF PageShape
<1>3. display \in Settings /\ \A g \in Fields \ {f} : display[g] = tune.values[g]
  BY <1>0 DEF PageOK, Settings
<1> HIDE DEF display
<1>4. /\ PageShape(tune') /\ tune'.values = display /\ tune'.loaded = tune.loaded /\ tune'.focus = f /\ tune'.ready = tune.ready
      /\ tune'.sending = tune.sending /\ tune'.heavy = tune.heavy /\ tune'.errs = tune.errs /\ tune'.lane = tune.lane
      /\ tune'.wx = tune.wx /\ tune'.paused = tune.paused /\ tune'.retry = tune.retry /\ tune'.batch = tune.batch
  BY ONLY <1>0, <1>2 DEF PageShape
<1>5. PageOK(tune') /\ BatchShown(tune') /\ RequestsOK(tune')
  BY <1>0, <1>3, <1>4 DEF Fit, PageOK, BatchShown, RequestsOK
<1>6. \A g \in Fields : SavesOf(tune', g) = SavesOf(tune, g) /\ \A x : LastSent(tune, g, x) <=> LastSent(tune', g, x)
  BY <1>4, SavesSame
<1>7. EntriesRight(tune')
  BY <1>0, <1>4, <1>6 DEF Fit, EntriesRight
<1>8. MarksRight(tune')
  <2> SUFFICES ASSUME NEW g \in tune.errs, g # f PROVE display[g] # tune.loaded[g]
    BY <1>4 DEF MarksRight
  <2>1. g \in Fields /\ g # Nothing
    BY <1>0, AdminAssumption DEF PageOK
  <2>2. tune.values[g] # tune.loaded[g]
    BY <1>0, <1>1, <2>1 DEF Fit, MarksRight
  <2> QED BY <1>3, <2>1, <2>2
<1>9. ASSUME NEW g \in Fields, Owed(tune, want[g], g) PROVE Owed(tune', want[g], g)
  <2>1. CASE g = f
    BY <1>4, <2>1 DEF Owed
  <2>2. CASE g # f
    <3>1. g # Nothing
      BY AdminAssumption
    <3> QED BY <1>1, <1>3, <1>4, <1>6, <1>9, <2>2, <3>1 DEF Owed
  <2> QED BY <2>1, <2>2
<1> QED BY <1>0, <1>1, <1>4, <1>5, <1>7, <1>8, <1>9, ReadyFacts DEF Follows, Fit

\* A commit of a page that shows what the operator set, by whatever way it came there.
LEMMA CommitFollows ==
  ASSUME AdminInv, tune.ready, NEW f \in Fields, NEW p, PageOK(p), p.focus = Nothing, p.ready = tune.ready,
         p.loaded = tune.loaded, p.sending = tune.sending, p.lane = tune.lane, p.errs = tune.errs, p.heavy = tune.heavy,
         p.batch = tune.batch, tune.focus \in {f, Nothing}, \A g \in Fields \ {f} : p.values[g] = tune.values[g],
         tune' = Commit(p, f), server' = server, want' = [want EXCEPT ![f] = Due(p, f)]
  PROVE  Follows
<1>0. Fit(tune) /\ server \in Server
  BY PageFacts
<1>1. RequestsOK(p) /\ BatchShown(p)
  BY <1>0 DEF Fit, RequestsOK, BatchShown
<1>2. \A g \in Fields : SavesOf(p, g) = SavesOf(tune, g) /\ \A x : LastSent(tune, g, x) <=> LastSent(p, g, x)
  BY SavesSame
<1>3. EntriesRight(p)
  BY <1>0, <1>2 DEF Fit, EntriesRight
<1>4. \A g \in p.errs \ {f} : p.values[g] # p.loaded[g]
  <2> SUFFICES ASSUME NEW g \in tune.errs, g # f PROVE tune.values[g] # tune.loaded[g] /\ g \in Fields
    OBVIOUS
  <2>1. g \in Fields /\ g # Nothing
    BY AdminAssumption DEF PageOK
  <2> QED BY <1>0, <2>1 DEF Fit, MarksRight
<1>5. /\ Fit(tune') /\ tune'.focus = Nothing /\ tune'.ready = p.ready
      /\ \A g \in Fields \ {f}, v \in Values \cup {Nothing} : Owed(p, v, g) => Owed(tune', v, g)
      /\ Owed(tune', Due(p, f), f)
  BY <1>1, <1>3, <1>4, Commits
<1>6. Due(p, f) \in Values \cup {Nothing}
  BY DEF Due, PageOK, Settings, Sending
<1>7. want' \in Sending /\ want'[f] = Due(p, f) /\ \A g \in Fields \ {f} : want'[g] = want[g] /\ want[g] \in Values \cup {Nothing}
  BY <1>6, ReadyFacts DEF Sending
<1>8. ASSUME NEW g \in Fields \ {f}, Owed(tune, want[g], g) PROVE Owed(tune', want[g], g)
  <2>1. g # Nothing
    BY AdminAssumption
  <2>2. Owed(p, want[g], g)
    BY <1>2, <1>8, <2>1 DEF Owed
  <2> QED BY <1>5, <1>7, <2>2
<1> QED BY <1>0, <1>5, <1>7, <1>8 DEF Follows

LEMMA Enters ==
  ASSUME AdminInv, ReleaseSlider \/ \E f \in Fields, v \in Values : Enter(f, v)
  PROVE  Follows
<1>0. PageShape(tune) /\ PageOK(tune)
  BY PageFacts DEF Fit
<1>1. CASE ReleaseSlider
  <2> DEFINE f == tune.focus
             p == [tune EXCEPT !.focus = Nothing]
  <2>1. f \in Fields /\ tune.ready /\ tune' = Commit(p, f) /\ server' = server /\ want' = [want EXCEPT ![f] = Due(tune, f)]
    BY <1>1, ReadyFacts DEF ReleaseSlider, Wire, Asked
  <2>2. /\ PageShape(p) /\ p.values = tune.values /\ p.loaded = tune.loaded /\ p.focus = Nothing /\ p.ready = tune.ready
        /\ p.sending = tune.sending /\ p.heavy = tune.heavy /\ p.errs = tune.errs /\ p.lane = tune.lane
        /\ p.wx = tune.wx /\ p.paused = tune.paused /\ p.retry = tune.retry /\ p.batch = tune.batch
    <3>1. p = [tune EXCEPT !.focus = Nothing]
      OBVIOUS
    <3> HIDE DEF p
    <3> QED BY ONLY <1>0, <3>1 DEF PageShape
  <2> HIDE DEF p
  <2>3. PageOK(p)
    BY <1>0, <2>2 DEF PageOK
  <2>4. Due(p, f) = Due(tune, f)
    BY <2>2 DEF Due, IsNoOp, Baseline, Moot
  <2> QED BY <2>1, <2>2, <2>3, <2>4, CommitFollows
<1>2. ASSUME NEW f \in Fields, NEW v \in Values, Enter(f, v) PROVE Follows
  <2> DEFINE p == [tune EXCEPT !.values[f] = v]
             display == [tune.values EXCEPT ![f] = v]
  <2>1. tune.ready /\ tune.focus = Nothing /\ tune' = Commit(p, f) /\ server' = server /\ want' = [want EXCEPT ![f] = Due(p, f)]
    BY <1>2 DEF Enter, Wire, Asked, Click
  <2>2. p = [tune EXCEPT !.values = display]
    BY ONLY <1>0 DEF PageShape
  <2>3. display \in Settings /\ \A g \in Fields \ {f} : display[g] = tune.values[g]
    BY <1>0 DEF PageOK, Settings
  <2> HIDE DEF p, display
  <2>4. /\ PageShape(p) /\ p.values = display /\ p.loaded = tune.loaded /\ p.focus = tune.focus /\ p.ready = tune.ready
        /\ p.sending = tune.sending /\ p.heavy = tune.heavy /\ p.errs = tune.errs /\ p.lane = tune.lane
        /\ p.wx = tune.wx /\ p.paused = tune.paused /\ p.retry = tune.retry /\ p.batch = tune.batch
    BY ONLY <1>0, <2>2 DEF PageShape
  <2>5. PageOK(p)
    BY <1>0, <2>3, <2>4 DEF PageOK
  <2> QED BY <2>1, <2>3, <2>4, <2>5, CommitFollows
<1> QED BY <1>1, <1>2

LEMMA FlushMoves == ASSUME AdminInv, RetryBatch \/ Countdown PROVE Moves
<1>1. tune.ready /\ tune' = Flush(tune) /\ server' = server /\ want' = want
  BY ReadyFacts DEF RetryBatch, Countdown, Click, Wire
<1> QED BY <1>1, PageFacts, Flushes DEF Moves

\* The batch emptied: only its own fields lose their place.
LEMMA Undoes ==
  ASSUME NEW p, Fit(p), NEW q, q = Undo(p)
  PROVE  /\ Fit(q) /\ q.values = p.values /\ q.loaded = p.loaded /\ q.focus = p.focus /\ q.ready = p.ready
         /\ q.sending = p.sending /\ q.heavy = p.heavy /\ q.errs = p.errs /\ q.lane = p.lane /\ q.paused = p.paused
         /\ \A f \in Fields, v \in Values \cup {Nothing} : Owed(p, v, f) /\ f \notin p.batch.ids => Owed(q, v, f)
<1> DEFINE b == [p.batch EXCEPT !.ids = {}, !.timer = FALSE, !.kind = "idle"]
<1>0. PageShape(p) /\ p.batch \in BatchState /\ PageOK(p)
  BY DEF Fit, PageOK
<1>1. q = [p EXCEPT !.batch.ids = {}, !.batch.timer = FALSE, !.batch.kind = "idle"]
  BY DEF Undo
<1>2. q = [p EXCEPT !.batch = b]
  BY ONLY <1>0, <1>1 DEF PageShape
<1>3. b \in BatchState /\ b.ids = {}
  BY <1>0 DEF BatchState, BatchKind
<1> HIDE DEF b
<1>4. /\ PageShape(q) /\ q.values = p.values /\ q.loaded = p.loaded /\ q.focus = p.focus /\ q.ready = p.ready
      /\ q.sending = p.sending /\ q.heavy = p.heavy /\ q.errs = p.errs /\ q.lane = p.lane
      /\ q.wx = p.wx /\ q.paused = p.paused /\ q.retry = p.retry /\ q.batch = b
  BY ONLY <1>0, <1>2 DEF PageShape
<1>5. PageOK(q) /\ BatchShown(q)
  BY <1>0, <1>3, <1>4 DEF PageOK, BatchShown
<1>6. /\ Fit(q)
      /\ \A f \in Fields, v \in Values \cup {Nothing} :
           Owed(p, v, f) /\ (f \in p.batch.ids \cup p.heavy => f \in q.batch.ids \cup q.heavy) => Owed(q, v, f)
  BY <1>4, <1>5, Alike
<1> QED BY <1>4, <1>6

LEMMA TakesBack == ASSUME AdminInv, UndoBatch \/ Cancel PROVE Follows
<1>0. Fit(tune) /\ server \in Server
  BY PageFacts
<1>1. ASSUME NEW p, Fit(p), p.sending = tune.sending, p.ready = tune.ready, tune.ready,
             NEW ids \in SUBSET Fields, \A f \in Fields \ ids, v \in Values \cup {Nothing} : Owed(tune, v, f) => Owed(p, v, f),
             tune' = Revert(p, ids), server' = server, Wants(ids, tune.sending)
      PROVE  Follows
  <2>1. /\ Fit(tune') /\ tune'.ready = p.ready
        /\ \A f \in Fields \ ids, v \in Values \cup {Nothing} : Owed(p, v, f) => Owed(tune', v, f)
        /\ \A f \in ids : Owed(tune', p.sending[f], f)
    BY <1>1, Reverts
  <2>2. \A f \in Fields : want'[f] = IF f \in ids THEN tune.sending[f] ELSE want[f]
    BY <1>1 DEF Wants
  <2>3. want' \in Sending
    BY <1>0, <1>1, ReadyFacts DEF Wants, Fit, PageOK, Sending
  <2>4. \A f \in Fields : Owed(tune, want[f], f) => Owed(tune', want'[f], f)
    BY <1>1, <2>1, <2>2, ReadyFacts
  <2> QED BY <1>0, <1>1, <2>1, <2>3, <2>4 DEF Follows
<1>2. CASE UndoBatch
  <2> DEFINE p == Undo(tune)
  <2>1. /\ Fit(p) /\ p.sending = tune.sending /\ p.ready = tune.ready
        /\ \A f \in Fields, v \in Values \cup {Nothing} : Owed(tune, v, f) /\ f \notin tune.batch.ids => Owed(p, v, f)
    BY <1>0, Undoes
  <2>2. tune.ready /\ tune' = Revert(p, tune.batch.ids) /\ server' = server /\ Wants(tune.batch.ids, tune.sending)
    BY <1>2 DEF UndoBatch, Click, Wire
  <2>3. tune.batch.ids \in SUBSET Fields
    BY <1>0 DEF Fit, PageOK, BatchState
  <2> HIDE DEF p
  <2> QED BY <1>1, <2>1, <2>2, <2>3
<1>3. CASE Cancel
  <2> DEFINE p == [tune EXCEPT !.heavy = {}]
  <2>1. /\ Fit(p) /\ p.sending = tune.sending /\ p.ready = tune.ready
        /\ \A f \in Fields, v \in Values \cup {Nothing} : Owed(tune, v, f) /\ f \notin tune.heavy => Owed(p, v, f)
    BY <1>0, BarTakes
  <2>2. tune.ready /\ tune' = Revert(p, tune.heavy) /\ server' = server /\ Wants(tune.heavy, tune.sending)
    BY <1>3 DEF Cancel, Click, Wire
  <2>3. tune.heavy \in SUBSET Fields
    BY <1>0 DEF Fit, PageOK
  <2> HIDE DEF p
  <2> QED BY <1>1, <2>1, <2>2, <2>3
<1> QED BY <1>2, <1>3

\* A retry or an Apply: each of its fields is on its way, flagged, or still is behind a save the lane has.
LEMMA SavesFollow ==
  ASSUME AdminInv, tune.ready, tune.focus = Nothing, NEW ids \in SUBSET Fields, NEW by \in {"direct", "apply"},
         NEW p, Fit(p), p.values = tune.values, p.loaded = tune.loaded, p.sending = tune.sending, p.errs = tune.errs,
         p.lane = tune.lane, p.focus = Nothing, p.ready = tune.ready, p.paused = tune.paused,
         \A f \in Fields \ ids, v \in Values \cup {Nothing} : Owed(tune, v, f) => Owed(p, v, f),
         tune' = SaveNow(p, ids, by), server' = server, want' \in Sending,
         \A f \in Fields : want'[f] = want[f] \/ want'[f] = Nothing,
         \A f \in ids : Owed(tune, want[f], f) =>
                        \/ want'[f] = Nothing \/ ~Moot(tune, f)
                        \/ f \in p.batch.ids \cup p.heavy \/ tune.sending[f] = want[f] \/ SavesOf(tune, f) # {}
  PROVE  Follows
<1>0. Fit(tune) /\ server \in Server
  BY PageFacts
<1>1. /\ Fit(tune') /\ tune'.ready = p.ready
      /\ \A f \in Fields \ ids, v \in Values \cup {Nothing} : Owed(p, v, f) => Owed(tune', v, f)
      /\ \A f \in ids, v \in Values :
           /\ p.focus # f => p.values[f] = v
           /\ ~p.paused \/ v # p.loaded[f] \/ f \in p.batch.ids \cup p.heavy \/ SavesOf(p, f) # {}
           => Owed(tune', v, f)
  BY ZenonT(60), SavesNow
<1>2. \A f \in Fields : SavesOf(p, f) = SavesOf(tune, f)
  BY SavesSame
<1>3. ASSUME NEW f \in Fields, Owed(tune, want[f], f) PROVE Owed(tune', want'[f], f)
  <2>1. CASE want'[f] = Nothing
    BY <2>1 DEF Owed
  <2>2. CASE want'[f] = want[f] /\ want[f] # Nothing
    <3>1. want[f] \in Values /\ f # Nothing
      BY <2>2, ReadyFacts
    <3>2. CASE f \notin ids
      BY <1>1, <1>3, <2>2, <3>1, <3>2
    <3>3. CASE f \in ids
      <4>1. tune.values[f] = want[f]
        BY <1>3, <2>2, <3>1 DEF Owed
      <4>2. tune.sending[f] = want[f] => SavesOf(tune, f) # {}
        BY <1>0, <2>2 DEF Fit, EntriesRight, LastSent
      <4>3. ~p.paused \/ want[f] # p.loaded[f] \/ f \in p.batch.ids \cup p.heavy \/ SavesOf(p, f) # {}
        BY <1>2, <1>3, <2>2, <3>3, <4>1, <4>2 DEF Moot
      <4> QED BY <1>1, <2>2, <3>1, <3>3, <4>1, <4>3
    <3> QED BY <3>2, <3>3
  <2> QED BY <2>1, <2>2
<1> QED BY <1>0, <1>1, <1>3 DEF Follows

LEMMA Applies == ASSUME AdminInv, RetryDirect \/ Apply PROVE Follows
<1>0. Fit(tune) /\ tune.retry \in SUBSET Fields /\ tune.heavy \in SUBSET Fields /\ tune.batch.ids \in SUBSET Fields
  BY PageFacts DEF Fit, PageOK, BatchState
<1>1. CASE RetryDirect
  <2>1. tune.ready /\ tune.focus = Nothing /\ tune' = SaveNow(tune, tune.retry, "direct") /\ server' = server /\ want' = want
    BY <1>1 DEF RetryDirect, Click, Wire
  <2>2. \A f \in tune.retry : Owed(tune, want[f], f) =>
          \/ want[f] = Nothing \/ ~Moot(tune, f)
          \/ f \in tune.batch.ids \cup tune.heavy \/ tune.sending[f] = want[f] \/ SavesOf(tune, f) # {}
    <3> SUFFICES ASSUME NEW f \in tune.retry, Owed(tune, want[f], f), want[f] # Nothing, f \in tune.errs
                 PROVE  ~Moot(tune, f)
      BY <1>0, <2>1, ReadyFacts DEF Owed
    <3> QED BY <1>0, <2>1, ReadyFacts DEF Fit, MarksRight, Moot
  <2>3. want' \in Sending
    BY <2>1, ReadyFacts
  <2> QED BY <1>0, <2>1, <2>2, <2>3, SavesFollow
<1>2. CASE Apply
  <2> DEFINE fold == tune.batch.kind \in {"pending", "error"}
             ids == tune.heavy \cup (IF fold THEN tune.batch.ids ELSE {})
             q == [tune EXCEPT !.heavy = {}]
             p == IF fold THEN Undo(q) ELSE q
  <2>1. /\ tune.ready /\ tune.focus = Nothing /\ tune' = SaveNow(p, ids, "apply") /\ server' = server
        /\ Wants({f \in ids : Moot(tune, f)}, [f \in Fields |-> Nothing])
    BY <1>2 DEF Apply, Click, Wire
  <2>2. /\ ids \in SUBSET Fields /\ \A f \in Fields \ ids : f \notin tune.heavy /\ (fold => f \notin tune.batch.ids)
    BY <1>0
  <2>3. /\ Fit(q) /\ q.values = tune.values /\ q.loaded = tune.loaded /\ q.focus = tune.focus /\ q.ready = tune.ready
        /\ q.sending = tune.sending /\ q.batch = tune.batch /\ q.paused = tune.paused
        /\ \A g \in Fields, v \in Values \cup {Nothing} : Owed(tune, v, g) /\ g \notin tune.heavy => Owed(q, v, g)
    <3>1. /\ Fit(q) /\ q.values = tune.values /\ q.loaded = tune.loaded /\ q.focus = tune.focus /\ q.ready = tune.ready
          /\ q.sending = tune.sending /\ q.batch = tune.batch /\ q.paused = tune.paused
          /\ \A g \in Fields, v \in Values \cup {Nothing} : Owed(tune, v, g) /\ (g \in tune.heavy => g \in {}) => Owed(q, v, g)
      BY SMTT(60), <1>0, BarTakes
    <3> QED BY <3>1
  <2>4. q.errs = tune.errs /\ q.lane = tune.lane
    <3>1. q = [tune EXCEPT !.heavy = {}] /\ PageShape(tune)
      BY PageFacts
    <3> HIDE DEF q
    <3> QED BY ONLY <3>1 DEF PageShape
  <2> HIDE DEF q
  <2>5. /\ Fit(p) /\ p.values = tune.values /\ p.loaded = tune.loaded /\ p.sending = tune.sending /\ p.errs = tune.errs
        /\ p.lane = tune.lane /\ p.focus = Nothing /\ p.ready = tune.ready /\ p.paused = tune.paused
        /\ \A f \in Fields \ ids, v \in Values \cup {Nothing} : Owed(tune, v, f) => Owed(p, v, f)
    <3>1. CASE fold
      <4>1. p = Undo(q)
        BY <3>1
      <4>2. /\ Fit(p) /\ p.values = q.values /\ p.loaded = q.loaded /\ p.focus = q.focus /\ p.ready = q.ready
            /\ p.sending = q.sending /\ p.errs = q.errs /\ p.lane = q.lane /\ p.paused = q.paused
            /\ \A f \in Fields, v \in Values \cup {Nothing} : Owed(q, v, f) /\ f \notin q.batch.ids => Owed(p, v, f)
        BY ONLY <4>1, <2>3, Undoes
      <4> QED BY <2>1, <2>2, <2>3, <2>4, <3>1, <4>2
    <3>2. CASE ~fold
      <4>1. p = q
        BY <3>2
      <4> QED BY ZenonT(60), <2>1, <2>2, <2>3, <2>4, <4>1
    <3> QED BY <3>1, <3>2
  <2> HIDE DEF p, ids
  <2>6. \A f \in Fields : want'[f] = IF f \in ids /\ Moot(tune, f) THEN Nothing ELSE want[f]
    BY <2>1 DEF Wants
  <2>7. want' \in Sending
    BY <2>1, ReadyFacts DEF Wants, Sending
  <2>8. /\ \A f \in Fields : want'[f] = want[f] \/ want'[f] = Nothing
        /\ \A f \in ids : want'[f] = Nothing \/ ~Moot(tune, f)
    BY <2>2, <2>6
  <2> QED BY <2>1, <2>2, <2>5, <2>7, <2>8, SavesFollow
<1> QED BY <1>1, <1>2

-----------------------------------------------------------------------------
\* What the wire brings back.

\* A reload reads nothing of the lane.
LEMMA LoadsBeside ==
  ASSUME NEW p, PageShape(p), NEW l, NEW q, q = [p EXCEPT !.lane = l], NEW cfg
  PROVE  Load(q, cfg) = [Load(p, cfg) EXCEPT !.lane = l]
<1>0. /\ PageShape(q) /\ q.values = p.values /\ q.loaded = p.loaded /\ q.focus = p.focus /\ q.ready = p.ready
      /\ q.sending = p.sending /\ q.heavy = p.heavy /\ q.errs = p.errs /\ q.lane = l
      /\ q.wx = p.wx /\ q.paused = p.paused /\ q.retry = p.retry /\ q.batch = p.batch /\ q.inflight = p.inflight
  BY DEF PageShape
<1>1. CASE ~p.ready
  <2>1. Load(p, cfg) = [p EXCEPT !.ready = TRUE, !.values = cfg, !.loaded = cfg]
    BY <1>1 DEF Load
  <2>2. Load(q, cfg) = [q EXCEPT !.ready = TRUE, !.values = cfg, !.loaded = cfg]
    BY <1>0, <1>1 DEF Load
  <2> QED BY ONLY ZenonT(60), <2>1, <2>2, PageShape(p), q = [p EXCEPT !.lane = l] DEF PageShape
<1>2. CASE p.ready
  <2> DEFINE follow == {f \in Fields : Untouched(p, f)}
             display == [f \in Fields |-> IF f \in follow THEN cfg[f] ELSE p.values[f]]
             had == [f \in Fields |-> IF f \in follow THEN cfg[f] ELSE p.loaded[f]]
             errs == {f \in p.errs : display[f] # had[f]}
  <2>1. follow = {f \in Fields : Untouched(q, f)}
    <3>1. \A f \in Fields : Untouched(p, f) <=> Untouched(q, f)
      BY <1>0 DEF Untouched, Busy
    <3> QED BY <3>1
  <2>2. Load(p, cfg) = PaintRows([p EXCEPT !.values = display, !.loaded = had])
    BY <1>2 DEF Load
  <2>3. Load(q, cfg) = PaintRows([q EXCEPT !.values = display, !.loaded = had])
    <3>1. Load(q, cfg) = LET fo == {f \in Fields : Untouched(q, f)}
                         IN  PaintRows([q EXCEPT !.values = [f \in Fields |-> IF f \in fo THEN cfg[f] ELSE @[f]],
                                                 !.loaded = [f \in Fields |-> IF f \in fo THEN cfg[f] ELSE @[f]]])
      BY <1>0, <1>2 DEF Load
    <3> HIDE DEF follow
    <3> QED BY <1>0, <2>1, <3>1
  <2> HIDE DEF follow, display, had
  <2>4. ASSUME NEW x, PageShape(x), x.errs = p.errs
        PROVE  PaintRows([x EXCEPT !.values = display, !.loaded = had])
                 = [x EXCEPT !.values = display, !.loaded = had, !.errs = errs]
    BY ONLY <2>4 DEF PageShape, PaintRows, errs
  <2> HIDE DEF errs
  <2>5. /\ Load(p, cfg) = [p EXCEPT !.values = display, !.loaded = had, !.errs = errs]
        /\ Load(q, cfg) = [q EXCEPT !.values = display, !.loaded = had, !.errs = errs]
    BY ZenonT(60), <1>0, <2>2, <2>3, <2>4
  <2> QED BY ONLY ZenonT(60), <2>5, PageShape(p), q = [p EXCEPT !.lane = l] DEF PageShape
<1> QED BY <1>1, <1>2

LEMMA SaveFollows ==
  ASSUME AdminInv, Lands, tune.lane[1].kind = "save"
  PROVE  Follows
<1> DEFINE job == tune.lane[1]
<1>0. Fit(tune) /\ server \in Server /\ tune.lane \in Seq(Request)
  BY PageFacts
<1>1. SaveAnswered(tune)
  BY DEF Lands, Stops, Head1, SaveAnswered
<1>2. tune' = SaveLands([tune EXCEPT !.lane = Tail(tune.lane)], job) /\ server' = server /\ Got(job)
  BY DEF Lands, Head1
<1>3. /\ Fit(tune') /\ tune'.ready = tune.ready
      /\ \A f \in Fields, v \in Values \cup {Nothing} : Owed(tune, v, f) /\ ~LetGo(tune, f) /\ ~Has(tune, job, v, f) => Owed(tune', v, f)
  <2> HIDE DEF job
  <2>1. job = tune.lane[1]
    BY DEF job
  <2> QED BY <1>0, <1>1, <1>2, <2>1, SaveEnds
<1>4. \A f \in Fields : want'[f] = IF Has(tune, job, want[f], f) THEN Nothing ELSE want[f]
  BY <1>2 DEF Got, Has
<1>5. want' \in Sending
  BY <1>2, ReadyFacts DEF Got, Sending
<1>6. \A f \in Fields : Owed(tune, want[f], f) /\ ~LetGo(tune, f) => Owed(tune', want'[f], f)
  <2> SUFFICES ASSUME NEW f \in Fields, Owed(tune, want[f], f), ~LetGo(tune, f) PROVE Owed(tune', want'[f], f)
    OBVIOUS
  <2>1. CASE Has(tune, job, want[f], f)
    BY <1>4, <2>1 DEF Owed
  <2>2. CASE ~Has(tune, job, want[f], f)
    BY <1>3, <1>4, <2>2, ReadyFacts
  <2> QED BY <2>1, <2>2
<1>7. tune.ready
  <2>1. 1 \in DOMAIN tune.lane
    BY <1>0, <1>1 DEF SaveAnswered
  <2> QED BY <2>1 DEF AdminInv, Early
<1> QED BY <1>0, <1>2, <1>3, <1>5, <1>6, <1>7 DEF Follows

\* The lane after a poll: the pass's next, or what was behind the pass.
LEMMA PassGoesOn ==
  ASSUME NEW p, Fit(p), p.lane # << >>, p.lane[1].kind = "pass",
         NEW next, next = [p.lane[1] EXCEPT !.todo = Tail(p.lane[1].todo), !.at = "new", !.copy = Nothing],
         NEW q, Elsewhere(p, q),
         q.lane = IF next.todo = << >> THEN Tail(p.lane) ELSE <<next>> \o Tail(p.lane)
  PROVE  Keeps(p, q) /\ (Early(p) => Early(q))
<1>0. p.lane \in Seq(Request) /\ p.lane[1] \in Request /\ RequestOK(p.lane[1])
  BY DEF Fit, PageOK, RequestsOK
<1>1. CASE next.todo = << >>
  BY <1>1, Done
<1>2. CASE next.todo # << >>
  <2>1. p.lane[1] \in PassRequest /\ p.lane[1].todo # << >>
    BY <1>0 DEF Request, SaveRequest, OtherRequest, RequestOK
  <2>2. Tail(p.lane[1].todo) \in Seq({"status", "tune"})
    BY <2>1 DEF PassRequest
  <2>3. next \in PassRequest /\ next.kind = "pass" /\ next.at = "new"
    BY <2>1, <2>2 DEF PassRequest, At, Copy
  <2>4. next \in Request /\ RequestOK(next)
    BY <1>2, <2>3 DEF Request, RequestOK
  <2>5. q.lane = <<next>> \o Tail(p.lane)
    BY <1>2
  <2>6. /\ q.lane \in Seq(Request) /\ DOMAIN q.lane = DOMAIN p.lane /\ q.lane[1] = next
        /\ \A i \in DOMAIN p.lane \ {1} : q.lane[i] = p.lane[i]
    <3> DEFINE t == Tail(p.lane)
               n == Len(p.lane)
    <3>1. /\ n \in Nat \ {0} /\ DOMAIN p.lane = 1 .. n
          /\ t \in Seq(Request) /\ Len(t) = n - 1 /\ \A i \in 1 .. n - 1 : t[i] = p.lane[i + 1]
      BY ONLY <1>0, p.lane # << >>
    <3>2. <<next>> \in Seq(Request) /\ Len(<<next>>) = 1 /\ <<next>>[1] = next
      BY ONLY <2>4
    <3> HIDE DEF t, n
    <3>3. /\ q.lane \in Seq(Request) /\ Len(q.lane) = n
          /\ \A i \in 1 .. n : q.lane[i] = IF i = 1 THEN next ELSE t[i - 1]
      BY ONLY <2>5, <3>1, <3>2 DEF t
    <3>4. DOMAIN q.lane = 1 .. n
      BY ONLY <3>3
    <3>5. \A i \in 1 .. n \ {1} : i - 1 \in 1 .. n - 1 /\ t[i - 1] = p.lane[i]
      BY ONLY <3>1
    <3> QED BY ONLY <3>1, <3>3, <3>4, <3>5
  <2>7. /\ Fit(p) /\ p.lane # << >> /\ Elsewhere(p, q) /\ next \in Request /\ RequestOK(next) /\ next.kind = p.lane[1].kind
        /\ next.kind = "save" => next.sent = p.lane[1].sent
    BY <2>3, <2>4
  <2> QED BY ONLY <2>6, <2>7, WireAnswered
<1> QED BY <1>1, <1>2

LEMMA LandsMoves ==
  ASSUME AdminInv, Lands, tune.lane[1].kind # "save",
         ~(tune.lane[1].kind = "pass" /\ tune.lane[1].at = "ok" /\ Head(tune.lane[1].todo) # "status")
  PROVE  Moves
<1> DEFINE job == tune.lane[1]
           p == [tune EXCEPT !.lane = Tail(tune.lane)]
<1>0. /\ PageShape(tune) /\ tune.wx \in WeatherState /\ tune.paused \in BOOLEAN /\ server \in Server /\ Fit(tune)
      /\ tune.lane \in Seq(Request) /\ tune.lane # << >> /\ job \in Request /\ RequestOK(job)
  BY PageFacts DEF Lands, Fit, RequestsOK
<1>1. /\ server' = server /\ want' = want
      /\ tune' = CASE job.kind = "weather" -> [p EXCEPT !.wx = WeatherLands(@, job.at = "ok")]
                   [] job.kind = "power" -> PowerLands(p, job.at = "ok")
                   [] job.kind = "pass" /\ job.at = "new" -> p
                   [] OTHER -> PollLands(p, job)
  BY DEF Lands, Head1
<1>2. /\ PageShape(p) /\ p.values = tune.values /\ p.loaded = tune.loaded /\ p.sending = tune.sending /\ p.focus = tune.focus
      /\ p.ready = tune.ready /\ p.errs = tune.errs /\ p.heavy = tune.heavy /\ p.batch = tune.batch /\ p.retry = tune.retry
      /\ p.wx = tune.wx /\ p.paused = tune.paused /\ p.lane = Tail(tune.lane)
  <2>1. p = [tune EXCEPT !.lane = Tail(tune.lane)]
    OBVIOUS
  <2> HIDE DEF p
  <2> QED BY ONLY <1>0, <2>1 DEF PageShape
<1>k. job.kind \in {"weather", "power", "pass"}
  BY <1>0 DEF Request, SaveRequest, PassRequest, OtherRequest
<1> HIDE DEF p
<1>3. CASE job.kind = "weather"
  <2>1. tune' = [p EXCEPT !.wx = WeatherLands(p.wx, job.at = "ok")]
    BY <1>1, <1>3
  <2>2. WeatherLands(p.wx, job.at = "ok") \in WeatherState
    BY ZenonT(60), <1>0, <1>2 DEF WeatherLands, ScheduleWeather, WeatherState
  <2>3. Elsewhere(tune, tune') /\ tune'.lane = Tail(tune.lane)
    BY ONLY <1>0, <1>2, <2>1, <2>2 DEF PageShape, Elsewhere
  <2> QED BY <1>0, <1>1, <2>3, Done DEF Moves
<1>4. CASE job.kind = "power"
  <2>1. tune' = IF job.at # "ok" THEN [p EXCEPT !.busy = FALSE]
                ELSE [p EXCEPT !.paused = TRUE, !.watch = [NoWatch EXCEPT !.phase = "pending", !.base = p.powerBase]]
    BY <1>1, <1>4 DEF PowerLands
  <2>2. Elsewhere(tune, tune') /\ tune'.lane = Tail(tune.lane)
    BY ONLY <1>0, <1>2, <2>1 DEF PageShape, Elsewhere
  <2> QED BY <1>0, <1>1, <2>2, Done DEF Moves
<1>5. CASE job.kind = "pass" /\ job.at = "new"
  <2>1. tune' = p
    BY <1>1, <1>5
  <2>2. Elsewhere(tune, tune') /\ tune'.lane = Tail(tune.lane)
    BY ONLY <1>0, <1>2, <2>1 DEF PageShape, Elsewhere
  <2> QED BY <1>0, <1>1, <2>2, Done DEF Moves
<1>6. CASE job.kind = "pass" /\ job.at # "new"
  <2> DEFINE next == [job EXCEPT !.todo = Tail(job.todo), !.at = "new", !.copy = Nothing]
             what == Head(job.todo)
             q == CASE job.at = "no" -> p
                    [] job.at = "ok" /\ what = "status" -> [p EXCEPT !.startedAt = job.copy.proc]
                    [] OTHER -> [Load(p, job.copy.cfg) EXCEPT !.wx = PaintWeather(@, job.copy.wx)]
  <2>1. tune' = [q EXCEPT !.resync = IF what = "status" THEN FALSE ELSE @,
                          !.lane = IF next.todo = << >> THEN @ ELSE <<next>> \o @]
    BY <1>1, <1>6 DEF PollLands
  <2>2. job.at \in {"no", "ok"}
    <3>1. job.at \in At
      BY <1>0 DEF Request, SaveRequest, PassRequest, OtherRequest
    <3> QED BY <1>0, <1>6, <3>1 DEF At, RequestOK
  <2>3. /\ PageShape(q) /\ q.values = tune.values /\ q.loaded = tune.loaded /\ q.sending = tune.sending /\ q.focus = tune.focus
        /\ q.ready = tune.ready /\ q.errs = tune.errs /\ q.heavy = tune.heavy /\ q.batch = tune.batch /\ q.retry = tune.retry
        /\ q.wx = tune.wx /\ q.paused = tune.paused /\ q.lane = Tail(tune.lane)
    <3>1. q = p \/ q = [p EXCEPT !.startedAt = job.copy.proc]
      BY <1>6, <2>2
    <3> HIDE DEF q
    <3> QED BY ONLY ZenonT(60), <1>2, <3>1 DEF PageShape
  <2> HIDE DEF q, next, what
  <2>4. Elsewhere(tune, tune') /\ tune'.lane = IF next.todo = << >> THEN Tail(tune.lane) ELSE <<next>> \o Tail(tune.lane)
    BY ONLY <1>0, <2>1, <2>3 DEF PageShape, Elsewhere
  <2>5. Keeps(tune, tune') /\ (Early(tune) => Early(tune'))
    <3>1. next = [tune.lane[1] EXCEPT !.todo = Tail(tune.lane[1].todo), !.at = "new", !.copy = Nothing]
      BY DEF next
    <3>2. Fit(tune) /\ tune.lane # << >> /\ tune.lane[1].kind = "pass"
      BY SMTT(60), <1>0, <1>6
    <3> QED BY ONLY ZenonT(60), <2>4, <3>1, <3>2, PassGoesOn
  <2> QED BY SMTT(60), <1>0, <1>1, <2>5 DEF Moves
<1> QED BY <1>k, <1>3, <1>4, <1>5, <1>6

LEMMA ReloadFollows ==
  ASSUME AdminInv, Lands, tune.lane[1].kind = "pass", tune.lane[1].at = "ok", Head(tune.lane[1].todo) # "status"
  PROVE  Follows
<1> DEFINE job == tune.lane[1]
           p == [tune EXCEPT !.lane = Tail(tune.lane)]
           next == [job EXCEPT !.todo = Tail(job.todo), !.at = "new", !.copy = Nothing]
           l == IF next.todo = << >> THEN Tail(tune.lane) ELSE <<next>> \o Tail(tune.lane)
           r == [tune EXCEPT !.lane = l]
           cfg == job.copy.cfg
           resync == IF Head(job.todo) = "status" THEN FALSE ELSE tune.resync
           s == Load(p, cfg)
           t == Load(r, cfg)
           wx == PaintWeather(t.wx, job.copy.wx)
<1>0. /\ PageShape(tune) /\ tune.wx \in WeatherState /\ tune.paused \in BOOLEAN /\ server \in Server /\ Fit(tune)
      /\ tune.lane \in Seq(Request) /\ tune.lane # << >> /\ RequestOK(job) /\ tune.ready \in BOOLEAN
  BY PageFacts DEF Lands, Fit, RequestsOK
<1>1. job.copy.cfg \in Settings /\ job.copy.wx \in Values \cup {Nothing}
  BY SMTT(60), <1>0 DEF RequestOK
<1>2. /\ server' = server /\ want' = want
      /\ tune' = [[s EXCEPT !.wx = PaintWeather(@, job.copy.wx)]
                    EXCEPT !.resync = IF Head(job.todo) = "status" THEN FALSE ELSE @,
                           !.lane = IF next.todo = << >> THEN @ ELSE <<next>> \o @]
  BY ZenonT(60) DEF Lands, Head1, PollLands
<1>3. PageShape(p) /\ p.lane = Tail(tune.lane) /\ p.resync = tune.resync /\ p.wx = tune.wx
  <2>1. p = [tune EXCEPT !.lane = Tail(tune.lane)]
    OBVIOUS
  <2> HIDE DEF p
  <2> QED BY ONLY <1>0, <2>1 DEF PageShape
<1>4. r = [p EXCEPT !.lane = l]
  <2>1. p = [tune EXCEPT !.lane = Tail(tune.lane)] /\ r = [tune EXCEPT !.lane = l]
    OBVIOUS
  <2> HIDE DEF p, r, l
  <2> QED BY ONLY <1>0, <2>1 DEF PageShape
<1>5. t = [s EXCEPT !.lane = l]
  <2> HIDE DEF p, r, l, cfg
  <2> QED BY ONLY <1>3, <1>4, LoadsBeside
<1>6. Elsewhere(tune, r) /\ r.lane = l
  <2>1. r = [tune EXCEPT !.lane = l]
    OBVIOUS
  <2> HIDE DEF r, l
  <2> QED BY ONLY <1>0, <2>1 DEF PageShape, Elsewhere
<1>7. Keeps(tune, r) /\ (Early(tune) => Early(r))
  <2> DEFINE n == [tune.lane[1] EXCEPT !.todo = Tail(tune.lane[1].todo), !.at = "new", !.copy = Nothing]
  <2>1. /\ Fit(tune) /\ tune.lane # << >> /\ tune.lane[1].kind = "pass" /\ Elsewhere(tune, r)
        /\ r.lane = IF n.todo = << >> THEN Tail(tune.lane) ELSE <<n>> \o Tail(tune.lane)
    BY <1>0, <1>6
  <2> HIDE DEF n, r
  <2>2. n = [tune.lane[1] EXCEPT !.todo = Tail(tune.lane[1].todo), !.at = "new", !.copy = Nothing]
    BY DEF n
  <2> QED BY ONLY ZenonT(60), <2>1, <2>2, PassGoesOn
<1>8. Fit(r) /\ r.ready = tune.ready
  BY <1>7 DEF Keeps
<1> HIDE DEF r
<1>9. /\ PageShape(t) /\ t.sending = r.sending /\ t.focus = r.focus /\ t.ready /\ t.lane = r.lane /\ t.wx = r.wx
      /\ t.paused = r.paused
      /\ r.ready \/ r.errs = {} => Fit(t)
      /\ r.ready => \A f \in Fields, v \in Values \cup {Nothing} : Owed(r, v, f) /\ ~LetGo(r, f) => Owed(t, v, f)
  <2> HIDE DEF t, cfg
  <2>1. cfg \in Settings /\ t = Load(r, cfg)
    BY <1>1 DEF t, cfg
  <2> QED BY ONLY <1>8, <2>1, Loads
<1>10. Fit(t)
  BY <1>0, <1>7, <1>8, <1>9 DEF AdminInv, Early
<1>11. PageShape(s) /\ s.lane = Tail(tune.lane) /\ s.resync = tune.resync /\ s.wx = t.wx /\ s.paused = t.paused
  <2>1. PageShape(s) /\ s.lane = p.lane /\ s.resync = p.resync
    <3> HIDE DEF p, cfg
    <3> QED BY ONLY <1>3 DEF PageShape, Load, PaintRows
  <2>2. s.wx = t.wx /\ s.paused = t.paused
    <3> HIDE DEF s, t, l
    <3> QED BY ONLY <1>5, <2>1 DEF PageShape
  <2> QED BY <1>3, <2>1, <2>2
<1> HIDE DEF t, s
<1>12. tune' = [t EXCEPT !.wx = wx, !.resync = resync]
  <2>1. tune' = [s EXCEPT !.wx = wx, !.resync = resync, !.lane = l]
    <3> DEFINE u == [s EXCEPT !.wx = PaintWeather(@, job.copy.wx)]
    <3>1. u = [s EXCEPT !.wx = wx]
      BY <1>11
    <3> HIDE DEF u, wx
    <3>2. u.resync = tune.resync /\ u.lane = Tail(tune.lane)
      BY ONLY <1>11, <3>1 DEF PageShape
    <3>3. tune' = [u EXCEPT !.resync = resync, !.lane = l]
      BY <1>2, <3>2 DEF u
    <3> HIDE DEF resync, l
    <3> QED BY ONLY <1>11, <3>1, <3>3 DEF PageShape
  <2> HIDE DEF wx, resync, l
  <2> QED BY ONLY <1>5, <1>11, <2>1 DEF PageShape
<1>13. wx \in WeatherState
  <2>1. t.wx \in WeatherState
    BY <1>10 DEF Fit, PageOK
  <2> QED BY <1>1, <2>1 DEF PaintWeather, WeatherState
<1>14. Elsewhere(t, tune') /\ tune'.lane = t.lane
  <2>1. t.paused \in BOOLEAN
    BY <1>10 DEF Fit, PageOK
  <2> HIDE DEF wx, resync
  <2> QED BY ONLY <1>9, <1>12, <1>13, <2>1 DEF PageShape, Elsewhere
<1>15. Keeps(t, tune')
  BY <1>10, <1>14, LaneSame
<1>16. \A f \in Fields : Owed(tune, want[f], f) /\ ~LetGo(tune', f) => Owed(tune', want[f], f)
  <2> SUFFICES ASSUME NEW f \in Fields, Owed(tune, want[f], f), ~LetGo(tune', f) PROVE Owed(tune', want[f], f)
    OBVIOUS
  <2>0. want[f] \in Values \cup {Nothing}
    BY ReadyFacts
  <2>1. CASE ~tune.ready
    <3>1. want[f] = Nothing
      BY <2>1 DEF AdminInv
    <3> QED BY <3>1 DEF Owed
  <2>2. CASE tune.ready
    <3>1. tune'.lane = r.lane /\ tune'.sending = r.sending
      BY <1>9, <1>14 DEF Elsewhere
    <3>2. ~LetGo(r, f)
      BY <3>1, SavesSame DEF LetGo
    <3>3. Owed(r, want[f], f)
      BY <1>7, <2>0 DEF Keeps
    <3>4. Owed(t, want[f], f)
      BY <1>8, <1>9, <2>0, <2>2, <3>2, <3>3
    <3> QED BY <1>15, <2>0, <3>4 DEF Keeps
  <2> QED BY <2>1, <2>2
<1>17. tune'.ready /\ Fit(tune')
  BY <1>9, <1>14, <1>15 DEF Elsewhere, Keeps
<1> QED BY ZenonT(60), <1>0, <1>2, <1>16, <1>17, ReadyFacts DEF Follows

-----------------------------------------------------------------------------

LEMMA AdminStarts == PageInit => AdminInv
<1> SUFFICES ASSUME PageInit PROVE AdminInv
  OBVIOUS
<1> DEFINE any == CHOOSE v \in Values \ Invalid : TRUE
<1>1. any \in Values
  BY AdminAssumption
<1>2. /\ server = [cfg |-> [f \in Fields |-> any], wx |-> any, proc |-> 1, up |-> TRUE, leaving |-> FALSE]
      /\ tune = Opened /\ want = [f \in Fields |-> Nothing]
  BY DEF PageInit
<1>3. /\ PageShape(tune) /\ tune.ready = FALSE /\ tune.values = [f \in Fields |-> any] /\ tune.loaded = [f \in Fields |-> any]
      /\ tune.sending = [f \in Fields |-> Nothing] /\ tune.heavy = {} /\ tune.errs = {} /\ tune.focus = Nothing
      /\ tune.retry = {} /\ tune.batch = [kind |-> "idle", ids |-> {}, timer |-> FALSE, saving |-> {}, waits |-> 0]
      /\ tune.wx = [shown |-> Nothing, loaded |-> Nothing, timer |-> FALSE, saving |-> FALSE, queued |-> FALSE, err |-> FALSE]
      /\ tune.lane = << >> /\ tune.paused = FALSE
  BY <1>2 DEF Opened, PageShape
<1> HIDE DEF any
<1>4. server \in Server
  BY <1>1, <1>2 DEF Server, Settings
<1>5. PageOK(tune)
  <2>1. tune.values \in Settings /\ tune.loaded \in Settings /\ tune.sending \in Sending
    BY <1>1, <1>3 DEF Settings, Sending
  <2>2. tune.batch \in BatchState
    BY <1>3 DEF BatchState, BatchKind
  <2>3. tune.wx \in WeatherState
    BY <1>3 DEF WeatherState
  <2>4. tune.lane \in Seq(Request)
    BY <1>3
  <2> QED BY <1>3, <2>1, <2>2, <2>3, <2>4 DEF PageOK
<1>6. DOMAIN tune.lane = {} /\ \A f \in Fields : SavesOf(tune, f) = {}
  <2>1. DOMAIN tune.lane = {}
    BY <1>3
  <2> QED BY <2>1 DEF SavesOf
<1>7. Fit(tune)
  BY <1>3, <1>5, <1>6 DEF Fit, RequestsOK, MarksRight, BatchShown, EntriesRight
<1>8. \A f \in Fields : ~LetGo(tune, f) /\ Owed(tune, want[f], f)
  BY <1>2, <1>6 DEF LetGo, Owed
<1>9. Early(tune) /\ want \in Sending
  BY <1>2, <1>3, <1>6 DEF Early, Sending
<1> QED BY <1>2, <1>4, <1>7, <1>8, <1>9 DEF AdminInv

LEMMA AdminSteps == AdminInv /\ [PageNext]_<<pageVars, disowned>> => AdminInv'
<1> SUFFICES ASSUME AdminInv, [PageNext]_<<pageVars, disowned>> PROVE AdminInv'
  OBVIOUS
<1>1. CASE Step /\ disowned' = {f \in Fields : LetGo(tune', f) \/ (f \in disowned /\ ~Settled(tune', f, want'[f]))}
  <2>1. Follows
    <3>1. ASSUME Moves PROVE Follows
      BY <3>1, MovesFollow
    <3>2. ASSUME NEW f \in Fields, NEW v \in Values, Slide(f, v) \/ Enter(f, v) \/ OtherWrites(f, v)
          PROVE  Follows
      BY <3>1, <3>2, Slides, Enters, OtherMoves
    <3>3. CASE \E v \in Values : EditWeather(v)
      BY <3>1, <3>3, WeatherMoves
    <3>4. CASE RetryWeather \/ WeatherDelay
      BY <3>1, <3>4, WeatherMoves
    <3>5. CASE ReleaseSlider
      BY <3>5, Enters
    <3>6. CASE UndoBatch \/ Cancel
      BY <3>6, TakesBack
    <3>7. CASE RetryBatch \/ Countdown
      BY <3>1, <3>7, FlushMoves
    <3>8. CASE RetryDirect \/ Apply
      BY <3>8, Applies
    <3>9. CASE Power \/ \E todo \in Passes : Tick(todo)
      BY <3>1, <3>9, RequestMoves
    <3>10. CASE WatchAsks \/ (\E late \in BOOLEAN : ProbeAnswered(late)) \/ ProbeFails \/ Boots \/ Stays
      BY <1>1, <3>1, <3>10, PowerMoves
    <3>11. CASE GivesCopy \/ Puts \/ SetsWeather \/ TakesPower \/ AnswersPoll \/ Fails
      BY <3>1, <3>11, WireMoves
    <3>12. CASE Exit
      BY <3>1, <3>12, OtherMoves
    <3>13. CASE Lands
      <4>1. CASE tune.lane[1].kind = "save"
        BY <3>13, <4>1, SaveFollows
      <4>2. CASE tune.lane[1].kind = "pass" /\ tune.lane[1].at = "ok" /\ Head(tune.lane[1].todo) # "status"
        BY <3>13, <4>2, ReloadFollows
      <4>3. CASE tune.lane[1].kind # "save"
                 /\ ~(tune.lane[1].kind = "pass" /\ tune.lane[1].at = "ok" /\ Head(tune.lane[1].todo) # "status")
        BY <3>1, <3>13, <4>3, LandsMoves
      <4> QED BY <4>1, <4>2, <4>3
    <3> QED BY <1>1, <3>2, <3>3, <3>4, <3>5, <3>6, <3>7, <3>8, <3>9, <3>10, <3>11, <3>12, <3>13 DEF Step
  <2>2. \A f \in Fields : LetGo(tune', f) => f \in disowned'
    BY <1>1
  <2>3. \A f \in Fields \ disowned' : Owed(tune', want'[f], f)
    <3> SUFFICES ASSUME NEW f \in Fields, f \notin disowned' PROVE Owed(tune', want'[f], f)
      OBVIOUS
    <3>1. ~LetGo(tune', f) /\ (f \notin disowned \/ Settled(tune', f, want'[f]))
      BY <1>1
    <3>2. CASE Settled(tune', f, want'[f])
      BY <3>2 DEF Settled, Owed
    <3>3. CASE f \notin disowned
      <4>1. ~LetGo(tune, f) /\ Owed(tune, want[f], f)
        BY <3>3 DEF AdminInv
      <4> QED BY <2>1, <3>1, <4>1 DEF Follows
    <3> QED BY <3>1, <3>2, <3>3
  <2> QED BY <2>1, <2>2, <2>3 DEF AdminInv, Follows
<1>2. CASE UNCHANGED <<pageVars, disowned>>
  <2>1. server' = server /\ tune' = tune /\ want' = want /\ disowned' = disowned
    BY <1>2 DEF pageVars
  <2> QED BY <2>1 DEF AdminInv
<1> QED BY <1>1, <1>2 DEF PageNext

LEMMA AdminAlways == PageSpec => []AdminInv
<1> QED BY AdminStarts, AdminSteps, PTL DEF PageSpec

\* What the operator entered stays on the page until the radio has it, and the page knows it
\* still owes it, whatever the fields and their costs, however saves fail and others write
\* (saveIds(), commit(), load(), batcher.ts), save for the fields it let go of.
THEOREM EditsTheorem == PageSpec => []EditsKept
<1>1. AdminInv => EditsKept
  <2> SUFFICES ASSUME AdminInv, NEW f \in Fields \ disowned, want[f] # Nothing, tune.focus # f
               PROVE  /\ tune.values[f] = want[f]
                      /\ \/ f \in tune.batch.ids \cup tune.heavy \cup tune.errs
                         \/ \E i \in SavesOf(tune, f) : tune.lane[i].sent[f] = want[f]
    BY DEF EditsKept, EntryKept
  <2>1. Owed(tune, want[f], f) /\ ~LetGo(tune, f) /\ EntriesRight(tune)
    BY DEF AdminInv, Fit
  <2> QED BY <2>1 DEF Owed, LetGo, EntriesRight, LastSent
<1> QED BY <1>1, AdminAlways, PTL

-----------------------------------------------------------------------------
(* The power keys and the weather channel.  What the page does with its     *)
(* fields leaves both alone, and puts nothing but saves in the lane.        *)

\* The lane is a queue, of whatever.
BatchShape(b) == b = [kind |-> b.kind, ids |-> b.ids, timer |-> b.timer, saving |-> b.saving, waits |-> b.waits]
LaneOK(p) == PageShape(p) /\ BatchShape(p.batch) /\ \E s : p.lane \in Seq(s)

\* q holds the keys and the weather channel as p does...
SameHeld(p, q) ==
  /\ PageShape(q) /\ BatchShape(q.batch) /\ q.busy = p.busy /\ q.paused = p.paused /\ q.watch = p.watch
  /\ q.powerBase = p.powerBase /\ q.startedAt = p.startedAt /\ q.wx = p.wx

\* ...and so is the lane, but for saves that joined it.
Aside(p, q) ==
  /\ SameHeld(p, q) /\ LaneOK(q)
  /\ DOMAIN p.lane \subseteq DOMAIN q.lane
  /\ \A i \in DOMAIN q.lane : IF i \in DOMAIN p.lane THEN q.lane[i] = p.lane[i] ELSE q.lane[i].kind = "save"

LEMMA AsideOn == ASSUME NEW p, NEW q, NEW r, Aside(p, q), Aside(q, r) PROVE Aside(p, r)
<1>1. SameHeld(p, r) /\ LaneOK(r) /\ DOMAIN p.lane \subseteq DOMAIN r.lane
  BY DEF Aside, SameHeld
<1>2. ASSUME NEW i \in DOMAIN r.lane
      PROVE  IF i \in DOMAIN p.lane THEN r.lane[i] = p.lane[i] ELSE r.lane[i].kind = "save"
  BY DEF Aside
<1> QED BY <1>1, <1>2 DEF Aside

\* A function of the page that leaves the lane.
LEMMA AsideStill ==
  ASSUME NEW p, LaneOK(p), NEW q, SameHeld(p, q), q.lane = p.lane
  PROVE  Aside(p, q) /\ LaneOK(q)
BY DEF Aside, LaneOK, SameHeld

LEMMA AsideSelf == ASSUME NEW p, LaneOK(p) PROVE Aside(p, p)
BY AsideStill DEF SameHeld, LaneOK

\* A field's part of the page put otherwise.
LEMMA PartAside ==
  ASSUME NEW p, LaneOK(p), NEW x
  PROVE  /\ \A q \in {[p EXCEPT !.values = x], [p EXCEPT !.loaded = x], [p EXCEPT !.sending = x], [p EXCEPT !.errs = x],
                      [p EXCEPT !.heavy = x], [p EXCEPT !.inflight = x], [p EXCEPT !.focus = x], [p EXCEPT !.ready = x],
                      [p EXCEPT !.retry = x]} :
              Aside(p, q) /\ LaneOK(q)
         /\ \A q \in {[p EXCEPT !.batch.kind = x], [p EXCEPT !.batch.ids = x], [p EXCEPT !.batch.timer = x],
                      [p EXCEPT !.batch.saving = x], [p EXCEPT !.batch.waits = x]} :
              Aside(p, q) /\ LaneOK(q)
<1>1. ASSUME NEW q, \/ q = [p EXCEPT !.values = x] \/ q = [p EXCEPT !.loaded = x] \/ q = [p EXCEPT !.sending = x]
                    \/ q = [p EXCEPT !.errs = x] \/ q = [p EXCEPT !.heavy = x] \/ q = [p EXCEPT !.inflight = x]
                    \/ q = [p EXCEPT !.focus = x] \/ q = [p EXCEPT !.ready = x] \/ q = [p EXCEPT !.retry = x]
      PROVE  Aside(p, q) /\ LaneOK(q)
  <2>1. SameHeld(p, q) /\ q.lane = p.lane
    BY <1>1 DEF LaneOK, PageShape, SameHeld
  <2> QED BY <2>1, AsideStill
<1>2. ASSUME NEW q, NEW b, BatchShape(b), q = [p EXCEPT !.batch = b]
      PROVE  Aside(p, q) /\ LaneOK(q)
  <2>1. SameHeld(p, q) /\ q.lane = p.lane
    BY <1>2 DEF LaneOK, PageShape, SameHeld
  <2> QED BY <2>1, AsideStill
<1>3. /\ BatchShape([p.batch EXCEPT !.kind = x]) /\ BatchShape([p.batch EXCEPT !.ids = x])
      /\ BatchShape([p.batch EXCEPT !.timer = x]) /\ BatchShape([p.batch EXCEPT !.saving = x])
      /\ BatchShape([p.batch EXCEPT !.waits = x])
  BY DEF LaneOK, BatchShape
<1>4. ASSUME NEW q, \/ q = [p EXCEPT !.batch.kind = x] \/ q = [p EXCEPT !.batch.ids = x] \/ q = [p EXCEPT !.batch.timer = x]
                    \/ q = [p EXCEPT !.batch.saving = x] \/ q = [p EXCEPT !.batch.waits = x]
      PROVE  Aside(p, q) /\ LaneOK(q)
  BY <1>2, <1>3, <1>4
<1> QED BY <1>1, <1>4

\* The rows painted: the marks alone.
LEMMA PaintsAside ==
  ASSUME NEW p, LaneOK(p)
  PROVE  Aside(p, PaintRows(p)) /\ LaneOK(PaintRows(p))
<1> DEFINE errs == {f \in p.errs : p.values[f] # p.loaded[f]}
<1>1. PaintRows(p) = [p EXCEPT !.errs = errs]
  BY DEF PaintRows
<1> HIDE DEF errs
<1>2. Aside(p, [p EXCEPT !.errs = errs]) /\ LaneOK([p EXCEPT !.errs = errs])
  BY PartAside
<1> QED BY <1>1, <1>2

\* The batch's functions.
LEMMA BatchAside ==
  ASSUME NEW p, LaneOK(p)
  PROVE  /\ \A f : Aside(p, Change(p, f)) /\ Aside(p, Drop(p, f))
         /\ Aside(p, Undo(p)) /\ Aside(p, BatchSaved(p))
         /\ \A ids : Aside(p, BatchFails(p, ids))
<1>1. ASSUME NEW ids, NEW timer, NEW kind
      PROVE  Aside(p, [p EXCEPT !.batch.ids = ids, !.batch.timer = timer, !.batch.kind = kind])
  <2> DEFINE q == [p EXCEPT !.batch.ids = ids]
             r == [q EXCEPT !.batch.timer = timer]
             t == [r EXCEPT !.batch.kind = kind]
  <2>1. t = [p EXCEPT !.batch.ids = ids, !.batch.timer = timer, !.batch.kind = kind]
    OBVIOUS
  <2>2. Aside(p, q) /\ LaneOK(q)
    BY PartAside
  <2> HIDE DEF q
  <2>3. Aside(q, r) /\ LaneOK(r)
    BY <2>2, PartAside
  <2> HIDE DEF r
  <2>4. Aside(r, t)
    BY <2>3, PartAside
  <2> HIDE DEF t
  <2> QED BY <2>1, <2>2, <2>3, <2>4, AsideOn
<1>2. ASSUME NEW kind, NEW saving
      PROVE  Aside(p, [p EXCEPT !.batch.kind = kind, !.batch.saving = saving])
  <2> DEFINE q == [p EXCEPT !.batch.kind = kind]
             r == [q EXCEPT !.batch.saving = saving]
  <2>1. r = [p EXCEPT !.batch.kind = kind, !.batch.saving = saving]
    OBVIOUS
  <2>2. Aside(p, q) /\ LaneOK(q)
    BY PartAside
  <2> HIDE DEF q
  <2>3. Aside(q, r)
    BY <2>2, PartAside
  <2> HIDE DEF r
  <2> QED BY <2>1, <2>2, <2>3, AsideOn
<1>3. ASSUME NEW f PROVE Aside(p, Change(p, f))
  <2> DEFINE ids == p.batch.ids \cup {f}
  <2>1. Change(p, f) = [p EXCEPT !.batch.ids = ids, !.batch.timer = TRUE, !.batch.kind = "pending"]
    BY DEF Change
  <2> HIDE DEF ids
  <2>2. Aside(p, [p EXCEPT !.batch.ids = ids, !.batch.timer = TRUE, !.batch.kind = "pending"])
    BY ZenonT(60), <1>1
  <2> QED BY <2>1, <2>2
<1>4. ASSUME NEW f PROVE Aside(p, Drop(p, f))
  <2> DEFINE ids == p.batch.ids \ {f}
             kind == IF p.batch.saving # {} THEN "saving" ELSE "idle"
  <2>1. Drop(p, f) = CASE f \notin p.batch.ids -> p
                       [] p.batch.ids = {f} -> [p EXCEPT !.batch.ids = {}, !.batch.timer = FALSE, !.batch.kind = kind]
                       [] OTHER -> [p EXCEPT !.batch.ids = ids]
    BY DEF Drop
  <2> HIDE DEF ids, kind
  <2>2. Aside(p, p) /\ Aside(p, [p EXCEPT !.batch.ids = ids])
    BY AsideSelf, PartAside
  <2>3. Aside(p, [p EXCEPT !.batch.ids = {}, !.batch.timer = FALSE, !.batch.kind = kind])
    BY ZenonT(60), <1>1
  <2>4. CASE f \notin p.batch.ids
    BY <2>1, <2>2, <2>4
  <2>5. CASE f \in p.batch.ids /\ p.batch.ids = {f}
    BY <2>1, <2>3, <2>5
  <2>6. CASE f \in p.batch.ids /\ p.batch.ids # {f}
    BY <2>1, <2>2, <2>6
  <2> QED BY <2>4, <2>5, <2>6
<1>5. Aside(p, Undo(p))
  BY ZenonT(60), <1>1 DEF Undo
<1>6. Aside(p, BatchSaved(p))
  <2> DEFINE kind == IF p.batch.ids = {} THEN "saved" ELSE p.batch.kind
  <2>1. BatchSaved(p) = [p EXCEPT !.batch.kind = kind, !.batch.saving = {}]
    BY DEF BatchSaved
  <2> HIDE DEF kind
  <2>2. Aside(p, [p EXCEPT !.batch.kind = kind, !.batch.saving = {}])
    BY ZenonT(60), <1>2
  <2> QED BY <2>1, <2>2
<1>7. ASSUME NEW ids PROVE Aside(p, BatchFails(p, ids))
  <2> DEFINE all == p.batch.ids \cup ids
             q == [p EXCEPT !.batch.ids = all, !.batch.timer = FALSE, !.batch.kind = "error"]
             r == [q EXCEPT !.batch.saving = {}]
  <2>1. BatchFails(p, ids) = r
    BY DEF BatchFails
  <2> HIDE DEF all
  <2>2. Aside(p, q)
    BY ZenonT(60), <1>1
  <2> HIDE DEF q
  <2>3. Aside(q, r)
    BY ZenonT(60), <2>2, PartAside DEF Aside
  <2> HIDE DEF r
  <2> QED BY <2>1, <2>2, <2>3, AsideOn
<1> QED BY <1>3, <1>4, <1>5, <1>6, <1>7

LEMMA FailsAside ==
  ASSUME NEW p, LaneOK(p), NEW by, NEW ids
  PROVE  Aside(p, Failed(p, by, ids))
<1>1. CASE by = "batch"
  BY <1>1, BatchAside DEF Failed
<1>2. CASE by # "batch"
  <2> DEFINE fewer == p.inflight \ ids
             more == p.heavy \cup {f \in ids : p.values[f] # p.loaded[f]}
             q == [p EXCEPT !.inflight = fewer]
  <2>1. Failed(p, by, ids) = [q EXCEPT !.retry = ids] \/ Failed(p, by, ids) = [q EXCEPT !.heavy = more]
    BY <1>2 DEF Failed, LaneOK, PageShape
  <2>2. Aside(p, q) /\ LaneOK(q)
    <3> HIDE DEF fewer
    <3> QED BY PartAside
  <2> HIDE DEF q, more
  <2>3. Aside(q, [q EXCEPT !.retry = ids]) /\ Aside(q, [q EXCEPT !.heavy = more])
    BY <2>2, PartAside
  <2> QED BY <2>1, <2>2, <2>3, AsideOn
<1> QED BY <1>1, <1>2

LEMMA FlagsAside ==
  ASSUME NEW p, LaneOK(p), NEW ids
  PROVE  Aside(p, Flagged(p, ids))
<1> DEFINE errs == p.errs \cup ids
           q == [p EXCEPT !.errs = errs]
<1>1. Flagged(p, ids) = PaintRows(q)
  BY DEF Flagged
<1> HIDE DEF errs
<1>2. Aside(p, q) /\ LaneOK(q)
  BY PartAside
<1> HIDE DEF q
<1> QED BY <1>1, <1>2, PaintsAside, AsideOn

\* A save: at the end of the lane, or refused.
LEMMA SaveAside ==
  ASSUME NEW p, LaneOK(p), NEW ids, NEW by
  PROVE  Aside(p, SaveIds(p, ids, by))
<1> DEFINE job == SaveJob(p, ids, by)
           sending == [f \in Fields |-> IF f \notin ids THEN p.sending[f] ELSE IF p.paused THEN Nothing ELSE job.sent[f]]
           q == [p EXCEPT !.sending = sending]
           r == [q EXCEPT !.lane = Append(q.lane, job)]
<1>1. SaveIds(p, ids, by) = IF p.paused THEN Failed(Flagged(q, ids), by, ids) ELSE r
  BY DEF SaveIds
<1>2. job.kind = "save"
  BY DEF SaveJob
<1> HIDE DEF sending
<1>3. Aside(p, q) /\ LaneOK(q)
  BY PartAside
<1> HIDE DEF q, job
<1>4. Aside(q, Failed(Flagged(q, ids), by, ids))
  <2>1. Aside(q, Flagged(q, ids)) /\ LaneOK(Flagged(q, ids))
    BY <1>3, FlagsAside DEF Aside
  <2> QED BY <2>1, FailsAside, AsideOn
<1>5. Aside(q, r)
  <2> DEFINE lane == Append(q.lane, job)
  <2>0. r = [q EXCEPT !.lane = lane]
    OBVIOUS
  <2> HIDE DEF lane, r
  <2>1. SameHeld(q, r) /\ r.lane = lane
    BY <1>3, <2>0 DEF LaneOK, PageShape, SameHeld
  <2>2. PICK s : q.lane \in Seq(s)
    BY <1>3 DEF LaneOK
  <2> DEFINE t == s \cup {job}
             n == Len(q.lane)
  <2>3. q.lane \in Seq(t) /\ job \in t
    BY <2>2
  <2> HIDE DEF t
  <2>4. /\ r.lane \in Seq(t) /\ n \in Nat /\ DOMAIN q.lane = 1 .. n /\ DOMAIN r.lane = 1 .. n + 1 /\ r.lane[n + 1] = job
        /\ \A i \in 1 .. n : r.lane[i] = q.lane[i]
    BY <2>1, <2>3 DEF lane
  <2> HIDE DEF n
  <2>5. \A i \in DOMAIN r.lane : IF i \in DOMAIN q.lane THEN r.lane[i] = q.lane[i] ELSE r.lane[i].kind = "save"
    BY <1>2, <2>4
  <2> QED BY <2>1, <2>4, <2>5 DEF Aside, LaneOK, SameHeld
<1> HIDE DEF r
<1> QED BY <1>1, <1>3, <1>4, <1>5, AsideOn

LEMMA NowAside ==
  ASSUME NEW p, LaneOK(p), NEW ids, NEW by
  PROVE  Aside(p, SaveNow(p, ids, by))
<1> DEFINE inflight == p.inflight \cup ids
           q == [p EXCEPT !.inflight = inflight]
           r == [q EXCEPT !.retry = {}]
<1>1. SaveNow(p, ids, by) = SaveIds(r, ids, by)
  BY DEF SaveNow
<1> HIDE DEF inflight
<1>2. Aside(p, q) /\ LaneOK(q)
  BY PartAside
<1> HIDE DEF q
<1>3. Aside(q, r) /\ LaneOK(r)
  BY <1>2, PartAside
<1> HIDE DEF r
<1> QED BY <1>1, <1>2, <1>3, SaveAside, AsideOn

\* The batch's flushes.
LEMMA TakesAside == ASSUME NEW p, LaneOK(p) PROVE Aside(p, TakeBatch(p))
<1> DEFINE ids == p.batch.ids
           q == [p EXCEPT !.batch.ids = {}]
           r == [q EXCEPT !.batch.saving = ids]
           t == [r EXCEPT !.batch.kind = "saving"]
<1>1. TakeBatch(p) = IF ids = {} THEN p ELSE SaveIds(t, ids, "batch")
  BY DEF TakeBatch
<1> HIDE DEF ids
<1>2. Aside(p, q) /\ LaneOK(q)
  BY PartAside
<1> HIDE DEF q
<1>3. Aside(q, r) /\ LaneOK(r)
  BY <1>2, PartAside
<1> HIDE DEF r
<1>4. Aside(r, t) /\ LaneOK(t)
  BY <1>3, PartAside
<1> HIDE DEF t
<1>5. Aside(p, SaveIds(t, ids, "batch"))
  BY <1>2, <1>3, <1>4, SaveAside, AsideOn
<1> QED BY <1>1, <1>5, AsideSelf

LEMMA FlushAside == ASSUME NEW p, LaneOK(p) PROVE Aside(p, Flush(p))
<1> DEFINE q == [p EXCEPT !.batch.timer = FALSE]
           waits == q.batch.waits + 1
           r == [q EXCEPT !.batch.waits = waits]
<1>1. Flush(p) = IF p.batch.saving # {} THEN r ELSE TakeBatch(q)
  BY DEF Flush
<1> HIDE DEF waits
<1>2. Aside(p, q) /\ LaneOK(q)
  BY PartAside
<1> HIDE DEF q
<1>3. Aside(q, r)
  BY <1>2, PartAside
<1> HIDE DEF r
<1>4. Aside(q, TakeBatch(q))
  BY <1>2, TakesAside
<1> QED BY <1>1, <1>2, <1>3, <1>4, AsideOn

LEMMA ResumesAside == ASSUME NEW p, LaneOK(p) PROVE Aside(p, Resumed(p))
<1> DEFINE rest == IF p.paused \/ p.batch.ids = {} THEN 0 ELSE p.batch.waits - 1
           q == [p EXCEPT !.batch.waits = rest]
<1>1. Resumed(p) = IF p.batch.waits = 0 THEN p ELSE TakeBatch(q)
  BY DEF Resumed
<1> HIDE DEF rest
<1>2. Aside(p, q) /\ LaneOK(q)
  BY PartAside
<1> HIDE DEF q
<1>3. Aside(q, TakeBatch(q))
  BY <1>2, TakesAside
<1> QED BY <1>1, <1>2, <1>3, AsideSelf, AsideOn

\* The rows put back at what the radio has, or will have.
LEMMA RevertsAside == ASSUME NEW p, LaneOK(p), NEW ids PROVE Aside(p, Revert(p, ids)) /\ LaneOK(Revert(p, ids))
<1> DEFINE values == [f \in Fields |-> IF f \in ids THEN Baseline(p, f) ELSE p.values[f]]
           q == [p EXCEPT !.values = values]
<1>1. Revert(p, ids) = PaintRows(q)
  BY DEF Revert
<1> HIDE DEF values
<1>2. Aside(p, q) /\ LaneOK(q)
  BY PartAside
<1> HIDE DEF q
<1> QED BY <1>1, <1>2, PaintsAside, AsideOn

\* A change of the operator's, whatever its cost.
LEMMA CommitAside == ASSUME NEW p, LaneOK(p), NEW f PROVE Aside(p, Commit(p, f))
<1> DEFINE queued == Cost[f] \in {"scan", "heavy"}
           noChange == queued /\ IsNoOp(p, f)
           err == ~noChange /\ p.values[f] \in Invalid
           errs == IF err THEN p.errs \cup {f} ELSE p.errs \ {f}
           r == [p EXCEPT !.errs = errs]
           heavy == IF Cost[f] = "scan" THEN r.heavy \ {f} ELSE r.heavy
           s == [r EXCEPT !.heavy = heavy]
           q == PaintRows(s)
           fewer == q.heavy \ {f}
           more == q.heavy \cup {f}
<1>1. Commit(p, f) \in {Drop(q, f), [q EXCEPT !.heavy = fewer], SaveNow(q, {f}, "direct"), Change(q, f), [q EXCEPT !.heavy = more]}
  <2>1. q = PaintRows([p EXCEPT !.errs = IF err THEN @ \cup {f} ELSE @ \ {f}, !.heavy = IF Cost[f] = "scan" THEN @ \ {f} ELSE @])
    OBVIOUS
  <2> HIDE DEF q, s
  <2>2. Commit(p, f) = CASE (noChange \/ err) /\ Cost[f] = "scan" -> Drop(q, f)
                         [] (noChange \/ err) /\ Cost[f] # "scan" -> [q EXCEPT !.heavy = @ \ {f}]
                         [] ~noChange /\ ~err /\ Cost[f] = "live" -> SaveNow(q, {f}, "direct")
                         [] ~noChange /\ ~err /\ Cost[f] = "scan" -> Change(q, f)
                         [] OTHER -> [q EXCEPT !.heavy = @ \cup {f}]
    BY <2>1 DEF Commit
  <2> HIDE DEF noChange, err
  <2> QED BY <2>2
<1> HIDE DEF errs
<1>2. Aside(p, r) /\ LaneOK(r)
  BY PartAside
<1> HIDE DEF r, heavy
<1>3. Aside(r, s) /\ LaneOK(s)
  BY <1>2, PartAside
<1> HIDE DEF s
<1>4. Aside(s, q) /\ LaneOK(q)
  BY <1>3, PaintsAside
<1> HIDE DEF q, fewer, more
<1>5. /\ Aside(q, Drop(q, f)) /\ Aside(q, Change(q, f)) /\ Aside(q, SaveNow(q, {f}, "direct"))
      /\ Aside(q, [q EXCEPT !.heavy = fewer]) /\ Aside(q, [q EXCEPT !.heavy = more])
  BY <1>4, BatchAside, NowAside, PartAside
<1>6. Aside(p, q)
  BY <1>2, <1>3, <1>4, AsideOn
<1> QED BY <1>1, <1>5, <1>6, AsideOn

\* A save settled, obeyed or refused, its caller told.
LEMMA SettlesAside == ASSUME NEW p, LaneOK(p), NEW sent PROVE Aside(p, Settle(p, sent)) /\ LaneOK(Settle(p, sent))
<1> DEFINE sending == [f \in Fields |-> IF f \in DOMAIN sent /\ p.sending[f] = sent[f] THEN Nothing ELSE p.sending[f]]
<1>1. Settle(p, sent) = [p EXCEPT !.sending = sending]
  BY DEF Settle
<1> HIDE DEF sending
<1>2. Aside(p, [p EXCEPT !.sending = sending]) /\ LaneOK([p EXCEPT !.sending = sending])
  BY PartAside
<1> QED BY <1>1, <1>2

LEMMA SucceedsAside ==
  ASSUME NEW p, LaneOK(p), NEW sent, NEW cfg
  PROVE  Aside(p, SaveSucceeds(p, sent, cfg)) /\ LaneOK(SaveSucceeds(p, sent, cfg))
<1> DEFINE ids == DOMAIN sent
           errs == p.errs \ ids
           q == [p EXCEPT !.errs = errs]
           loaded == [f \in Fields |-> IF f \in ids THEN cfg[f] ELSE q.loaded[f]]
           r == [q EXCEPT !.loaded = loaded]
           values == [f \in Fields |-> IF f \in ids /\ r.values[f] = sent[f] THEN cfg[f] ELSE r.values[f]]
           s == [r EXCEPT !.values = values]
<1>1. SaveSucceeds(p, sent, cfg) = PaintRows(s)
  BY DEF SaveSucceeds
<1> HIDE DEF errs
<1>2. Aside(p, q) /\ LaneOK(q)
  BY PartAside
<1> HIDE DEF q, loaded
<1>3. Aside(q, r) /\ LaneOK(r)
  BY <1>2, PartAside
<1> HIDE DEF r, values
<1>4. Aside(r, s) /\ LaneOK(s)
  BY <1>3, PartAside
<1> HIDE DEF s
<1> QED BY <1>1, <1>2, <1>3, <1>4, PaintsAside, AsideOn

LEMMA LandsAside == ASSUME NEW p, LaneOK(p), NEW job PROVE Aside(p, SaveLands(p, job))
<1> DEFINE ids == DOMAIN job.sent
           q == Settle(p, job.sent)
           v == IF job.at = "ok" THEN SaveSucceeds(q, job.sent, job.copy.cfg) ELSE Flagged(q, ids)
           fewer == v.inflight \ ids
<1>1. SaveLands(p, job) \in {Resumed(BatchFails(v, ids)), Failed(v, job.by, ids), Resumed(BatchSaved(v)),
                              [v EXCEPT !.inflight = fewer]}
  <2>1. SaveLands(p, job) = CASE job.at = "no" /\ job.by = "batch" -> Resumed(BatchFails(v, ids))
                              [] job.at = "no" /\ job.by # "batch" -> Failed(v, job.by, ids)
                              [] job.at = "ok" /\ job.by = "batch" -> Resumed(BatchSaved(v))
                              [] OTHER -> [v EXCEPT !.inflight = @ \ ids]
    BY DEF SaveLands
  <2> HIDE DEF v, ids
  <2> QED BY <2>1
<1>2. Aside(p, q) /\ LaneOK(q)
  BY SettlesAside
<1> HIDE DEF q
<1>3. Aside(q, v) /\ LaneOK(v)
  BY <1>2, SucceedsAside, FlagsAside DEF Aside
<1> HIDE DEF v, ids, fewer
<1>4. Aside(v, Resumed(BatchFails(v, ids))) /\ Aside(v, Resumed(BatchSaved(v)))
  <2>1. Aside(v, BatchFails(v, ids)) /\ Aside(v, BatchSaved(v))
    BY <1>3, BatchAside
  <2>2. LaneOK(BatchFails(v, ids)) /\ LaneOK(BatchSaved(v))
    BY <2>1 DEF Aside
  <2> QED BY <2>1, <2>2, ResumesAside, AsideOn
<1>5. Aside(v, Failed(v, job.by, ids)) /\ Aside(v, [v EXCEPT !.inflight = fewer])
  BY <1>3, FailsAside, PartAside
<1>6. Aside(p, v)
  BY <1>2, <1>3, AsideOn
<1> QED BY <1>1, <1>4, <1>5, <1>6, AsideOn

LEMMA LoadsAside == ASSUME NEW p, LaneOK(p), NEW cfg PROVE Aside(p, Load(p, cfg)) /\ Load(p, cfg).lane = p.lane
<1>0. SameHeld(p, Load(p, cfg)) /\ Load(p, cfg).lane = p.lane
  <2>1. CASE ~p.ready
    BY <2>1 DEF Load, LaneOK, PageShape, SameHeld
  <2>2. CASE p.ready
    <3> DEFINE follow == {f \in Fields : Untouched(p, f)}
               values == [f \in Fields |-> IF f \in follow THEN cfg[f] ELSE p.values[f]]
               q == [p EXCEPT !.values = values]
               loaded == [f \in Fields |-> IF f \in follow THEN cfg[f] ELSE q.loaded[f]]
               r == [q EXCEPT !.loaded = loaded]
               errs == {f \in r.errs : r.values[f] # r.loaded[f]}
               s == [r EXCEPT !.errs = errs]
    <3>1. Load(p, cfg) = s
      BY <2>2 DEF Load, PaintRows
    <3> HIDE DEF values, loaded, errs
    <3>2. s = [p EXCEPT !.values = values, !.loaded = loaded, !.errs = errs]
      OBVIOUS
    <3> HIDE DEF q, r, s
    <3>3. PageShape(p) /\ BatchShape(p.batch)
      BY DEF LaneOK
    <3> DEFINE t == Load(p, cfg)
    <3> HIDE DEF t
    <3>4. /\ PageShape(t) /\ t.batch = p.batch /\ t.busy = p.busy /\ t.paused = p.paused /\ t.watch = p.watch
          /\ t.powerBase = p.powerBase /\ t.startedAt = p.startedAt /\ t.wx = p.wx /\ t.lane = p.lane
      <4>1. t = [p EXCEPT !.values = values, !.loaded = loaded, !.errs = errs]
        BY <3>1, <3>2 DEF t
      <4> QED BY ONLY <3>3, <4>1 DEF PageShape
    <3>5. SameHeld(p, t) /\ t.lane = p.lane
      BY <3>3, <3>4 DEF SameHeld
    <3> QED BY <3>5 DEF t
  <2> QED BY <2>1, <2>2
<1> QED BY <1>0, AsideStill

-----------------------------------------------------------------------------
\* What the keys and the weather channel hold, between any two steps.

\* The requests of a kind in a page's lane; whether there is one at most.
Of(p, kind) == {i \in DOMAIN p.lane : p.lane[i].kind = kind}
One(p, kind) == \A i, j \in Of(p, kind) : i = j

\* The processes are numbered as they start: an answered poll of the status names one that ran.
StatusRan(j, n) == j.kind = "pass" /\ j.at = "ok" /\ Head(j.todo) = "status" => j.copy.proc \in 1 .. n
StatusesRan(p, n) == \A i \in DOMAIN p.lane : StatusRan(p.lane[i], n)

WatchShape(w) == w = [phase |-> w.phase, base |-> w.base, sawDown |-> w.sawDown, probe |-> w.probe]

PowerRight(p, n) ==
  /\ p.busy \in BOOLEAN /\ p.paused \in BOOLEAN /\ WatchShape(p.watch) /\ One(p, "power")
  /\ p.busy <=> Of(p, "power") # {} \/ p.watch.phase # "none"
  /\ p.paused <=> p.watch.phase # "none"
  /\ Of(p, "power") # {} => p.watch.phase = "none" /\ p.powerBase \in 1 .. n
  /\ p.watch.phase # "none" => p.watch.base \in 1 .. n
  /\ p.watch.probe # "idle" => p.watch.phase # "none"
  /\ p.startedAt # Nothing => p.startedAt \in 1 .. n

\* An edit of the weather channel is counted down, on its way or marked.
Marked(w) ==
  /\ ~(w.timer /\ w.saving) /\ (w.queued => w.saving)
  /\ w.loaded # Nothing /\ w.shown # w.loaded => w.timer \/ w.saving \/ w.err

WeatherRight(p) ==
  /\ One(p, "weather") /\ p.wx \in WeatherState /\ Marked(p.wx)
  /\ p.wx.saving <=> Of(p, "weather") # {}

KeysRight(p, n) == PowerRight(p, n) /\ WeatherRight(p) /\ StatusesRan(p, n)

KeysInv == server.proc \in Nat \ {0} /\ KeysRight(tune, server.proc)

\* The lane, as far as its requests of a kind go.
SameQueue(p, q, kind) == (Of(q, kind) = {} <=> Of(p, kind) = {}) /\ (One(p, kind) => One(q, kind))

SamePower(p, q) ==
  /\ q.busy = p.busy /\ q.paused = p.paused /\ q.watch = p.watch
  /\ q.powerBase = p.powerBase /\ q.startedAt = p.startedAt

LEMMA PowerStays ==
  ASSUME NEW p, NEW q, NEW n \in Nat, NEW m \in Nat, n <= m, PowerRight(p, n), SamePower(p, q), SameQueue(p, q, "power")
  PROVE  PowerRight(q, m)
<1>1. \A x \in 1 .. n : x \in 1 .. m
  OBVIOUS
<1> QED BY <1>1 DEF PowerRight, SamePower, SameQueue

LEMMA WeatherStays ==
  ASSUME NEW p, NEW q, WeatherRight(p), q.wx = p.wx, SameQueue(p, q, "weather")
  PROVE  WeatherRight(q)
BY DEF WeatherRight, SameQueue

LEMMA QueueSame ==
  ASSUME NEW p, NEW q, NEW kind, Of(q, kind) = Of(p, kind)
  PROVE  SameQueue(p, q, kind)
BY DEF SameQueue, One

\* What the page does with its fields.
LEMMA AsideRight ==
  ASSUME NEW p, NEW q, NEW n \in Nat, Aside(p, q), KeysRight(p, n)
  PROVE  KeysRight(q, n)
<1>1. Of(q, "power") = Of(p, "power") /\ Of(q, "weather") = Of(p, "weather")
  BY DEF Aside, Of
<1>2. StatusesRan(q, n)
  BY DEF Aside, KeysRight, StatusesRan, StatusRan
<1>3. SamePower(p, q) /\ q.wx = p.wx
  BY DEF Aside, SameHeld, SamePower
<1> QED BY <1>1, <1>2, <1>3, QueueSame, PowerStays, WeatherStays DEF KeysRight

\* The first request answered, or spoilt.
LEMMA AnsweredRight ==
  ASSUME NEW p, NEW q, NEW n \in Nat, NEW m \in Nat, n <= m, KeysRight(p, n), SamePower(p, q), q.wx = p.wx,
         DOMAIN q.lane = DOMAIN p.lane, \A i \in DOMAIN p.lane \ {1} : q.lane[i] = p.lane[i],
         q.lane[1].kind = p.lane[1].kind, StatusRan(q.lane[1], m)
  PROVE  KeysRight(q, m)
<1>1. \A i \in DOMAIN p.lane : q.lane[i].kind = p.lane[i].kind
  OBVIOUS
<1>2. Of(q, "power") = Of(p, "power") /\ Of(q, "weather") = Of(p, "weather")
  BY <1>1 DEF Of
<1>3. StatusesRan(q, m)
  <2> SUFFICES ASSUME NEW i \in DOMAIN q.lane PROVE StatusRan(q.lane[i], m)
    BY DEF StatusesRan
  <2>1. CASE i = 1
    BY <2>1
  <2>2. CASE i # 1
    <3>1. q.lane[i] = p.lane[i] /\ StatusRan(p.lane[i], n)
      BY <2>2 DEF KeysRight, StatusesRan
    <3>2. \A x \in 1 .. n : x \in 1 .. m
      OBVIOUS
    <3> QED BY <3>1, <3>2 DEF StatusRan
  <2> QED BY <2>1, <2>2
<1> QED BY <1>2, <1>3, QueueSame, PowerStays, WeatherStays DEF KeysRight

\* A request joins the lane...
LEMMA JoinsQueue ==
  ASSUME NEW p, NEW s, p.lane \in Seq(s), NEW j, NEW q, q.lane = Append(p.lane, j)
  PROVE  /\ \A kind : kind # j.kind => SameQueue(p, q, kind)
         /\ Of(p, j.kind) = {} => Of(q, j.kind) # {} /\ One(q, j.kind)
         /\ \A n : StatusesRan(p, n) /\ j.at = "new" => StatusesRan(q, n)
<1> DEFINE t == s \cup {j}
           len == Len(p.lane)
<1>1. p.lane \in Seq(t) /\ j \in t
  OBVIOUS
<1> HIDE DEF t
<1>2. /\ len \in Nat /\ DOMAIN p.lane = 1 .. len /\ DOMAIN q.lane = 1 .. len + 1 /\ q.lane[len + 1] = j
      /\ \A i \in 1 .. len : q.lane[i] = p.lane[i]
  BY <1>1
<1> HIDE DEF len
<1>3. ASSUME NEW kind, kind # j.kind PROVE SameQueue(p, q, kind)
  <2>1. Of(q, kind) = Of(p, kind)
    BY <1>2, <1>3 DEF Of
  <2> QED BY <2>1, QueueSame
<1>4. ASSUME Of(p, j.kind) = {} PROVE Of(q, j.kind) # {} /\ One(q, j.kind)
  <2>1. Of(q, j.kind) = {len + 1}
    BY <1>2, <1>4 DEF Of
  <2> QED BY <2>1 DEF One
<1>5. ASSUME NEW n, StatusesRan(p, n), j.at = "new" PROVE StatusesRan(q, n)
  BY <1>2, <1>5 DEF StatusesRan, StatusRan
<1> QED BY <1>3, <1>4, <1>5

\* ...and leaves it...
LEMMA LeavesQueue ==
  ASSUME NEW p, NEW s, p.lane \in Seq(s), p.lane # << >>, NEW q, q.lane = Tail(p.lane)
  PROVE  /\ \A kind : kind # p.lane[1].kind => SameQueue(p, q, kind)
         /\ \A kind : kind = p.lane[1].kind /\ One(p, kind) => Of(p, kind) # {} /\ Of(q, kind) = {} /\ One(q, kind)
         /\ \A n : StatusesRan(p, n) => StatusesRan(q, n)
<1> DEFINE len == Len(p.lane)
<1>1. /\ len \in Nat \ {0} /\ DOMAIN p.lane = 1 .. len /\ DOMAIN q.lane = 1 .. len - 1
      /\ \A i \in 1 .. len - 1 : q.lane[i] = p.lane[i + 1]
  OBVIOUS
<1> HIDE DEF len
<1>2. \A kind : \A i \in Of(q, kind) : i \in Int /\ i + 1 \in Of(p, kind) /\ i + 1 # 1
  BY <1>1 DEF Of
<1>3. \A kind : \A i \in Of(p, kind) \ {1} : i - 1 \in Of(q, kind)
  <2> SUFFICES ASSUME NEW kind, NEW i \in Of(p, kind), i # 1 PROVE i - 1 \in Of(q, kind)
    OBVIOUS
  <2>1. i \in 1 .. len /\ p.lane[i].kind = kind
    BY <1>1 DEF Of
  <2>2. i - 1 \in 1 .. len - 1 /\ (i - 1) + 1 = i
    BY <1>1, <2>1
  <2>3. q.lane[i - 1] = p.lane[i]
    BY <1>1, <2>2
  <2> QED BY <1>1, <2>1, <2>2, <2>3 DEF Of
<1>4. ASSUME NEW kind, kind # p.lane[1].kind PROVE SameQueue(p, q, kind)
  <2>1. 1 \notin Of(p, kind)
    BY <1>4 DEF Of
  <2>2. Of(q, kind) = {} <=> Of(p, kind) = {}
    BY <1>2, <1>3, <2>1
  <2>3. ASSUME One(p, kind), NEW i \in Of(q, kind), NEW j \in Of(q, kind) PROVE i = j
    BY <1>2, <2>3 DEF One
  <2> QED BY <2>2, <2>3 DEF SameQueue, One
<1>5. ASSUME NEW kind, kind = p.lane[1].kind, One(p, kind) PROVE Of(p, kind) # {} /\ Of(q, kind) = {} /\ One(q, kind)
  <2>1. 1 \in Of(p, kind)
    BY <1>1, <1>5 DEF Of
  <2>2. Of(q, kind) = {}
    BY <1>2, <1>5, <2>1 DEF One
  <2> QED BY <2>1, <2>2 DEF One
<1>6. ASSUME NEW n, StatusesRan(p, n) PROVE StatusesRan(q, n)
  <2>1. \A i \in 1 .. len - 1 : i + 1 \in 1 .. len
    BY <1>1
  <2> QED BY <1>1, <1>6, <2>1 DEF StatusesRan
<1> QED BY <1>4, <1>5, <1>6

\* ...and a pass goes back to its front.
LEMMA FrontsQueue ==
  ASSUME NEW p, NEW s, p.lane \in Seq(s), NEW j, j.kind = "pass", j.at = "new", NEW q, q.lane = <<j>> \o p.lane
  PROVE  /\ SameQueue(p, q, "power") /\ SameQueue(p, q, "weather")
         /\ \A n : StatusesRan(p, n) => StatusesRan(q, n)
<1> DEFINE t == s \cup {j}
           len == Len(p.lane)
<1>1. p.lane \in Seq(t) /\ <<j>> \in Seq(t) /\ Len(<<j>>) = 1 /\ <<j>>[1] = j
  OBVIOUS
<1> HIDE DEF t
<1>2. /\ len \in Nat /\ DOMAIN p.lane = 1 .. len /\ DOMAIN q.lane = 1 .. len + 1 /\ q.lane[1] = j
      /\ \A i \in 1 .. len + 1 : i # 1 => q.lane[i] = p.lane[i - 1]
  BY <1>1
<1> HIDE DEF len
<1>3. ASSUME NEW kind, kind # "pass" PROVE SameQueue(p, q, kind)
  <2>1. \A i \in Of(q, kind) : i \in Int /\ i - 1 \in Of(p, kind)
    BY <1>2, <1>3 DEF Of
  <2>2. \A i \in Of(p, kind) : i + 1 \in Of(q, kind)
    <3> SUFFICES ASSUME NEW i \in Of(p, kind) PROVE i + 1 \in Of(q, kind)
      OBVIOUS
    <3>1. i \in 1 .. len /\ p.lane[i].kind = kind
      BY <1>2 DEF Of
    <3>2. i + 1 \in 1 .. len + 1 /\ i + 1 # 1 /\ (i + 1) - 1 = i
      BY <1>2, <3>1
    <3>3. q.lane[i + 1] = p.lane[i]
      BY <1>2, <3>2
    <3> QED BY <1>2, <3>1, <3>2, <3>3 DEF Of
  <2>3. ASSUME One(p, kind), NEW i \in Of(q, kind), NEW k \in Of(q, kind) PROVE i = k
    <3>1. i - 1 = k - 1 /\ i \in Int /\ k \in Int
      BY <2>1, <2>3 DEF One
    <3> QED BY <3>1
  <2> QED BY <2>1, <2>2, <2>3 DEF SameQueue, One
<1>4. ASSUME NEW n, StatusesRan(p, n) PROVE StatusesRan(q, n)
  <2> SUFFICES ASSUME NEW i \in 1 .. len + 1 PROVE StatusRan(q.lane[i], n)
    BY <1>2 DEF StatusesRan
  <2>1. CASE i = 1
    BY <1>2, <2>1 DEF StatusRan
  <2>2. CASE i # 1
    <3>1. i - 1 \in 1 .. len
      BY <1>2, <2>2
    <3> QED BY <1>2, <1>4, <2>2, <3>1 DEF StatusesRan
  <2> QED BY <2>1, <2>2
<1> QED BY <1>3, <1>4

-----------------------------------------------------------------------------
\* The steps.

LEMMA LaneFacts ==
  ASSUME AdminInv
  PROVE  /\ LaneOK(tune) /\ PageShape(tune) /\ BatchShape(tune.batch) /\ tune.lane \in Seq(Request)
         /\ tune.wx \in WeatherState
<1>1. PageShape(tune) /\ tune.lane \in Seq(Request) /\ tune.batch \in BatchState /\ tune.wx \in WeatherState
  BY DEF AdminInv, Fit, PageOK
<1>2. BatchShape(tune.batch)
  BY <1>1 DEF BatchState, BatchShape
<1> QED BY <1>1, <1>2 DEF LaneOK

\* A step that leaves the service's process alone and holds the keys.
LEMMA HeldOn ==
  ASSUME KeysInv, server'.proc = server.proc, KeysRight(tune', server.proc)
  PROVE  KeysInv'
BY DEF KeysInv, KeysRight, PowerRight, WeatherRight, StatusesRan, Of, One, StatusRan, WatchShape, Marked

\* What the operator does with the fields, and the countdown.
LEMMA FieldsAside ==
  ASSUME AdminInv, KeysInv,
         \/ \E f \in Fields, v \in Values : Slide(f, v) \/ Enter(f, v)
         \/ ReleaseSlider \/ UndoBatch \/ RetryBatch \/ RetryDirect \/ Apply \/ Cancel \/ Countdown
  PROVE  KeysInv'
<1>0. LaneOK(tune)
  BY LaneFacts
<1>1. ASSUME Aside(tune, tune'), server' = server PROVE KeysInv'
  <2>1. server.proc \in Nat /\ KeysRight(tune, server.proc)
    BY DEF KeysInv
  <2>2. KeysRight(tune', server.proc)
    BY <1>1, <2>1, AsideRight
  <2> QED BY <1>1, <2>2, HeldOn
<1>2. ASSUME NEW f \in Fields, NEW v \in Values, Slide(f, v) PROVE KeysInv'
  <2> DEFINE display == [tune.values EXCEPT ![f] = v]
             p == [tune EXCEPT !.values = display]
             q == [p EXCEPT !.focus = f]
  <2>1. tune' = [tune EXCEPT !.values[f] = v, !.focus = f] /\ server' = server
    BY ZenonT(60), <1>2 DEF Slide, Wire
  <2>2. PageShape(tune)
    BY LaneFacts
  <2>3. tune' = q
    <3> HIDE DEF display
    <3>1. tune' = [tune EXCEPT !.values = display, !.focus = f]
      BY ONLY <2>1, <2>2 DEF PageShape, display
    <3> QED BY ONLY <2>2, <3>1 DEF PageShape
  <2> HIDE DEF display
  <2>4. Aside(tune, p) /\ LaneOK(p)
    BY <1>0, PartAside
  <2> HIDE DEF p
  <2>5. Aside(p, q)
    BY <2>4, PartAside
  <2> HIDE DEF q
  <2> QED BY <1>1, <2>1, <2>3, <2>4, <2>5, AsideOn
<1>3. ASSUME NEW f \in Fields, NEW v \in Values, Enter(f, v) PROVE KeysInv'
  <2> DEFINE display == [tune.values EXCEPT ![f] = v]
             p == [tune EXCEPT !.values = display]
  <2>1. tune' = Commit([tune EXCEPT !.values[f] = v], f) /\ server' = server
    BY <1>3 DEF Enter, Wire
  <2>2. PageShape(tune)
    BY LaneFacts
  <2>3. tune' = Commit(p, f)
    <3>1. p = [tune EXCEPT !.values[f] = v]
      BY ONLY <2>2 DEF PageShape
    <3> QED BY ONLY <2>1, <3>1
  <2> HIDE DEF display
  <2>4. Aside(tune, p) /\ LaneOK(p)
    BY <1>0, PartAside
  <2> HIDE DEF p
  <2>5. Aside(p, Commit(p, f))
    BY <2>4, CommitAside
  <2> QED BY <1>1, <2>1, <2>3, <2>4, <2>5, AsideOn
<1>4. CASE ReleaseSlider
  <2> DEFINE p == [tune EXCEPT !.focus = Nothing]
  <2>1. tune' = Commit(p, tune.focus) /\ server' = server
    BY <1>4 DEF ReleaseSlider, Wire
  <2>2. Aside(tune, p) /\ LaneOK(p)
    BY <1>0, PartAside
  <2> HIDE DEF p
  <2>3. Aside(p, Commit(p, tune.focus))
    BY <2>2, CommitAside
  <2> QED BY <1>1, <2>1, <2>2, <2>3, AsideOn
<1>5. CASE UndoBatch
  <2>1. tune' = Revert(Undo(tune), tune.batch.ids) /\ server' = server
    BY <1>5 DEF UndoBatch, Wire
  <2>2. Aside(tune, Undo(tune)) /\ LaneOK(Undo(tune))
    BY <1>0, BatchAside DEF Aside
  <2>3. Aside(Undo(tune), Revert(Undo(tune), tune.batch.ids))
    BY <2>2, RevertsAside
  <2> QED BY <1>1, <2>1, <2>2, <2>3, AsideOn
<1>6. CASE RetryBatch \/ Countdown
  BY <1>0, <1>1, <1>6, FlushAside DEF RetryBatch, Countdown, Wire
<1>7. CASE RetryDirect
  BY <1>0, <1>1, <1>7, NowAside DEF RetryDirect, Wire
<1>8. CASE Apply
  <2> DEFINE fold == tune.batch.kind \in {"pending", "error"}
             ids == tune.heavy \cup (IF fold THEN tune.batch.ids ELSE {})
             q == [tune EXCEPT !.heavy = {}]
             r == IF fold THEN Undo(q) ELSE q
  <2>1. tune' = SaveNow(r, ids, "apply") /\ server' = server
    BY <1>8 DEF Apply, Wire
  <2>2. Aside(tune, q) /\ LaneOK(q)
    BY <1>0, PartAside
  <2> HIDE DEF q
  <2>3. Aside(tune, r) /\ LaneOK(r)
    <3>1. Aside(q, Undo(q))
      BY <2>2, BatchAside
    <3> QED BY <2>2, <3>1, AsideOn DEF Aside
  <2> HIDE DEF r, ids
  <2>4. Aside(r, SaveNow(r, ids, "apply"))
    BY <2>3, NowAside
  <2> QED BY <1>1, <2>1, <2>3, <2>4, AsideOn
<1>9. CASE Cancel
  <2> DEFINE q == [tune EXCEPT !.heavy = {}]
  <2>1. tune' = Revert(q, tune.heavy) /\ server' = server
    BY <1>9 DEF Cancel, Wire
  <2>2. Aside(tune, q) /\ LaneOK(q)
    BY <1>0, PartAside
  <2> HIDE DEF q
  <2>3. Aside(q, Revert(q, tune.heavy))
    BY <2>2, RevertsAside
  <2> QED BY <1>1, <2>1, <2>2, <2>3, AsideOn
<1> QED BY <1>2, <1>3, <1>4, <1>5, <1>6, <1>7, <1>8, <1>9

\* The weather channel, edited, tried again, its delay over.
LEMMA WeatherHeld ==
  ASSUME AdminInv, KeysInv, RetryWeather \/ WeatherDelay \/ \E v \in Values : EditWeather(v)
  PROVE  KeysInv'
<1>0. PageShape(tune) /\ tune.lane \in Seq(Request) /\ tune.wx \in WeatherState
  BY LaneFacts
<1>1. /\ server.proc \in Nat /\ KeysRight(tune, server.proc)
      /\ PowerRight(tune, server.proc) /\ WeatherRight(tune) /\ StatusesRan(tune, server.proc)
  BY DEF KeysInv, KeysRight
<1>2. ASSUME NEW w \in WeatherState, Marked(w), w.saving = tune.wx.saving,
             tune' = [tune EXCEPT !.wx = w], server' = server
      PROVE  KeysInv'
  <2>1. SamePower(tune, tune') /\ tune'.lane = tune.lane /\ tune'.wx = w
    BY ONLY <1>0, <1>2 DEF PageShape, SamePower
  <2>2. \A kind : Of(tune', kind) = Of(tune, kind)
    BY <2>1 DEF Of
  <2>3. PowerRight(tune', server.proc)
    BY <1>1, <2>1, <2>2, QueueSame, PowerStays
  <2>4. WeatherRight(tune')
    BY <1>1, <1>2, <2>1, <2>2 DEF WeatherRight, One
  <2>5. StatusesRan(tune', server.proc)
    BY <1>1, <2>1 DEF StatusesRan
  <2> QED BY <1>2, <2>3, <2>4, <2>5, HeldOn DEF KeysRight
<1>3. ASSUME NEW w \in WeatherState, ~w.timer, ~w.saving, ~w.queued, ~tune.wx.saving,
             tune' = SaveWeather([tune EXCEPT !.wx = w]), server' = server
      PROVE  KeysInv'
  <2> DEFINE s == [tune EXCEPT !.wx = w]
             j == [kind |-> "weather", sent |-> w.shown, at |-> "new", copy |-> Nothing]
             on == [w EXCEPT !.saving = TRUE, !.err = FALSE]
             off == [w EXCEPT !.err = TRUE]
  <2>1. s = [tune EXCEPT !.wx = w]
    OBVIOUS
  <2>2. tune' = IF s.paused THEN [s EXCEPT !.wx.err = TRUE]
                ELSE [s EXCEPT !.wx = [@ EXCEPT !.saving = TRUE, !.err = FALSE],
                               !.lane = Append(@, [kind |-> "weather", sent |-> s.wx.shown, at |-> "new", copy |-> Nothing])]
    BY <1>3 DEF SaveWeather
  <2> HIDE DEF s
  <2>3. PageShape(s) /\ s.wx = w /\ s.lane = tune.lane /\ s.paused = tune.paused
    BY ONLY <1>0, <2>1 DEF PageShape
  <2>4. tune' = IF s.paused THEN [s EXCEPT !.wx = off] ELSE [s EXCEPT !.wx = on, !.lane = Append(s.lane, j)]
    BY <2>2, <2>3
  <2>5. on \in WeatherState /\ Marked(on) /\ on.saving /\ off \in WeatherState /\ Marked(off) /\ off.saving = tune.wx.saving
    BY <1>0, <1>3 DEF WeatherState, Marked
  <2>6. j.kind = "weather" /\ j.at = "new"
    OBVIOUS
  <2> HIDE DEF on, off, j
  <2>7. CASE tune.paused
    <3>1. tune' = [tune EXCEPT !.wx = off]
      BY ONLY <2>1, <2>3, <2>4, <2>7, <1>0 DEF PageShape
    <3> QED BY <1>2, <1>3, <2>5, <3>1
  <2>8. CASE ~tune.paused
    <3>1. tune' = [s EXCEPT !.wx = on, !.lane = Append(s.lane, j)]
      BY <2>3, <2>4, <2>8
    <3>2. tune' = [tune EXCEPT !.wx = on, !.lane = Append(tune.lane, j)]
      BY ONLY ZenonT(60), <2>1, <2>3, <3>1, <1>0 DEF PageShape
    <3>3. SamePower(tune, tune') /\ tune'.wx = on /\ tune'.lane = Append(tune.lane, j)
      BY ONLY <1>0, <3>2 DEF PageShape, SamePower
    <3>4. Of(tune, "weather") = {}
      BY <1>1, <1>3 DEF WeatherRight
    <3>5. /\ SameQueue(tune, tune', "power") /\ Of(tune', "weather") # {} /\ One(tune', "weather")
          /\ StatusesRan(tune', server.proc)
      <4>1. /\ \A kind : kind # j.kind => SameQueue(tune, tune', kind)
            /\ Of(tune, j.kind) = {} => Of(tune', j.kind) # {} /\ One(tune', j.kind)
            /\ \A n : StatusesRan(tune, n) /\ j.at = "new" => StatusesRan(tune', n)
        BY <1>0, <3>3, JoinsQueue
      <4> QED BY <1>1, <2>6, <3>4, <4>1
    <3>6. PowerRight(tune', server.proc)
      BY <1>1, <3>3, <3>5, PowerStays
    <3>7. WeatherRight(tune')
      BY <2>5, <3>3, <3>5 DEF WeatherRight
    <3> QED BY <1>3, <3>5, <3>6, <3>7, HeldOn DEF KeysRight
  <2> QED BY <2>7, <2>8
<1>4. tune = [tune EXCEPT !.wx = tune.wx]
  BY ONLY <1>0 DEF PageShape
<1>5. Marked(tune.wx)
  BY <1>1 DEF WeatherRight
<1>6. ASSUME NEW x \in Values
      PROVE  \A w \in {tune.wx, [tune.wx EXCEPT !.shown = x]} :
               ScheduleWeather(w) \in WeatherState /\ Marked(ScheduleWeather(w)) /\ ScheduleWeather(w).saving = tune.wx.saving
  BY ZenonT(60), <1>0, <1>5 DEF ScheduleWeather, WeatherState, Marked
<1>7. ASSUME NEW v \in Values, EditWeather(v) PROVE KeysInv'
  <2>1. tune' = [tune EXCEPT !.wx = ScheduleWeather([tune.wx EXCEPT !.shown = v])] /\ server' = server
    BY <1>7 DEF EditWeather, Wire
  <2> QED BY <1>2, <1>6, <2>1
<1>8. CASE RetryWeather
  <2>1. CASE WxBusy(tune.wx)
    <3>1. tune' = [tune EXCEPT !.wx = ScheduleWeather(tune.wx)] /\ server' = server
      BY <1>8, <2>1 DEF RetryWeather, Wire
    <3>2. \E x : x \in Values
      BY AdminAssumption
    <3> QED BY <1>2, <1>6, <3>1, <3>2
  <2>2. CASE ~WxBusy(tune.wx)
    <3>1. tune' = SaveWeather(tune) /\ server' = server
      BY <1>8, <2>2 DEF RetryWeather, Wire
    <3>2. ~tune.wx.timer /\ ~tune.wx.saving /\ ~tune.wx.queued
      BY <2>2 DEF WxBusy
    <3> QED BY <1>0, <1>3, <1>4, <3>1, <3>2
  <2> QED BY <2>1, <2>2
<1>9. CASE WeatherDelay
  <2> DEFINE w == [tune.wx EXCEPT !.timer = FALSE]
  <2>1. tune' = SaveWeather([tune EXCEPT !.wx.timer = FALSE]) /\ server' = server /\ tune.wx.timer
    BY <1>9 DEF WeatherDelay, Wire
  <2>2. [tune EXCEPT !.wx.timer = FALSE] = [tune EXCEPT !.wx = w]
    BY ONLY <1>0 DEF PageShape
  <2>3. w \in WeatherState /\ ~w.timer /\ ~w.saving /\ ~w.queued /\ ~tune.wx.saving
    BY <1>0, <1>5, <2>1 DEF Marked, WeatherState
  <2> HIDE DEF w
  <2> QED BY <1>3, <2>1, <2>2, <2>3
<1> QED BY <1>7, <1>8, <1>9

\* The power keys' request, and the polls'.
LEMMA KeysAsk ==
  ASSUME AdminInv, KeysInv, Power \/ \E todo \in Passes : Tick(todo)
  PROVE  KeysInv'
<1>0. PageShape(tune) /\ tune.lane \in Seq(Request)
  BY LaneFacts
<1>1. /\ server.proc \in Nat /\ KeysRight(tune, server.proc)
      /\ PowerRight(tune, server.proc) /\ WeatherRight(tune) /\ StatusesRan(tune, server.proc)
  BY DEF KeysInv, KeysRight
<1>2. ASSUME NEW j, j.at = "new", tune'.lane = Append(tune.lane, j)
      PROVE  /\ \A kind : kind # j.kind => SameQueue(tune, tune', kind)
             /\ Of(tune, j.kind) = {} => Of(tune', j.kind) # {} /\ One(tune', j.kind)
             /\ StatusesRan(tune', server.proc)
  <2>1. /\ \A kind : kind # j.kind => SameQueue(tune, tune', kind)
        /\ Of(tune, j.kind) = {} => Of(tune', j.kind) # {} /\ One(tune', j.kind)
        /\ \A n : StatusesRan(tune, n) /\ j.at = "new" => StatusesRan(tune', n)
    BY <1>0, <1>2, JoinsQueue
  <2> QED BY <1>1, <1>2, <2>1
<1>3. CASE Power
  <2> DEFINE j == [kind |-> "power", at |-> "new", copy |-> Nothing]
  <2>1. /\ tune' = [tune EXCEPT !.busy = TRUE, !.powerBase = tune.startedAt, !.lane = Append(tune.lane, j)]
        /\ server' = server /\ tune.startedAt # Nothing /\ ~tune.busy
    BY <1>3 DEF Power, Wire
  <2>2. j.kind = "power" /\ j.at = "new"
    OBVIOUS
  <2> HIDE DEF j
  <2>3. /\ tune'.busy = TRUE /\ tune'.paused = tune.paused /\ tune'.watch = tune.watch /\ tune'.powerBase = tune.startedAt
        /\ tune'.startedAt = tune.startedAt /\ tune'.wx = tune.wx /\ tune'.lane = Append(tune.lane, j)
    BY ONLY <1>0, <2>1 DEF PageShape
  <2>4. Of(tune, "power") = {} /\ tune.watch.phase = "none"
    BY <1>1, <2>1 DEF PowerRight
  <2>5. /\ SameQueue(tune, tune', "weather") /\ Of(tune', "power") # {} /\ One(tune', "power")
        /\ StatusesRan(tune', server.proc)
    BY <1>2, <2>2, <2>3, <2>4
  <2>6. PowerRight(tune', server.proc)
    BY <1>1, <2>1, <2>3, <2>4, <2>5 DEF PowerRight
  <2>7. WeatherRight(tune')
    BY <1>1, <2>3, <2>5, WeatherStays
  <2> QED BY <2>1, <2>5, <2>6, <2>7, HeldOn DEF KeysRight
<1>4. ASSUME NEW todo \in Passes, Tick(todo) PROVE KeysInv'
  <2> DEFINE j == [kind |-> "pass", todo |-> todo, at |-> "new", copy |-> Nothing]
  <2>1. tune' = [tune EXCEPT !.lane = Append(tune.lane, j)] /\ server' = server
    BY <1>4 DEF Tick, Wire
  <2>2. j.kind = "pass" /\ j.at = "new"
    OBVIOUS
  <2> HIDE DEF j
  <2>3. SamePower(tune, tune') /\ tune'.wx = tune.wx /\ tune'.lane = Append(tune.lane, j)
    BY ONLY <1>0, <2>1 DEF PageShape, SamePower
  <2>4. SameQueue(tune, tune', "weather") /\ SameQueue(tune, tune', "power") /\ StatusesRan(tune', server.proc)
    BY <1>2, <2>2, <2>3
  <2>5. PowerRight(tune', server.proc) /\ WeatherRight(tune')
    BY <1>1, <2>3, <2>4, PowerStays, WeatherStays
  <2> QED BY <2>1, <2>4, <2>5, HeldOn DEF KeysRight
<1> QED BY <1>3, <1>4

LEMMA WatchDown ==
  ASSUME NEW w, WatchShape(w), NEW v, v = [w EXCEPT !.phase = "down", !.sawDown = TRUE, !.probe = "idle"]
  PROVE  WatchShape(v) /\ v.phase = "down" /\ v.base = w.base
<1>1. DOMAIN w = {"phase", "base", "sawDown", "probe"}
  BY DEF WatchShape
<1>2. DOMAIN v = {"phase", "base", "sawDown", "probe"} /\ v.phase = "down" /\ v.base = w.base
  BY <1>1
<1> QED BY <1>2 DEF WatchShape

LEMMA WatchPending ==
  ASSUME NEW w, WatchShape(w), NEW v, v = [w EXCEPT !.phase = "pending", !.sawDown = FALSE, !.probe = "idle"]
  PROVE  WatchShape(v) /\ v.phase = "pending" /\ v.base = w.base
<1>1. DOMAIN w = {"phase", "base", "sawDown", "probe"}
  BY DEF WatchShape
<1>2. DOMAIN v = {"phase", "base", "sawDown", "probe"} /\ v.phase = "pending" /\ v.base = w.base
  BY <1>1
<1> QED BY <1>2 DEF WatchShape

LEMMA WatchStarts ==
  ASSUME NEW b, NEW v, v = [NoWatch EXCEPT !.phase = "pending", !.base = b]
  PROVE  WatchShape(v) /\ v.phase = "pending" /\ v.base = b
<1> DEFINE w == NoWatch
<1>1. w = [phase |-> "none", base |-> Nothing, sawDown |-> FALSE, probe |-> "idle"]
  BY DEF NoWatch
<1> HIDE DEF w
<1>2. v = [w EXCEPT !.phase = "pending", !.base = b]
  BY DEF w
<1>3. v = [phase |-> "pending", base |-> b, sawDown |-> FALSE, probe |-> "idle"]
  BY ONLY <1>1, <1>2
<1> QED BY ONLY <1>3 DEF WatchShape

\* The watch: its probes, and the supervisor that brings the service back or leaves it.
LEMMA WatchHeld ==
  ASSUME AdminInv, KeysInv,
         WatchAsks \/ ProbeFails \/ Boots \/ Stays \/ \E late \in BOOLEAN : ProbeAnswered(late)
  PROVE  KeysInv'
<1>0. PageShape(tune) /\ server \in Server
  BY LaneFacts DEF AdminInv
<1>1. /\ server.proc \in Nat \ {0} /\ KeysRight(tune, server.proc)
      /\ PowerRight(tune, server.proc) /\ WeatherRight(tune) /\ StatusesRan(tune, server.proc)
  BY DEF KeysInv, KeysRight
<1>2. ASSUME tune'.lane = tune.lane, tune'.wx = tune.wx, server'.proc = server.proc,
             Of(tune', "power") = Of(tune, "power") => PowerRight(tune', server.proc)
      PROVE  KeysInv'
  <2>1. \A kind : Of(tune', kind) = Of(tune, kind)
    BY <1>2 DEF Of
  <2>2. WeatherRight(tune') /\ StatusesRan(tune', server.proc)
    BY <1>1, <1>2, <2>1, QueueSame, WeatherStays DEF StatusesRan
  <2> QED BY <1>2, <2>1, <2>2, HeldOn DEF KeysRight
<1>3. ASSUME NEW w, WatchShape(w), w.phase # "none", w.base \in 1 .. server.proc, tune.watch.phase # "none",
             tune' = [tune EXCEPT !.watch = w], server' = server
      PROVE  KeysInv'
  <2>1. /\ tune'.busy = tune.busy /\ tune'.paused = tune.paused /\ tune'.watch = w /\ tune'.powerBase = tune.powerBase
        /\ tune'.startedAt = tune.startedAt /\ tune'.wx = tune.wx /\ tune'.lane = tune.lane
    BY ONLY <1>0, <1>3 DEF PageShape
  <2>2. Of(tune', "power") = Of(tune, "power") => PowerRight(tune', server.proc)
    BY <1>1, <1>3, <2>1 DEF PowerRight, One
  <2> QED BY <1>2, <1>3, <2>1, <2>2
<1>4. ASSUME NEW p, PageShape(p), p.lane = tune.lane, p.wx = tune.wx, p.startedAt \in {Nothing, tune.startedAt},
             tune.watch.phase # "none", tune' = SettlePower(p), server' = server
      PROVE  KeysInv'
  <2>1. /\ tune'.busy = FALSE /\ tune'.paused = FALSE /\ tune'.watch = NoWatch
        /\ tune'.startedAt = p.startedAt /\ tune'.wx = tune.wx /\ tune'.lane = tune.lane
    BY ONLY <1>4 DEF PageShape, SettlePower
  <2>2. WatchShape(NoWatch) /\ NoWatch.phase = "none" /\ NoWatch.probe = "idle"
    BY DEF NoWatch, WatchShape
  <2>3. Of(tune', "power") = Of(tune, "power") => PowerRight(tune', server.proc)
    BY <1>1, <1>4, <2>1, <2>2 DEF PowerRight, One
  <2> QED BY <1>2, <1>4, <2>1, <2>3
<1>5. tune.watch.phase # "none" => tune.watch.base \in 1 .. server.proc /\ WatchShape(tune.watch)
  BY <1>1 DEF PowerRight
<1>6. CASE WatchAsks
  <2> DEFINE w == [tune.watch EXCEPT !.probe = "asked"]
  <2>1. tune' = [tune EXCEPT !.watch.probe = "asked"] /\ server' = server /\ tune.watch.phase # "none"
    BY <1>6 DEF WatchAsks, Wire
  <2>2. tune' = [tune EXCEPT !.watch = w]
    BY ONLY <1>0, <2>1 DEF PageShape
  <2>3. WatchShape(w) /\ w.phase # "none" /\ w.base \in 1 .. server.proc
    BY <1>5, <2>1 DEF WatchShape
  <2> HIDE DEF w
  <2> QED BY <1>3, <2>1, <2>2, <2>3
<1>7. ASSUME NEW proc, NEW late \in BOOLEAN, tune' = Probed(tune, proc, late), server' = server, tune.watch.probe = "asked"
      PROVE  KeysInv'
  <2> DEFINE down == [tune.watch EXCEPT !.phase = "down", !.sawDown = TRUE, !.probe = "idle"]
             pending == [tune.watch EXCEPT !.phase = "pending", !.sawDown = FALSE, !.probe = "idle"]
             p == [tune EXCEPT !.startedAt = Nothing, !.resync = TRUE]
  <2>1. \/ tune' = [tune EXCEPT !.watch = down]
        \/ tune' = SettlePower(p)
        \/ tune' = SettlePower(tune)
        \/ tune' = [tune EXCEPT !.watch = pending]
    BY <1>7 DEF Probed, Unchanged
  <2>2. tune.watch.phase # "none"
    BY <1>1, <1>7 DEF PowerRight
  <2>3. /\ WatchShape(down) /\ down.phase # "none" /\ down.base \in 1 .. server.proc
        /\ WatchShape(pending) /\ pending.phase # "none" /\ pending.base \in 1 .. server.proc
    <3>1. WatchShape(tune.watch) /\ tune.watch.base \in 1 .. server.proc
      BY <1>5, <2>2
    <3> HIDE DEF down, pending
    <3>2. WatchShape(down) /\ down.phase = "down" /\ down.base = tune.watch.base
      BY ZenonT(60), <3>1, WatchDown DEF down
    <3>3. WatchShape(pending) /\ pending.phase = "pending" /\ pending.base = tune.watch.base
      BY ZenonT(60), <3>1, WatchPending DEF pending
    <3> QED BY <3>1, <3>2, <3>3
  <2>4. PageShape(p) /\ p.lane = tune.lane /\ p.wx = tune.wx /\ p.startedAt = Nothing
    <3>1. p = [tune EXCEPT !.startedAt = Nothing, !.resync = TRUE]
      OBVIOUS
    <3> HIDE DEF p
    <3> QED BY ONLY <1>0, <3>1 DEF PageShape
  <2> HIDE DEF down, pending, p
  <2>5. CASE tune' = [tune EXCEPT !.watch = down] \/ tune' = [tune EXCEPT !.watch = pending]
    BY <1>3, <1>7, <2>2, <2>3, <2>5
  <2>6. CASE tune' = SettlePower(p)
    BY <1>4, <1>7, <2>2, <2>4, <2>6
  <2>7. CASE tune' = SettlePower(tune)
    BY <1>0, <1>4, <1>7, <2>2, <2>7
  <2> QED BY <2>1, <2>5, <2>6, <2>7
<1>8. CASE ProbeFails \/ \E late \in BOOLEAN : ProbeAnswered(late)
  <2>1. /\ server' = server /\ tune.watch.probe = "asked"
        /\ \E proc : \E late \in BOOLEAN : tune' = Probed(tune, proc, late)
    BY <1>8 DEF ProbeFails, ProbeAnswered
  <2> QED BY <1>7, <2>1
<1>9. CASE Boots \/ Stays
  <2>1. server'.proc = server.proc /\ (tune' = [tune EXCEPT !.resync = TRUE] \/ tune' = tune)
    BY <1>0, <1>9 DEF Boots, Stays, Server
  <2>2. SamePower(tune, tune') /\ tune'.wx = tune.wx /\ tune'.lane = tune.lane
    BY ONLY <1>0, <2>1 DEF PageShape, SamePower
  <2>3. Of(tune', "power") = Of(tune, "power") => PowerRight(tune', server.proc)
    BY <1>1, <2>2, QueueSame, PowerStays
  <2> QED BY <1>2, <2>1, <2>2, <2>3
<1> QED BY <1>6, <1>8, <1>9

\* The wire answers the lane's first request...
LEMMA AnswersHeld ==
  ASSUME AdminInv, KeysInv, tune.lane # << >>, NEW at, NEW answer, Answers(at, answer), server'.proc = server.proc,
         tune.lane[1].kind = "pass" /\ at = "ok" /\ Head(tune.lane[1].todo) = "status" => answer.proc = server.proc
  PROVE  KeysInv'
<1> DEFINE j == [tune.lane[1] EXCEPT !.at = at, !.copy = answer]
<1>0. PageShape(tune) /\ tune.lane \in Seq(Request)
  BY LaneFacts
<1>1. server.proc \in Nat \ {0} /\ KeysRight(tune, server.proc)
  BY DEF KeysInv
<1>2. 1 \in DOMAIN tune.lane /\ tune.lane[1] \in Request
  BY <1>0
<1>3. tune' = [tune EXCEPT !.lane = [tune.lane EXCEPT ![1] = j]]
  <2>1. tune' = [tune EXCEPT !.lane[1].at = at, !.lane[1].copy = answer]
    BY DEF Answers
  <2>2. tune' = [tune EXCEPT !.lane = [[tune.lane EXCEPT ![1].at = at] EXCEPT ![1].copy = answer]]
    BY ONLY ZenonT(60), <1>0, <2>1 DEF PageShape
  <2>3. [[tune.lane EXCEPT ![1].at = at] EXCEPT ![1].copy = answer] = [tune.lane EXCEPT ![1] = j]
    BY <1>0, <1>2
  <2> QED BY <2>2, <2>3
<1>4. /\ j.kind = tune.lane[1].kind /\ j.at = at /\ j.copy = answer
      /\ tune.lane[1].kind = "pass" => j.todo = tune.lane[1].todo
  BY <1>2 DEF Request, SaveRequest, PassRequest, OtherRequest
<1> HIDE DEF j
<1>5. SamePower(tune, tune') /\ tune'.wx = tune.wx /\ tune'.lane = [tune.lane EXCEPT ![1] = j]
  BY ONLY <1>0, <1>3 DEF PageShape, SamePower
<1>6. /\ DOMAIN tune'.lane = DOMAIN tune.lane /\ tune'.lane[1] = j
      /\ \A i \in DOMAIN tune.lane \ {1} : tune'.lane[i] = tune.lane[i]
  BY <1>2, <1>5
<1>7. StatusRan(j, server.proc)
  BY <1>1, <1>4 DEF StatusRan
<1>8. KeysRight(tune', server.proc)
  BY SMTT(60), <1>1, <1>4, <1>5, <1>6, <1>7, AnsweredRight
<1> QED BY <1>8, HeldOn

LEMMA WireHeld ==
  ASSUME AdminInv, KeysInv, GivesCopy \/ Puts \/ SetsWeather \/ TakesPower \/ AnswersPoll \/ Fails
  PROVE  KeysInv'
<1>0. server \in Server
  BY DEF AdminInv
<1>1. CASE GivesCopy \/ SetsWeather \/ TakesPower \/ Fails \/ Puts
  <2>1. /\ tune.lane # << >> /\ server'.proc = server.proc
        /\ \/ \E at, answer : Answers(at, answer) /\ at # "ok"
           \/ \E at, answer : Answers(at, answer) /\ tune.lane[1].kind # "pass"
    <3>1. CASE GivesCopy \/ Fails
      BY <3>1 DEF GivesCopy, Fails, Served
    <3>2. CASE SetsWeather \/ TakesPower
      BY <1>0, <3>2 DEF SetsWeather, TakesPower, Served, Server, Head1
    <3>3. CASE Puts
      <4>1. tune.lane # << >> /\ tune.lane[1].kind = "save"
        BY <3>3 DEF Puts, Served, Head1
      <4>2. \/ \E answer : Answers("ok", answer) /\ \E cfg : server' = [server EXCEPT !.cfg = cfg]
            \/ Answers("no", Nothing) /\ server' = server
        BY <3>3 DEF Puts
      <4>3. server'.proc = server.proc
        BY <1>0, <4>2 DEF Server
      <4> QED BY <4>1, <4>2, <4>3
    <3> QED BY <1>1, <3>1, <3>2, <3>3
  <2>2. CASE \E at, answer : Answers(at, answer) /\ at # "ok"
    BY <2>1, <2>2, AnswersHeld
  <2>3. CASE \E at, answer : Answers(at, answer) /\ tune.lane[1].kind # "pass"
    BY <2>1, <2>3, AnswersHeld
  <2> QED BY <2>1, <2>2, <2>3
<1>2. CASE AnswersPoll
  <2> DEFINE answer == IF Head(tune.lane[1].todo) = "status" THEN [proc |-> server.proc] ELSE [cfg |-> server.cfg, wx |-> server.wx]
  <2>1. tune.lane # << >> /\ Answers("ok", answer) /\ server' = server
    BY <1>2 DEF AnswersPoll, Served, Head1
  <2>2. Head(tune.lane[1].todo) = "status" => answer.proc = server.proc
    OBVIOUS
  <2> HIDE DEF answer
  <2> QED BY <2>1, <2>2, AnswersHeld
<1> QED BY <1>1, <1>2

\* ...somebody else's write and the service's exit spoil a save's copy...
LEMMA OvertakenHeld ==
  ASSUME AdminInv, KeysInv, Exit \/ \E f \in Fields, v \in Values : OtherWrites(f, v)
  PROVE  KeysInv'
<1>0. PageShape(tune) /\ tune.lane \in Seq(Request) /\ server \in Server
  BY LaneFacts DEF AdminInv
<1>1. server.proc \in Nat \ {0} /\ KeysRight(tune, server.proc)
  BY DEF KeysInv
<1>2. tune' = Overtaken(tune) /\ server'.proc \in {server.proc, server.proc + 1}
  <2>1. CASE Exit
    <3>1. tune' = Overtaken(tune) /\ server' = [server EXCEPT !.up = FALSE, !.leaving = FALSE, !.proc = server.proc + 1]
      BY <2>1 DEF Exit
    <3> QED BY <1>0, <3>1 DEF Server
  <2>2. ASSUME NEW f \in Fields, NEW v \in Values, OtherWrites(f, v)
        PROVE  tune' = Overtaken(tune) /\ server'.proc \in {server.proc, server.proc + 1}
    <3>1. tune' = Overtaken(tune) /\ server' = [server EXCEPT !.cfg[f] = v]
      BY <2>2 DEF OtherWrites
    <3> QED BY <1>0, <3>1 DEF Server
  <2> QED BY <2>1, <2>2
<1>3. server'.proc \in Nat \ {0} /\ server.proc <= server'.proc
  BY <1>1, <1>2
<1>4. /\ SamePower(tune, tune') /\ tune'.wx = tune.wx /\ DOMAIN tune'.lane = DOMAIN tune.lane
      /\ \A i \in DOMAIN tune.lane \ {1} : tune'.lane[i] = tune.lane[i]
      /\ tune'.lane[1].kind = tune.lane[1].kind
      /\ tune'.lane[1] = tune.lane[1] \/ tune'.lane[1].kind # "pass"
  <2>1. CASE tune.lane # << >> /\ tune.lane[1].kind = "save" /\ tune.lane[1].at = "got"
    <3> DEFINE j == [tune.lane[1] EXCEPT !.copy.fresh = FALSE]
    <3>1. tune' = [tune EXCEPT !.lane[1].copy.fresh = FALSE]
      BY <1>2, <2>1 DEF Overtaken
    <3>2. tune' = [tune EXCEPT !.lane = [tune.lane EXCEPT ![1] = j]]
      <4>1. tune' = [tune EXCEPT !.lane = [tune.lane EXCEPT ![1].copy.fresh = FALSE]]
        BY ONLY <1>0, <3>1 DEF PageShape
      <4>2. [tune.lane EXCEPT ![1].copy.fresh = FALSE] = [tune.lane EXCEPT ![1] = j]
        OBVIOUS
      <4> QED BY <4>1, <4>2
    <3>3. 1 \in DOMAIN tune.lane /\ tune.lane[1] \in Request
      BY <1>0, <2>1
    <3>4. j.kind = "save"
      BY <2>1, <3>3 DEF Request, SaveRequest, PassRequest, OtherRequest
    <3> HIDE DEF j
    <3>5. SamePower(tune, tune') /\ tune'.wx = tune.wx /\ tune'.lane = [tune.lane EXCEPT ![1] = j]
      BY ONLY <1>0, <3>2 DEF PageShape, SamePower
    <3> QED BY <2>1, <3>3, <3>4, <3>5
  <2>2. CASE ~(tune.lane # << >> /\ tune.lane[1].kind = "save" /\ tune.lane[1].at = "got")
    BY <1>2, <2>2 DEF Overtaken, SamePower
  <2> QED BY <2>1, <2>2
<1>5. StatusRan(tune'.lane[1], server'.proc) \/ DOMAIN tune.lane = {}
  <2>1. CASE 1 \in DOMAIN tune.lane /\ tune'.lane[1] = tune.lane[1]
    <3>1. StatusRan(tune.lane[1], server.proc)
      BY <1>1, <2>1 DEF KeysRight, StatusesRan
    <3>2. \A x \in 1 .. server.proc : x \in 1 .. server'.proc
      BY <1>1, <1>3
    <3> QED BY <2>1, <3>1, <3>2 DEF StatusRan
  <2>2. CASE tune'.lane[1].kind # "pass"
    BY <2>2 DEF StatusRan
  <2>3. 1 \in DOMAIN tune.lane \/ DOMAIN tune.lane = {}
    BY <1>0
  <2> QED BY <1>4, <2>1, <2>2, <2>3
<1>6. KeysRight(tune', server'.proc)
  <2>1. CASE StatusRan(tune'.lane[1], server'.proc)
    BY <1>1, <1>3, <1>4, <2>1, AnsweredRight
  <2>2. CASE DOMAIN tune.lane = {}
    <3>1. \A kind : Of(tune', kind) = Of(tune, kind)
      BY <1>4, <2>2 DEF Of
    <3>2. StatusesRan(tune', server'.proc)
      BY <1>4, <2>2 DEF StatusesRan
    <3> QED BY <1>1, <1>3, <1>4, <3>1, <3>2, QueueSame, PowerStays, WeatherStays DEF KeysRight
  <2> QED BY <1>5, <2>1, <2>2
<1> QED BY <1>3, <1>6 DEF KeysInv

\* ...and its answer lands.
LEMMA LandsHeld == ASSUME AdminInv, KeysInv, Lands PROVE KeysInv'
<1> DEFINE job == tune.lane[1]
           p == [tune EXCEPT !.lane = Tail(tune.lane)]
           n == server.proc
<1>0. /\ LaneOK(tune) /\ PageShape(tune) /\ BatchShape(tune.batch) /\ tune.lane \in Seq(Request) /\ tune.wx \in WeatherState
      /\ tune.lane # << >> /\ job \in Request /\ RequestOK(job) /\ 1 \in DOMAIN tune.lane
  <2>1. RequestsOK(tune) /\ tune.lane # << >> /\ tune.lane \in Seq(Request)
    BY LaneFacts DEF AdminInv, Fit, Lands
  <2> QED BY <2>1, LaneFacts DEF RequestsOK
<1>1. /\ n \in Nat \ {0} /\ KeysRight(tune, n) /\ PowerRight(tune, n) /\ WeatherRight(tune) /\ StatusesRan(tune, n)
  BY DEF KeysInv, KeysRight
<1>2. /\ server' = server
      /\ tune' = CASE job.kind = "save" -> SaveLands(p, job)
                   [] job.kind = "weather" -> [p EXCEPT !.wx = WeatherLands(@, job.at = "ok")]
                   [] job.kind = "power" -> PowerLands(p, job.at = "ok")
                   [] job.kind = "pass" /\ job.at = "new" -> p
                   [] OTHER -> PollLands(p, job)
  BY DEF Lands, Head1
<1>3. /\ PageShape(p) /\ p.batch = tune.batch /\ p.lane = Tail(tune.lane) /\ SamePower(tune, p) /\ p.wx = tune.wx
  <2>1. p = [tune EXCEPT !.lane = Tail(tune.lane)]
    OBVIOUS
  <2> HIDE DEF p
  <2> QED BY ONLY <1>0, <2>1 DEF PageShape, SamePower
<1>4. job.kind \in {"save", "weather", "power", "pass"} /\ StatusRan(job, n)
  BY <1>0, <1>1 DEF Request, SaveRequest, PassRequest, OtherRequest, StatusesRan
<1>5. p.lane \in Seq(Request)
  BY <1>0, <1>3
<1>6. LaneOK(p)
  BY <1>0, <1>3, <1>5 DEF LaneOK
<1> HIDE DEF p
<1>7. /\ \A kind : kind # job.kind => SameQueue(tune, p, kind)
      /\ \A kind : kind = job.kind /\ One(tune, kind) => Of(tune, kind) # {} /\ Of(p, kind) = {} /\ One(p, kind)
      /\ StatusesRan(p, n)
  BY <1>0, <1>1, <1>3, LeavesQueue
<1>8. job.kind # "power" => PowerRight(p, n)
  BY <1>1, <1>3, <1>7, PowerStays
<1>9. job.kind # "weather" => WeatherRight(p)
  BY <1>1, <1>3, <1>7, WeatherStays
<1>10. ASSUME KeysRight(tune', n) PROVE KeysInv'
  BY <1>2, <1>10, HeldOn
<1>11. CASE job.kind = "save"
  <2>1. Aside(p, tune')
    BY <1>2, <1>6, <1>11, LandsAside
  <2> QED BY <1>1, <1>7, <1>8, <1>9, <1>10, <1>11, <2>1, AsideRight DEF KeysRight
<1>12. CASE job.kind = "weather"
  <2> DEFINE w == WeatherLands(p.wx, job.at = "ok")
  <2>1. tune' = [p EXCEPT !.wx = w]
    BY <1>2, <1>12
  <2>2. Marked(tune.wx) /\ tune.wx \in WeatherState
    BY <1>1 DEF WeatherRight
  <2>3. w \in WeatherState /\ Marked(w) /\ ~w.saving
    BY ZenonT(60), <1>3, <2>2 DEF WeatherLands, ScheduleWeather, WeatherState, Marked
  <2> HIDE DEF w
  <2>4. SamePower(p, tune') /\ tune'.wx = w /\ tune'.lane = p.lane
    BY ONLY <1>3, <2>1 DEF PageShape, SamePower
  <2>5. \A kind : Of(tune', kind) = Of(p, kind)
    BY <2>4 DEF Of
  <2>6. Of(p, "weather") = {} /\ One(p, "weather")
    BY <1>1, <1>7, <1>12 DEF WeatherRight
  <2>7. WeatherRight(tune')
    BY <2>3, <2>4, <2>5, <2>6 DEF WeatherRight, One
  <2>8. PowerRight(tune', n)
    BY <1>1, <1>8, <1>12, <2>4, <2>5, QueueSame, PowerStays
  <2>9. StatusesRan(tune', n)
    BY <1>7, <2>4 DEF StatusesRan
  <2> QED BY <1>10, <2>7, <2>8, <2>9 DEF KeysRight
<1>13. CASE job.kind = "power"
  <2>1. Of(p, "power") = {} /\ One(p, "power") /\ tune.watch.phase = "none" /\ tune.powerBase \in 1 .. n
    BY <1>1, <1>7, <1>13 DEF PowerRight
  <2> DEFINE w == [NoWatch EXCEPT !.phase = "pending", !.base = p.powerBase]
  <2>2. WatchShape(w) /\ w.phase = "pending" /\ w.base = p.powerBase
    BY ZenonT(60), WatchStarts
  <2>3. tune' = IF job.at # "ok" THEN [p EXCEPT !.busy = FALSE] ELSE [p EXCEPT !.paused = TRUE, !.watch = w]
    BY <1>2, <1>13 DEF PowerLands
  <2> HIDE DEF w
  <2>4. /\ tune'.wx = p.wx /\ tune'.lane = p.lane /\ tune'.powerBase = p.powerBase /\ tune'.startedAt = p.startedAt
        /\ \/ tune'.busy = FALSE /\ tune'.paused = p.paused /\ tune'.watch = p.watch
           \/ tune'.busy = p.busy /\ tune'.paused = TRUE /\ tune'.watch = w
    BY ONLY <1>3, <2>3 DEF PageShape
  <2>5. \A kind : Of(tune', kind) = Of(p, kind)
    BY <2>4 DEF Of
  <2>6. Of(tune, "power") # {}
    BY <1>1, <1>7, <1>13 DEF PowerRight
  <2>7. tune.busy = TRUE /\ tune.paused = FALSE
    BY <1>1, <2>1, <2>6 DEF PowerRight
  <2>8. PowerRight(tune', n)
    <3>1. /\ Of(tune', "power") = {} /\ One(tune', "power")
          /\ tune'.startedAt # Nothing => tune'.startedAt \in 1 .. n
      BY <1>1, <1>3, <2>1, <2>4, <2>5 DEF PowerRight, SamePower, One
    <3>2. CASE tune'.busy = FALSE /\ tune'.paused = p.paused /\ tune'.watch = p.watch
      BY <1>1, <1>3, <2>1, <2>7, <3>1, <3>2 DEF PowerRight, SamePower
    <3>3. CASE tune'.busy = p.busy /\ tune'.paused = TRUE /\ tune'.watch = w
      BY <1>1, <1>3, <2>1, <2>2, <2>7, <3>1, <3>3 DEF PowerRight, SamePower
    <3> QED BY <2>4, <3>2, <3>3
  <2>9. WeatherRight(tune') /\ StatusesRan(tune', n)
    BY <1>7, <1>9, <1>13, <2>4, <2>5, QueueSame, WeatherStays DEF StatusesRan
  <2> QED BY <1>10, <2>8, <2>9 DEF KeysRight
<1>14. CASE job.kind = "pass" /\ job.at = "new"
  BY <1>2, <1>7, <1>8, <1>9, <1>10, <1>14 DEF KeysRight
<1>15. CASE job.kind = "pass" /\ job.at # "new"
  <2> DEFINE next == [job EXCEPT !.todo = Tail(job.todo), !.at = "new", !.copy = Nothing]
             what == Head(job.todo)
             s == Load(p, job.copy.cfg)
             wx == PaintWeather(s.wx, job.copy.wx)
             q == CASE job.at = "no" -> p
                    [] job.at = "ok" /\ what = "status" -> [p EXCEPT !.startedAt = job.copy.proc]
                    [] OTHER -> [s EXCEPT !.wx = wx]
             resync == IF what = "status" THEN FALSE ELSE q.resync
             lane == IF next.todo = << >> THEN q.lane ELSE <<next>> \o q.lane
  <2>1. tune' = [q EXCEPT !.resync = resync, !.lane = lane]
    BY <1>2, <1>15 DEF PollLands
  <2>2. job.at \in {"no", "ok"}
    <3>1. job.at \in At
      BY <1>0 DEF Request, SaveRequest, PassRequest, OtherRequest
    <3> QED BY <1>0, <1>15, <3>1 DEF At, RequestOK
  <2>3. next.kind = "pass" /\ next.at = "new"
    BY <1>0, <1>15 DEF Request, SaveRequest, PassRequest, OtherRequest
  <2>4. KeysRight(p, n) /\ PowerRight(p, n)
    BY SMTT(60), <1>7, <1>8, <1>9, <1>15 DEF KeysRight
  <2>5. KeysRight(q, n) /\ PageShape(q) /\ q.lane = p.lane
    <3>1. CASE q = p
      BY <1>3, <2>4, <3>1
    <3>2. CASE q = [p EXCEPT !.startedAt = job.copy.proc] /\ job.at = "ok" /\ what = "status"
      <4> HIDE DEF q
      <4>1. /\ PageShape(q) /\ q.lane = p.lane /\ q.busy = p.busy /\ q.paused = p.paused /\ q.watch = p.watch
            /\ q.powerBase = p.powerBase /\ q.startedAt = job.copy.proc /\ q.wx = p.wx
        BY ONLY <1>3, <3>2 DEF PageShape
      <4>2. job.copy.proc \in 1 .. n
        BY <1>4, <1>15, <3>2 DEF StatusRan
      <4>3. \A kind : Of(q, kind) = Of(p, kind)
        BY <4>1 DEF Of
      <4>4. PowerRight(q, n)
        BY <2>4, <4>1, <4>2, <4>3 DEF PowerRight, One
      <4>5. WeatherRight(q) /\ StatusesRan(q, n)
        BY <2>4, <4>1, <4>3, QueueSame, WeatherStays DEF KeysRight, StatusesRan
      <4> QED BY <4>1, <4>4, <4>5 DEF KeysRight
    <3>3. CASE q = [s EXCEPT !.wx = wx] /\ job.at = "ok" /\ what # "status"
      <4>1. Aside(p, s) /\ s.lane = p.lane
        BY SMTT(60), <1>6, LoadsAside
      <4>2. PageShape(s) /\ KeysRight(s, n)
        BY <1>1, <2>4, <4>1, AsideRight DEF Aside, SameHeld
      <4>3. job.copy.wx \in Values \cup {Nothing}
        BY SMTT(60), <1>0, <1>15, <3>3 DEF RequestOK
      <4>4. s.wx \in WeatherState /\ Marked(s.wx)
        BY <4>2 DEF KeysRight, WeatherRight
      <4>5. wx \in WeatherState /\ Marked(wx) /\ wx.saving = s.wx.saving
        <5> HIDE DEF s
        <5> QED BY <4>3, <4>4 DEF PaintWeather, WxBusy, WeatherState, Marked
      <4> HIDE DEF q, wx, s
      <4>6. PageShape(q) /\ q.lane = s.lane /\ q.wx = wx /\ SamePower(s, q)
        BY ONLY <3>3, <4>2 DEF PageShape, SamePower
      <4>7. \A kind : Of(q, kind) = Of(s, kind)
        BY <4>6 DEF Of
      <4>8. PowerRight(q, n)
        BY <1>1, <4>2, <4>6, <4>7, QueueSame, PowerStays DEF KeysRight
      <4>9. WeatherRight(q)
        BY <4>2, <4>5, <4>6, <4>7 DEF KeysRight, WeatherRight, One
      <4>10. StatusesRan(q, n)
        BY <4>2, <4>6 DEF KeysRight, StatusesRan
      <4> QED BY <4>1, <4>6, <4>8, <4>9, <4>10 DEF KeysRight
    <3> QED BY <2>2, <3>1, <3>2, <3>3
  <2> HIDE DEF q, next, resync
  <2>6. SamePower(q, tune') /\ tune'.wx = q.wx /\ tune'.lane = lane
    <3> HIDE DEF lane
    <3> QED BY ONLY <2>1, <2>5 DEF PageShape, SamePower
  <2>7. SameQueue(q, tune', "power") /\ SameQueue(q, tune', "weather") /\ StatusesRan(tune', n)
    <3>1. CASE next.todo = << >>
      <4>1. tune'.lane = q.lane
        BY <2>6, <3>1
      <4>2. \A kind : Of(tune', kind) = Of(q, kind)
        BY <4>1 DEF Of
      <4> QED BY <2>5, <4>1, <4>2, QueueSame DEF KeysRight, StatusesRan
    <3>2. CASE next.todo # << >>
      <4>1. tune'.lane = <<next>> \o q.lane /\ q.lane \in Seq(Request)
        BY <1>5, <2>5, <2>6, <3>2
      <4>2. /\ SameQueue(q, tune', "power") /\ SameQueue(q, tune', "weather")
            /\ \A m : StatusesRan(q, m) => StatusesRan(tune', m)
        BY <2>3, <4>1, FrontsQueue
      <4> QED BY <2>5, <4>2 DEF KeysRight
    <3> QED BY <3>1, <3>2
  <2>8. PowerRight(tune', n) /\ WeatherRight(tune')
    BY <1>1, <2>5, <2>6, <2>7, PowerStays, WeatherStays DEF KeysRight
  <2> QED BY <1>10, <2>7, <2>8 DEF KeysRight
<1> QED BY <1>4, <1>11, <1>12, <1>13, <1>14, <1>15

LEMMA KeysStart == PageInit => KeysInv
<1> SUFFICES ASSUME PageInit PROVE KeysInv
  OBVIOUS
<1>1. server.proc = 1 /\ tune = Opened
  BY DEF PageInit
<1>2. /\ tune.lane = << >> /\ tune.busy = FALSE /\ tune.paused = FALSE /\ tune.watch = NoWatch /\ tune.startedAt = Nothing
      /\ tune.wx = [shown |-> Nothing, loaded |-> Nothing, timer |-> FALSE, saving |-> FALSE, queued |-> FALSE, err |-> FALSE]
  BY <1>1 DEF Opened
<1>3. \A kind : Of(tune, kind) = {}
  BY <1>2 DEF Of
<1>4. PowerRight(tune, 1)
  <2>1. WatchShape(NoWatch) /\ NoWatch.phase = "none" /\ NoWatch.probe = "idle"
    BY DEF NoWatch, WatchShape
  <2> QED BY <1>2, <1>3, <2>1 DEF PowerRight, One
<1>5. WeatherRight(tune)
  BY <1>2, <1>3 DEF WeatherRight, WeatherState, Marked, One
<1>6. StatusesRan(tune, 1)
  BY <1>2 DEF StatusesRan
<1> QED BY <1>1, <1>4, <1>5, <1>6 DEF KeysInv, KeysRight

LEMMA KeysStep == AdminInv /\ KeysInv /\ [PageNext]_<<pageVars, disowned>> => KeysInv'
<1> SUFFICES ASSUME AdminInv, KeysInv, [PageNext]_<<pageVars, disowned>> PROVE KeysInv'
  OBVIOUS
<1>1. CASE Step
  <2>1. ASSUME NEW f \in Fields, NEW v \in Values, Slide(f, v) \/ Enter(f, v) \/ OtherWrites(f, v) PROVE KeysInv'
    BY <2>1, FieldsAside, OvertakenHeld
  <2>2. CASE ReleaseSlider \/ UndoBatch \/ RetryBatch \/ RetryDirect \/ Apply \/ Cancel \/ Countdown
    BY <2>2, FieldsAside
  <2>3. CASE RetryWeather \/ WeatherDelay \/ \E v \in Values : EditWeather(v)
    BY <2>3, WeatherHeld
  <2>4. CASE Power \/ \E todo \in Passes : Tick(todo)
    BY <2>4, KeysAsk
  <2>5. CASE WatchAsks \/ ProbeFails \/ Boots \/ Stays \/ \E late \in BOOLEAN : ProbeAnswered(late)
    BY <2>5, WatchHeld
  <2>6. CASE GivesCopy \/ Puts \/ SetsWeather \/ TakesPower \/ AnswersPoll \/ Fails
    BY <2>6, WireHeld
  <2>7. CASE Lands
    BY <2>7, LandsHeld
  <2>8. CASE Exit
    BY <2>8, OvertakenHeld
  <2> QED BY <1>1, <2>1, <2>2, <2>3, <2>4, <2>5, <2>6, <2>7, <2>8 DEF Step
<1>2. CASE UNCHANGED <<pageVars, disowned>>
  <2>1. server' = server /\ tune' = tune
    BY <1>2 DEF pageVars
  <2>2. KeysRight(tune', server.proc)
    BY <2>1 DEF KeysInv
  <2> QED BY <2>1, <2>2, HeldOn
<1> QED BY <1>1, <1>2 DEF PageNext

\* What the page owes is on it, and what is over holds nothing up, whatever the fields and however
\* the service fails, goes and comes back (saveIds(), saveWeather(), systemActionWatcher.ts,
\* poller.ts): the edits of the fields it did not let go of; the power keys, held just while their
\* request is in the lane or its action watched, by one at a time and against a process that ran;
\* the lane, paused just while it is; and the weather channel, counted down, on its way or marked.
THEOREM SoundTheorem == PageSpec => []PageSound
<1>1. KeysInv => KeysHeld /\ WeatherKept
  <2> SUFFICES ASSUME KeysInv PROVE KeysHeld /\ WeatherKept
    OBVIOUS
  <2>1. PowerRight(tune, server.proc) /\ WeatherRight(tune)
    BY DEF KeysInv, KeysRight
  <2>2. \A kind : Requests(kind) = Of(tune, kind)
    BY DEF Requests, Of
  <2>3. KeysHeld
    BY <2>1, <2>2 DEF KeysHeld, PowerRight, One
  <2>4. WeatherKept
    BY <2>1, <2>2 DEF WeatherKept, WeatherRight, Marked
  <2> QED BY <2>3, <2>4
<1> QED BY <1>1, AdminAlways, KeysStart, KeysStep, EditsTheorem, PTL DEF PageSpec, PageSound
=============================================================================
