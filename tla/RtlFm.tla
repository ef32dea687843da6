------------------------------- MODULE RtlFm -------------------------------
(***************************************************************************)
(* The engine of a kiosk without the wideband helper (engine/RtlFmEngine.ts): *)
(* one rtl_fm and one sink at a time, on one enabled channel, hopping to the *)
(* next when that is silent and staying while the squelch is open.          *)
(*                                                                          *)
(* What it starts outlives what it knows: a killed rtl_fm dies and reports   *)
(* its close later, a crashed one may report it after a hop or a stop, and   *)
(* a restart waits in a timer while the operator stops the engine, or starts *)
(* it on another list. start() and stop() come one at a time, as the server  *)
(* calls them.                                                              *)
(*                                                                          *)
(* A spawn that fails is one that exits at once: its error comes on the next *)
(* tick, with no guard of its own (RtlFmEngine.ts:238-241), while the engine *)
(* still has the process, so that the guard of a close would let it through; *)
(* a close after it finds the process forgotten.                            *)
(***************************************************************************)
EXTENDS Integers, Sequences

CONSTANTS
  Lists,       \* enabled channels a start may bring
  NoChannel,   \* no restart is due
  MaxProcs,    \* rtl_fm processes that exist together
  MaxCalls,    \* starts and stops
  MaxDeaths    \* crashes, of rtl_fm and of the sink

ASSUME RtlFmAssumption ==
  /\ MaxProcs \in Nat \ {0} /\ {MaxCalls, MaxDeaths} \subseteq Nat
  /\ \A list \in Lists : /\ Len(list) \in Nat /\ DOMAIN list = 1 .. Len(list)
                         /\ \A i \in 1 .. Len(list) : list[i] # NoChannel

VARIABLES
  rx,     \* the engine and its processes
  calls,  \* starts and stops left
  deaths  \* crashes left

rtlVars == <<rx, calls, deaths>>

Procs == 1 .. MaxProcs
NoProc == [st |-> "none", ch |-> NoChannel]

Free(s) == {i \in Procs : s.procs[i].st = "none"}

\* killChildren(): the engine forgets them at once; the process is yet to die.
KillChildren(s) ==
  [s EXCEPT !.hops = FALSE, !.rtl = 0, !.sink = FALSE,
            !.procs = [i \in Procs |-> IF i = s.rtl /\ @[i].st = "up" THEN [@[i] EXCEPT !.st = "killed"] ELSE @[i]]]

\* Defect: a squelch that was open when rtl_fm died is taken to be open still.
SpawnStillHolding(s, ch) ==
  LET i == CHOOSE i \in Free(s) : TRUE
  IN  [s EXCEPT !.detector = "shut", !.dwelt = FALSE, !.sink = TRUE,
                !.rtl = i, !.procs[i] = [st |-> "up", ch |-> ch], !.hops = Len(s.list) > 1]

\* spawnForChannel(), with startHopTimer(): nothing to hop to, no timer.
SpawnForChannel(s, ch) ==
  LET i == CHOOSE i \in Free(s) : TRUE
  IN  [s EXCEPT !.holding = FALSE, !.detector = "shut", !.dwelt = FALSE, !.sink = TRUE,
                !.rtl = i, !.procs[i] = [st |-> "up", ch |-> ch], !.hops = Len(s.list) > 1]

\* hop().
Hopped(s) ==
  LET next == (s.at % Len(s.list)) + 1
  IN  SpawnForChannel([KillChildren(s) EXCEPT !.at = next], s.list[next])

\* handleUnexpectedExit(): restart later, on the channel it was, or stop.
UnexpectedExit(s, ch) ==
  LET q == KillChildren(s)
  IN  IF s.auto THEN [q EXCEPT !.restart = ch] ELSE [q EXCEPT !.state = "stopped"]

\* Defect: a restart that waits outlives the stop.
StoppedButTimer(s) ==
  [KillChildren(s) EXCEPT !.stopping = TRUE, !.detector = "none", !.holding = FALSE, !.state = "stopped"]

\* stop().
Stopped(s) ==
  [KillChildren(s) EXCEPT !.stopping = TRUE, !.restart = NoChannel, !.detector = "none",
                          !.holding = FALSE, !.state = "stopped"]

----------------------------------------------------------------------------

Start(list) ==
  /\ calls > 0 /\ Free(rx) # {}
  /\ LET q == IF rx.state = "stopped" THEN rx ELSE Stopped(rx)
         r == [q EXCEPT !.list = list, !.at = 1, !.stopping = FALSE, !.state = "running"]
     IN  rx' = IF list = <<>> THEN r ELSE SpawnForChannel(r, list[1])
  /\ calls' = calls - 1 /\ UNCHANGED deaths

Stop == calls > 0 /\ rx' = Stopped(rx) /\ calls' = calls - 1 /\ UNCHANGED deaths

\* The tap hears the process it was put on, until that is killed.
Listens == rx.rtl # 0 /\ rx.procs[rx.rtl].st = "up"

SquelchOpens ==
  /\ Listens /\ rx.detector = "shut"
  /\ rx' = [rx EXCEPT !.detector = "open", !.holding = TRUE]
  /\ UNCHANGED <<calls, deaths>>

\* A transmission that is over is hopped away from, with one channel too.
SquelchCloses ==
  /\ Listens /\ rx.detector = "open" /\ Free(rx) # {}
  /\ rx' = Hopped([rx EXCEPT !.detector = "shut", !.holding = FALSE])
  /\ UNCHANGED <<calls, deaths>>

Dwells ==
  /\ rx.rtl # 0 /\ ~rx.dwelt /\ rx.hops
  /\ rx' = [rx EXCEPT !.dwelt = TRUE]
  /\ UNCHANGED <<calls, deaths>>

\* Never away from a transmission.
HopTimer ==
  /\ rx.hops /\ ~rx.holding /\ rx.dwelt /\ Free(rx) # {}
  /\ rx' = Hopped(rx)
  /\ UNCHANGED <<calls, deaths>>

RestartTimer ==
  /\ rx.restart # NoChannel /\ Free(rx) # {}
  /\ LET q == [rx EXCEPT !.restart = NoChannel]
     IN  rx' = IF q.stopping THEN q ELSE SpawnForChannel(q, rx.restart)
  /\ UNCHANGED <<calls, deaths>>

----------------------------------------------------------------------------
(* Processes. A close is reported when the process and its stderr are gone.  *)

Crashes(i) ==
  /\ deaths > 0 /\ rx.procs[i].st = "up"
  /\ rx' = [rx EXCEPT !.procs[i].st = "exited"]
  /\ deaths' = deaths - 1 /\ UNCHANGED calls

Dies(i) ==
  /\ rx.procs[i].st = "killed"
  /\ rx' = [rx EXCEPT !.procs[i].st = "exited"]
  /\ UNCHANGED <<calls, deaths>>

\* Defect: the close of a process killed long ago is taken for a crash.
ClosedWhoever(i) ==
  /\ rx.procs[i].st = "exited"
  /\ LET q == [rx EXCEPT !.procs[i] = NoProc]
     IN  rx' = IF rx.stopping THEN q ELSE UnexpectedExit(q, rx.procs[i].ch)
  /\ UNCHANGED <<calls, deaths>>

\* The close of the process it has, unless it is stopping.
Closed(i) ==
  /\ rx.procs[i].st = "exited"
  /\ LET q == [rx EXCEPT !.procs[i] = NoProc]
     IN  rx' = IF rx.rtl # i \/ rx.stopping THEN q ELSE UnexpectedExit(q, rx.procs[i].ch)
  /\ UNCHANGED <<calls, deaths>>

\* Sound has nowhere to go until the next spawn; the engine is not told.
SinkDies ==
  /\ deaths > 0 /\ rx.sink
  /\ rx' = [rx EXCEPT !.sink = FALSE]
  /\ deaths' = deaths - 1 /\ UNCHANGED calls

RtlFmInit ==
  /\ \E auto \in BOOLEAN :
       rx = [state |-> "stopped", auto |-> auto, list |-> <<>>, at |-> 1, stopping |-> FALSE,
             holding |-> FALSE, detector |-> "none", rtl |-> 0, sink |-> FALSE, hops |-> FALSE,
             dwelt |-> FALSE, restart |-> NoChannel, procs |-> [i \in Procs |-> NoProc]]
  /\ calls = MaxCalls /\ deaths = MaxDeaths

Ends == \E i \in Procs : Dies(i) \/ Closed(i)

RtlFmNext ==
  \/ (\E list \in Lists : Start(list)) \/ Stop
  \/ SquelchOpens \/ SquelchCloses \/ Dwells \/ HopTimer \/ RestartTimer
  \/ (\E i \in Procs : Crashes(i)) \/ Ends \/ SinkDies

\* Timers fire and dead processes are reported; a carrier may stay as long as it likes.
RtlFmFairness ==
  /\ WF_rtlVars(Ends) /\ WF_rtlVars(Dwells)
  /\ SF_rtlVars(HopTimer) /\ WF_rtlVars(RestartTimer)

RtlFmSpec == RtlFmInit /\ [][RtlFmNext]_rtlVars /\ RtlFmFairness

----------------------------------------------------------------------------

RtlFmTypeOK ==
  /\ rx.state \in {"stopped", "running"} /\ rx.list \in Lists \cup {<<>>} /\ rx.rtl \in 0 .. MaxProcs
  /\ rx.detector \in {"none", "shut", "open"}
  /\ \A i \in Procs : rx.procs[i].st \in {"none", "up", "killed", "exited"}

\* There is one dongle: no rtl_fm runs on that the engine does not know of and has not killed;
\* the one it knows is on the channel it says; and none is to be started beside it. A stopped
\* engine has none and starts none (RtlFmEngine.ts:83-86, 316-318).
OneListener ==
  /\ \A i \in Procs : rx.procs[i].st = "up" => rx.rtl = i
  /\ rx.rtl # 0 => rx.restart = NoChannel /\ rx.at \in DOMAIN rx.list /\ rx.procs[rx.rtl].ch = rx.list[rx.at]
  /\ rx.state = "stopped" => rx.rtl = 0 /\ rx.restart = NoChannel

\* Each channel of a list of several is listened to again and again, with a sink to be heard
\* on, whatever died, until one of them stays open (RtlFmEngine.ts:10-18, 190-194).
RoundGoesOn ==
  \A list \in Lists : \A c \in 1 .. Len(list) :
    []<>(\/ rx.list # list \/ Len(list) = 1 \/ rx.state = "stopped"
         \/ (rx.at = c /\ Listens /\ rx.sink)
         \/ (Listens /\ rx.detector = "open"))
=============================================================================
