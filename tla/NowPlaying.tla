----------------------------- MODULE NowPlaying -----------------------------
(***************************************************************************)
(* What the pages say is playing, from the helper's speaker to the glass:   *)
(* the helper writes lines on its pipe (native/src/scanner.cpp), the engine *)
(* turns them into events (backend/engine/WidebandEngine.ts), the hub sends *)
(* every event to every socket and keeps one to replay to a socket that     *)
(* opens later (backend/ws.ts), and a page folds what reaches it into what  *)
(* it shows (frontend/dashboard/dashboard.ts, frontend/admin/liveStore.ts   *)
(* and live.ts), reconnecting when its socket closes (lib/wsClient.ts).     *)
(*                                                                          *)
(* Nobody asks the speaker what it plays: each part remembers the last      *)
(* thing it was told, a line waits in the pipe while the engine hops, a     *)
(* socket closes with events in flight, and a helper dies without a word.   *)
(*                                                                          *)
(* One page is followed, of either kind: pages know nothing of each other.  *)
(* Lanes, squelch and priorities are Scanner's; the spawn and its watchdogs *)
(* are HelperSupervisor's; the warm-up pill, the log and the meter are left *)
(* out.                                                                     *)
(***************************************************************************)
EXTENDS Integers, Sequences, SequencesExt

CONSTANTS
  Channels,     \* the channels of every window
  None,         \* no channel
  WindowOf,     \* the window each is in
  Windows,      \* the windows of scan mode
  Weather,      \* the window of weather mode, held open on its one channel
  Silent,       \* channels watched but never spoken
  MaxLines,     \* lines waiting in the pipe before a lane opens or closes again
  MaxInbox,     \* events in flight to the page before the engine reads or hops again
  Troubles      \* what may come, together: deaths of the helper (faults), closes and stalls of the
                \* page's socket and loads of the page (losses), mode changes and restarts (calls)

Modes == {"scan", "weather"}

ASSUME ChannelAssumption ==
  /\ None \notin Channels /\ Silent \subseteq Channels
  /\ Weather \notin Windows /\ WindowOf \in [Channels -> Windows \cup {Weather}]
  /\ \E c \in Channels \ Silent : WindowOf[c] = Weather
ASSUME BoundAssumption ==
  /\ {MaxLines, MaxInbox} \subseteq Nat
  /\ Troubles \subseteq [{"faults", "losses", "calls"} -> Nat]

VARIABLES
  helper,   \* the helper: its life, the window it is on, open lanes, speaker
  lines,    \* its lines, not read yet
  tunes,    \* the windows it was told to tune to, not done yet
  engine,   \* the engine: its window, openIds, whether exitFailures > 0, reportReady and timers
  hub,      \* the replay slot, and whether audible events own it
  page,     \* one page
  mode,     \* the server's mode
  spent     \* faults, losses and calls that came

playingVars == <<helper, lines, tunes, engine, hub, page, mode, spent>>

\* One more of a kind of trouble.
Comes(kind) ==
  /\ spent' = [spent EXCEPT ![kind] = @ + 1]
  /\ \E t \in Troubles : \A k \in DOMAIN spent : spent'[k] <= t[k]

----------------------------------------------------------------------------
(* Lines and events.                                                        *)

Line(ev, c) == [ev |-> ev, ch |-> c]
Event(type, c, unproven) == [type |-> type, ch |-> c, unproven |-> unproven]
Status(state) == Event(state, None, FALSE)
Gap == Event("gap", None, FALSE)
NoEvent == Event("none", None, FALSE)
StatusTypes == {"starting", "running", "stopped"}

\* The helper's own end: a window's lanes start parked, and weather mode's is held open.
HeldChannel == CHOOSE c \in Channels \ Silent : WindowOf[c] = Weather
OffAir(state) == [state |-> state, window |-> 0, lanes |-> {}, speaker |-> None]

----------------------------------------------------------------------------
(* The hub.                                                                 *)

\* Defect: only a new speaker changes the slot, not silence or a status.
SlotKept(h, e) == IF e.type = "audible" /\ e.ch # None THEN [slot |-> e, seen |-> TRUE] ELSE h

\* broadcast(e), on the slot, of a release: those of a hop come together, in no order.
Freed(h, gone) ==
  IF ~h.seen /\ h.slot.type = "active" /\ h.slot.ch \in gone THEN [h EXCEPT !.slot = NoEvent] ELSE h

\* The same, of any other event.
Noted(h, e) ==
  CASE e.type = "audible" -> [slot |-> IF e.ch = None THEN NoEvent ELSE e, seen |-> TRUE]
    [] e.type = "active" /\ ~h.seen -> [h EXCEPT !.slot = e]
    [] e.type = "idle" /\ ~h.seen -> [h EXCEPT !.slot = NoEvent]
    [] e.type \in StatusTypes -> [slot |-> NoEvent, seen |-> FALSE]
    [] OTHER -> h

\* What goes out to the page: a release changes nothing there, a closed socket gets
\* nothing, and one whose buffer is full is skipped.
SentOut(p, events) ==
  CASE p.link = "up" -> [p EXCEPT !.inbox = @ \o events]
    [] p.link = "stuck" /\ (p.inbox = <<>> \/ Last(p.inbox) # Gap) -> [p EXCEPT !.inbox = Append(@, Gap)]
    [] OTHER -> p

\* The releases of the channels that are gone, then events.
Broadcast(gone, events) ==
  LET slots[n \in 0 .. Len(events)] == IF n = 0 THEN Freed(hub, gone) ELSE Noted(slots[n - 1], events[n])
  IN  /\ hub' = slots[Len(events)]
      /\ page' = IF gone = {} /\ events = <<>> THEN page ELSE SentOut(page, events)

Quiet == UNCHANGED <<hub, page>>

----------------------------------------------------------------------------
(* The engine's handlers.                                                   *)

Unproven == engine.unproven

\* releaseOpenOnHop().
ReleaseOpen ==
  Broadcast(engine.open, IF engine.open = {} THEN <<>> ELSE <<Event("idle", None, Unproven)>>)

\* findChannel(id).
Mine(c) == c # None /\ WindowOf[c] = engine.window

Room == Len(page.inbox) <= MaxInbox

OnOpen(c) ==
  IF ~Mine(c) THEN UNCHANGED engine /\ Quiet
  ELSE /\ engine' = [engine EXCEPT !.open = @ \cup {c}]
       /\ Broadcast({}, <<Event("active", c, Unproven)>>)

OnClose(c) ==
  IF c \notin engine.open
  THEN UNCHANGED engine /\ Quiet
  ELSE /\ engine' = [engine EXCEPT !.open = @ \ {c}]
       /\ Broadcast({c}, IF engine.open = {c} THEN <<Event("idle", None, Unproven)>> ELSE <<>>)

OnAudible(c) ==
  /\ UNCHANGED engine
  /\ Broadcast({}, <<Event("audible", IF Mine(c) THEN c ELSE None, Unproven)>>)

\* sendTune(), to window w.
SendTune(w) ==
  /\ tunes' = Append(tunes, w)
  /\ ReleaseOpen

OnReady ==
  /\ engine' = [engine EXCEPT !.open = {}, !.up = TRUE, !.proving = Unproven]
  /\ SendTune(engine.window)

\* A line of the helper.
ReadLine ==
  /\ lines # <<>> /\ Room
  /\ lines' = Tail(lines)
  /\ LET line == Head(lines)
     IN  \/ line.ev = "ready" /\ OnReady
         \/ line.ev = "open" /\ OnOpen(line.ch) /\ UNCHANGED tunes
         \/ line.ev = "close" /\ OnClose(line.ch) /\ UNCHANGED tunes
         \/ line.ev = "audible" /\ OnAudible(line.ch) /\ UNCHANGED tunes
  /\ UNCHANGED <<helper, mode, spent>>

\* READY_PROVEN_MS after "ready".
Proven ==
  /\ engine.proving
  /\ engine' = [engine EXCEPT !.proving = FALSE, !.unproven = FALSE]
  /\ Broadcast({}, <<Status("running")>>)
  /\ UNCHANGED <<helper, lines, tunes, mode, spent>>

\* The rotation's next window.  Weather mode has one, and stays.
Hop ==
  /\ engine.up /\ mode = "scan" /\ tunes = <<>> /\ Room
  /\ \E w \in Windows \ {engine.window} :
       /\ engine' = [engine EXCEPT !.window = w, !.open = {}]
       /\ SendTune(w)
  /\ UNCHANGED <<helper, lines, mode, spent>>

\* handleUnexpectedExit(): the first death is soft, the next ones are errors.  A helper
\* that spoke past HEALTHY_AFTER_MS was forgiven the deaths before it.
HelperExits ==
  /\ helper.state = "dead"
  /\ helper' = OffAir("none")
  /\ lines' = <<>> /\ tunes' = <<>>
  /\ engine' = [engine EXCEPT !.failed = TRUE, !.unproven = TRUE, !.proving = FALSE, !.up = FALSE]
  /\ \/ (~engine.failed \/ engine.up) /\ Broadcast({}, <<Status("starting")>>)
     \/ engine.failed /\ Broadcast({}, <<Event("error", None, FALSE)>>)
  /\ UNCHANGED <<mode, spent>>

\* The restart timer: spawnHelper().
Respawn ==
  /\ helper.state = "none"
  /\ helper' = OffAir("booting")
  /\ engine' = [engine EXCEPT !.open = {}]
  /\ UNCHANGED <<lines, tunes, hub, page, mode, spent>>

\* stop() and start(config) in one: a new helper, whatever the old one was doing.
StartOver(w) ==
  /\ helper' = OffAir("booting")
  /\ lines' = <<>> /\ tunes' = <<>>
  /\ engine' = [engine EXCEPT !.window = w, !.open = {}, !.up = FALSE, !.proving = FALSE]
  /\ Broadcast({}, <<Status("stopped"), Status("starting"), Status("running")>>)

Restart ==
  /\ Room
  /\ Comes("calls")
  /\ StartOver(engine.window)
  /\ UNCHANGED mode

FirstWindow(m) == IF m = "weather" THEN Weather ELSE CHOOSE w \in Windows : TRUE

\* switchMode(): a live helper is told to hop, and one that is down is started over.
SetMode ==
  /\ Room /\ Len(tunes) < 2
  /\ Comes("calls")
  /\ \E m \in Modes \ {mode} :
       LET w == FirstWindow(m)
       IN  /\ mode' = m
           /\ \/ /\ helper.state \in {"booting", "on"}
                 /\ engine' = [engine EXCEPT !.window = w, !.open = {}]
                 /\ SendTune(w)
                 /\ UNCHANGED <<helper, lines>>
              \/ /\ helper.state \in {"none", "dead"}
                 /\ StartOver(w)

----------------------------------------------------------------------------
(* The helper.                                                              *)

Speaks == helper.state = "on" /\ Len(lines) <= MaxLines

SaysReady ==
  /\ helper.state = "booting"
  /\ helper' = [helper EXCEPT !.state = "on"]
  /\ lines' = Append(lines, Line("ready", None))
  /\ UNCHANGED <<tunes, engine, hub, page, mode, spent>>

\* Scanner::tune, and the lane weather mode holds open.
RunsTune ==
  /\ helper.state = "on" /\ tunes # <<>>
  /\ LET w == Head(tunes)
         quiet == IF helper.speaker = None THEN <<>> ELSE <<Line("audible", None)>>
         held == w = Weather
     IN  /\ helper' = [helper EXCEPT !.window = w,
                         !.lanes = IF held THEN {HeldChannel} ELSE {},
                         !.speaker = IF held THEN HeldChannel ELSE None]
         /\ lines' = lines \o quiet
              \o IF held THEN <<Line("open", HeldChannel), Line("audible", HeldChannel)>> ELSE <<>>
  /\ tunes' = Tail(tunes)
  /\ UNCHANGED <<engine, hub, page, mode, spent>>

Opens ==
  /\ Speaks /\ helper.window # Weather
  /\ \E c \in Channels \ helper.lanes :
       /\ WindowOf[c] = helper.window
       /\ LET taken == c \notin Silent /\ helper.speaker = None
          IN  /\ helper' = [helper EXCEPT !.lanes = @ \cup {c}, !.speaker = IF taken THEN c ELSE @]
              /\ lines' = Append(lines, Line("open", c))
                   \o IF taken THEN <<Line("audible", c)>> ELSE <<>>
  /\ UNCHANGED <<tunes, engine, hub, page, mode, spent>>

\* A lane closes, and the speaker passes to another that may speak, if one is open.
Closes ==
  /\ Speaks /\ helper.window # Weather
  /\ \E c \in helper.lanes :
       LET others == (helper.lanes \ {c}) \ Silent
           heirs == IF others = {} THEN {None} ELSE others
       IN  \/ /\ c # helper.speaker
              /\ helper' = [helper EXCEPT !.lanes = @ \ {c}]
              /\ lines' = Append(lines, Line("close", c))
           \/ /\ c = helper.speaker
              /\ \E next \in heirs :
                   /\ helper' = [helper EXCEPT !.lanes = @ \ {c}, !.speaker = next]
                   /\ lines' = lines \o <<Line("close", c), Line("audible", next)>>
  /\ UNCHANGED <<tunes, engine, hub, page, mode, spent>>

Dies ==
  /\ helper.state \in {"booting", "on"}
  /\ Comes("faults")
  /\ helper' = OffAir("dead")
  /\ UNCHANGED <<lines, tunes, engine, hub, page, mode>>

----------------------------------------------------------------------------
(* The page.                                                                *)

\* What both kinds make of an event: who is playing, and whether audible events say so.
Playing(p, e) ==
  CASE e.type = "audible" -> [p EXCEPT !.nowPlaying = e.ch, !.audibleDriven = TRUE]
    [] e.type = "active" /\ ~p.audibleDriven -> [p EXCEPT !.nowPlaying = e.ch]
    [] e.type = "idle" /\ ~p.audibleDriven -> [p EXCEPT !.nowPlaying = None]
    [] e.type \in StatusTypes -> [p EXCEPT !.nowPlaying = None, !.audibleDriven = FALSE]
    [] OTHER -> p

\* Defect: traffic does not lift the error.
LiftedByStatus(e) == e.type = "running"

\* reduce(): traffic of a proven helper lifts the error, and so does "running".
Lifts(e) == e.type = "running" \/ (e.type \in {"active", "audible", "idle"} /\ ~e.unproven)

OnWall(p, e) ==
  LET q == Playing(p, e)
  IN  [q EXCEPT !.error = (@ \/ e.type = "error") /\ ~Lifts(e),
                !.state = IF e.type \in StatusTypes THEN e.type ELSE @]

\* reduceEvent(): the admin shows no error.
OnAdmin(p, e) == Playing(p, e)

\* History: a page that lost events is behind until it is told the whole of it again.
Told(e) == e.type \in StatusTypes \cup {"audible"}

Deliver ==
  /\ page.link = "up" /\ page.inbox # <<>>
  /\ LET e == Head(page.inbox)
         p == [page EXCEPT !.inbox = Tail(@), !.behind = (@ \/ e = Gap) /\ ~Told(e)]
     IN  page' = IF page.kind = "wall" THEN OnWall(p, e) ELSE OnAdmin(p, e)
  /\ UNCHANGED <<helper, lines, tunes, engine, hub, mode, spent>>

SocketCloses ==
  /\ page.link \in {"up", "stuck"}
  /\ Comes("losses")
  /\ page' = [page EXCEPT !.link = "down", !.inbox = <<>>, !.behind = TRUE]
  /\ UNCHANGED <<helper, lines, tunes, engine, hub, mode>>

\* A page just loaded, its socket open.
FreshPage(kind) ==
  [kind |-> kind, link |-> "up", inbox |-> <<>>, behind |-> FALSE, nowPlaying |-> None,
   audibleDriven |-> FALSE, error |-> FALSE, state |-> "running"]

\* Defect: the admin keeps what it showed when its socket opens again.
OpensAsWas(p) == [p EXCEPT !.behind = FALSE]

\* onSocketOpen(): the admin forgets what plays; the wall passes no onOpen and keeps it.
Reopened(p) == [p EXCEPT !.nowPlaying = None, !.audibleDriven = FALSE, !.behind = FALSE]

\* The socket opens: hub.add replays the slot.
SocketOpens ==
  /\ page.link = "down"
  /\ LET p == IF page.kind = "admin" THEN Reopened(page) ELSE page
     IN  page' = [p EXCEPT !.link = "up", !.inbox = IF hub.slot = NoEvent THEN <<>> ELSE <<hub.slot>>]
  /\ UNCHANGED <<helper, lines, tunes, engine, hub, mode, spent>>

\* The page is loaded again: it knows what the slot says, and nothing of what came before.
Loads ==
  /\ Comes("losses")
  /\ page' = [FreshPage(page.kind) EXCEPT !.inbox = IF hub.slot = NoEvent THEN <<>> ELSE <<hub.slot>>]
  /\ UNCHANGED <<helper, lines, tunes, engine, hub, mode>>

\* The browser stops reading until MAX_BUFFERED_BYTES wait for it, and reads again.
Stalls ==
  /\ page.link = "up"
  /\ Comes("losses")
  /\ page' = [page EXCEPT !.link = "stuck"]
  /\ UNCHANGED <<helper, lines, tunes, engine, hub, mode>>

Drains ==
  /\ page.link = "stuck"
  /\ page' = [page EXCEPT !.link = "up"]
  /\ UNCHANGED <<helper, lines, tunes, engine, hub, mode, spent>>

\* cornerView() and lcdView(): the error covers what is playing, and that the rest.
View(p) ==
  IF p.error THEN [what |-> "error", ch |-> None]
  ELSE IF p.nowPlaying # None THEN [what |-> "live", ch |-> p.nowPlaying]
  ELSE IF p.state = "starting" THEN [what |-> "retuning", ch |-> None]
  ELSE [what |-> "scanning", ch |-> None]

----------------------------------------------------------------------------

\* Before the service has started the engine.
PlayingInit ==
  /\ helper = OffAir("booting")
  /\ lines = <<>> /\ tunes = <<>>
  /\ engine = [window |-> FirstWindow("scan"), open |-> {}, failed |-> FALSE,
               unproven |-> FALSE, proving |-> FALSE, up |-> FALSE]
  /\ hub = [slot |-> NoEvent, seen |-> FALSE]
  /\ page \in {FreshPage(k) : k \in {"wall", "admin"}}
  /\ mode = "scan"
  /\ spent = [faults |-> 0, losses |-> 0, calls |-> 0]

HelperStep == SaysReady \/ RunsTune \/ Opens \/ Closes
EngineStep == ReadLine \/ Proven \/ HelperExits \/ Respawn
PageStep == Deliver \/ SocketOpens \/ Drains

PlayingNext ==
  \/ HelperStep \/ EngineStep \/ PageStep
  \/ Hop \/ Restart \/ SetMode \/ Dies \/ SocketCloses \/ Loads \/ Stalls

\* Node's timers and pipes, the browser's timers and sockets, and the helper's loop all
\* go on.  Nothing makes a helper die, a socket close or a channel transmit.
Fairness ==
  /\ WF_playingVars(SaysReady) /\ WF_playingVars(RunsTune) /\ WF_playingVars(ReadLine)
  /\ WF_playingVars(Proven) /\ WF_playingVars(HelperExits) /\ WF_playingVars(Respawn) /\ WF_playingVars(Hop)
  /\ WF_playingVars(Deliver) /\ WF_playingVars(SocketOpens) /\ WF_playingVars(Drains)

PlayingSpec == PlayingInit /\ [][PlayingNext]_playingVars /\ Fairness

----------------------------------------------------------------------------
(* Properties.                                                              *)

TypeOK ==
  /\ helper.state \in {"none", "booting", "on", "dead"} /\ helper.lanes \subseteq Channels
  /\ helper.speaker \in helper.lanes \cup {None}
  /\ engine.open \subseteq Channels /\ engine.failed \in BOOLEAN
  /\ hub.slot.type \in {"none", "active", "audible"} /\ page.nowPlaying \in Channels \cup {None}

\* Everything said has been heard, and the page has not lost any of it since it was
\* last told the whole.
Heard ==
  /\ helper.state = "on" /\ lines = <<>> /\ tunes = <<>> /\ ~engine.unproven
  /\ page.link = "up" /\ page.inbox = <<>> /\ ~page.behind

\* No audible event has reached the page since it was loaded, since its socket opened if it
\* is an admin's, or since the last status: until one does, it takes what opens for what plays.
Untold(p) == ~p.audibleDriven

\* What is live is what plays, and while something plays no page says it is scanning. While
\* nothing does, a page that is Untold may show a channel that is watched in silence.
ShowsSpeaker ==
  LET v == View(page) IN
  /\ v.what = "live" => \/ v.ch = helper.speaker
                        \/ Untold(page) /\ helper.speaker = None /\ v.ch \in Silent
  /\ v.what \in {"retuning", "scanning"} => helper.speaker = None

\* What a page shows as live is what the speaker plays, and while the speaker plays no
\* page says it is scanning: through hops with lines in the pipe, deaths and restarts of
\* the helper, a socket that closes or stalls, a page that is loaded again, and the replay
\* to one that opens.  The one channel a page can show that nobody hears is a silent one,
\* and only a page that is Untold does so (LiveIsHeard).  It holds once the speaker has
\* changed hands since the last status, which is when the hub takes audible events as the
\* truth (WsHub.broadcast, reduce, reduceEvent).
PageFollowsSpeaker == Heard /\ hub.seen => ShowsSpeaker

\* The same of every page: once audible events flow "active means 'a channel opened',
\* audible means 'this is what the speaker plays'" (ws.ts, lastNowPlaying).  The slot is
\* empty while nothing plays, so a page that is loaded or an admin that reconnects then is
\* not told that audible events flow, and shows a silent channel that opens as live.
LiveIsHeard == Heard /\ hub.seen /\ View(page).what = "live" => View(page).ch = helper.speaker

\* The same, without waiting for the speaker to change hands: "a channel that holds
\* open for hours (NOAA) emits nothing new", and the hub and the pages are to show it
\* all the same (ws.ts, lastNowPlaying).
HeldChannelShown == Heard => ShowsSpeaker

\* The engine hears a channel of its window open.
HearsTraffic == ReadLine /\ Head(lines).ev = "open" /\ Mine(Head(lines).ch)

\* While there is always new traffic, the wall ends up without the error of a helper that
\* has come back, though its socket was closed or stalled when the engine said "running"
\* (reduce: a page that misses it "would otherwise show the old error forever").
ErrorGoes == []<><<HearsTraffic>>_playingVars => <>[](~page.error)
=============================================================================
